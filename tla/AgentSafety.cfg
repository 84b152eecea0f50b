SPECIFICATION Spec
CONSTANTS
  e1 = e1
  e2 = e2
  Event <- TwoEvents
  Bogus = Bogus
  CacheSize = 3
  FlushOption = 2
  FlushInterval = 2
  Autosync = 1
  AmqpWaitTime = 2
  SockBuf = 1
  Faults = {"drop", "broker", "channel", "open", "write", "crash"}
  MaxFaults = 2
SYMMETRY Symmetric
INVARIANTS TypeOK LinkCoherent PublishFindsLink RequeueFits SkippedSyncIsSafe
PROPERTIES StoredAtUnload ImplementsLink
