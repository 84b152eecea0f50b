SPECIFICATION HistSpec
CONSTANTS
  MaxEvents = 4
  MaxBoots = 2
  Event <- Events
  Bogus = Bogus
  CacheSize = 3
  FlushOption = 2
  FlushInterval = 1
  Autosync = 0
  AmqpWaitTime = 1
  SockBuf = 1
  Faults = {"drop", "broker", "channel", "open", "write", "crash"}
  MaxFaults = 2
CHECK_DEADLOCK FALSE
INVARIANTS InOrder NothingLost
PROPERTY ImplementsRelay
