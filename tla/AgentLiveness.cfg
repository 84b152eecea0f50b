SPECIFICATION FairSpec
CONSTANTS
  e1 = e1
  e2 = e2
  Event <- OneEvent
  Bogus = Bogus
  CacheSize = 2
  FlushOption = 2
  FlushInterval = 1
  Autosync = 1
  AmqpWaitTime = 1
  SockBuf = 1
  Faults = {"drop", "broker", "open", "write"}
  MaxFaults = 2
PROPERTIES CallsReturn KeepsPublishing Drains KeepsSaving
