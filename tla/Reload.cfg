SPECIFICATION Spec
CONSTANTS
  e1 = e1
  e2 = e2
  Event <- OneEvent
  Bogus = Bogus
  CacheSize = 2
  FlushOption = 1
  FlushInterval = 1
  Autosync = 1
  AmqpWaitTime = 1
  SockBuf = 0
  Faults = {}
  MaxFaults = 1
INVARIANT LoadRestoresCache
