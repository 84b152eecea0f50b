SPECIFICATION HistSpec
CONSTANTS
  MaxEvents = 3
  MaxBoots = 2
  Event <- Events
  Bogus = Bogus
  CacheSize = 5
  FlushOption = 2
  FlushInterval = 1
  Autosync = 1
  AmqpWaitTime = 0
  SockBuf = 0
  Faults = {"open"}
  MaxFaults = 1
CHECK_DEADLOCK FALSE
INVARIANT UnreadFileIsKept
