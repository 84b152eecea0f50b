SPECIFICATION FairSpec
CONSTANTS
  DeclareExchange = TRUE
  BodySizes = {0, 2}
  SockBuf = 2
  ServerFrameMax = {0, 9}
  FrameMaxWanted = 10
  MaxPublishes = 3
  MaxConnects = 3
  MaxFaults = 3
CHECK_DEADLOCK FALSE
INVARIANTS ConnectedMeansReady InStep WholeInOrder FrameMaxRespected
PROPERTIES ImplementsLink EveryWaitEnds
