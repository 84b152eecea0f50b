SPECIFICATION MCSpec
CONSTANTS
  n1 = n1
  n2 = n2
  n3 = n3
  n4 = n4
  n5 = n5
  Node <- Nodes
  Null = Null
  CacheSize = 3
  Byte <- Characters
  NewLine <- MCNewLine
  BufferSize = 5
  Garbage <- MCGarbage
  NewEvents <- MCNewEvents
  MaxQueue = 2
  MaxStarts = 3
  MaxSyncs = 2
INVARIANTS TypeOK WellLinked NoLeakNoDangling
INVARIANTS IntactEventsRead OneDamagedEvent
PROPERTY ImplementsQueue
