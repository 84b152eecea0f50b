SPECIFICATION Spec
CONSTANTS
  MaxSize = 8
  Overhead = 2
  Bases = {1, 2, 3, 4, 5, 6, 7, 8, 9, 10, 11}
  Lengths = {0, 1, 2, 3, 5, 7, 9, 12}
  TwoBytes = {2, 12}
CHECK_DEADLOCK FALSE
INVARIANT FitsMaxSize
