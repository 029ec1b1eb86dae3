SPECIFICATION FairSpec
CONSTANTS
  MaxSize = 5
  Lengths = {0, 1, 2, 3, 4, 5, 6, 7, 9}
  ChunkSizes = {0, 1, 2, 3, 5, 6, 8}
  Endless = Endless
  None = None
INVARIANTS CapKept WholeBody OnlyTooLarge
PROPERTIES ReadEnds
CHECK_DEADLOCK FALSE
