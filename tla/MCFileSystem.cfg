SPECIFICATION Spec
CONSTANTS
  f1 = f1
  f2 = f2
  x = x
  y = y
  Blank = Blank
  Ids <- MCIds
  Values <- MCValues
  NInodes = 2
  NBlocks = 6
  PerBlock = 2
  MaxBlocks = 2
  MaxCount = 2
SYMMETRY Symmetric
CHECK_DEADLOCK FALSE
INVARIANTS
  BlocksAccounted
  DiskFollowsMemory
  WritesKept
PROPERTY ReadsReturnWrites
