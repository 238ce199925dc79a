SPECIFICATION AllSpec
CONSTANTS
  t1 = t1
  t2 = t2
  t3 = t3
  t4 = t4
  b1 = b1
  b2 = b2
  Threads <- MCThreads
  Order <- MCOrder
  Builds <- MCBuilds
  Blocks <- MCBlocks
  Values = {0, 1}
  QueueThreads <- MCQueueThreads
  Capacity = 4
  NULL = NULL
INVARIANTS
  NothingFails
  OnePlace
  NoCommandLost
  TransfersOwnData
  FlagsAgree
  MaskedSections
  MirrorsHoldLatest
PROPERTIES
  OperationsEnd
  ReadsReturnLatest
  ImplementsFIFO
