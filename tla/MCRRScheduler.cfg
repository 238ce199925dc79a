SPECIFICATION Spec
CONSTANTS
  t1 = t1
  t2 = t2
  t3 = t3
  Threads <- MCThreads
  Order <- MCOrder
  Terminating <- MCTerminating
  Killable <- MCKillable
  Capacity = 9
  Quantum = 2
  MaxNest = 2
INVARIANTS
  NothingFails
  EntriesMatchFrames
  TerminatedStaysOut
  KilledRunsNoUserCode
PROPERTIES
  NobodyStarves
