SPECIFICATION MemorySpec
CONSTANTS
  NPools = 2
  Base <- MCBase
  NFrames <- MCNFrames
  Entries = 7
  MaxRequest = 2
  Garbage <- MCClean
  Hole <- MCHole
  n_frames = 4
  ScanRequests = 3
  ScanEntries = 7
  NVMPools = 2
  BasePage <- MCBasePage
  Size <- MCSize
  PerTable = 2
  MaxPage = 7
  LastFrame = 8
  PageBytes = 2
  MaxBytes = 3
  MaxRegions = 3
  EntriesPerPage = 6
  KernelPool <- MCKernelPool
  ProcessPool <- MCProcessPool
  Touched <- MCTouched
  Values <- MCValues
INVARIANTS
  AllocationsInsidePool
