CONSTANTS
  Rows = 2
  Cols = 6
SPECIFICATION KernelSpec
INVARIANTS
  LaterScreensShowLastLines
  CursorContained
  FramesWellFormed
  KernelSurvives
  NoneBlocked
PROPERTIES
  ContextsRestored
  InterruptsServed
  KeyEndsWait
