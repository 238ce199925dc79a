CONSTANTS
  Rows = 2
  Cols = 6
SPECIFICATION KernelSpec
PROPERTY
  TimerOfThreadsLives
