SPECIFICATION Spec
CONSTANTS
  N = 3
  ChunkSize = 2
  MaxAttempts = 2
  MaxSkips = 2
  MaxRuns = 2
INVARIANT AtLeastOnce
CHECK_DEADLOCK FALSE
