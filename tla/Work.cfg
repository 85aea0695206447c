SPECIFICATION WorkSpec
CONSTANTS
  r1 = r1  r2 = r2
  a1 = a1  a2 = a2  b1 = b1
  None = None
  Runners = {r1, r2}
  N = 3
  ChunkSize <- ChunkSizes
  MaxAttempts = 2
  MaxSkips = 1
  MaxRevision = 2
  MaxRuns = 2
INVARIANTS TypesOK ExactlyOnce HandledAll HistoryKept FlowsHonest 
PROPERTIES Implements StaleCannotMark
CHECK_DEADLOCK FALSE
