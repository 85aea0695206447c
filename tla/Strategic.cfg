SPECIFICATION Spec
CONSTANTS
  Nodes = {1, 2}
  Indexed = TRUE
  TTLs = {1, 3}
  Buffer = 1
  Scores = {1}
  MaxTime = 3
  MaxResults = 1
INVARIANT LiveCandidatesListed
CHECK_DEADLOCK FALSE
