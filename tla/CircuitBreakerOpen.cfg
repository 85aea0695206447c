SPECIFICATION Spec
CONSTANTS
  Calls = {c1, c2, c3}
  FailureThreshold = 1
  SuccessThreshold = 1
  OpenTimeout = 2
  HalfOpenMaxConcurrent = 2
  MaxNow = 4
PROPERTIES OpenUntilElapsed
