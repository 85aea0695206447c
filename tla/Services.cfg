SPECIFICATION ServicesSpec
CONSTANTS
  Calls = {c1, c2, c3}
  FailureThreshold = 2
  SuccessThreshold = 2
  OpenTimeout = 2
  HalfOpenMaxConcurrent = 2
  MaxNow = 3
SYMMETRY Symmetry
INVARIANTS TypesOK  ThresholdsAct   TestkitSound DataKept AnswersRight
PROPERTIES HalfOpenAfterInterval 
CHECK_DEADLOCK FALSE
