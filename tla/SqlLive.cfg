SPECIFICATION LiveSpec
CONSTANTS
  a1 = a1  a2 = a2
  w1 = w1  w2 = w2
  None = None
  Electors = {e1, e2}
  Resigners = {r1}
  NoOwner = NoOwner
  Lease = 1
  MaxNow = 1
  MaxGeneration = 2
PROPERTIES LossNoticed ResignReturns EventuallyFinished
CHECK_DEADLOCK FALSE
