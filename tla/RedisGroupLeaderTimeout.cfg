SPECIFICATION GroupSpec
CONSTANTS
  e1 = e1  e2 = e2  c1 = c1  c2 = c2  c3 = c3  r1 = r1  r2 = r2
  NoOwner = NoOwner
  Electors = {e1, e2}
  Resigners <- TwoResign
  Lease = 2
  MaxSkew = 1
  MaxDelay = 0
  MaxNow = 2
  MaxGenerations = 2
INVARIANT RenewedIffOwned
CHECK_DEADLOCK FALSE
