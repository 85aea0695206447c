SPECIFICATION LeaderSpec
CONSTANTS
  a1 = a1  a2 = a2  w1 = w1  w2 = w2  None = None
  Electors = {e1, e2}
  Resigners = {r1, r2}
  NoOwner = NoOwner
  Lease = 1
  MaxNow = 2
  MaxGeneration = 2
SYMMETRY Symmetry
INVARIANTS TypeOK LeaderHoldsRow OwnedIsRenewed ResignExcludesCampaign
CHECK_DEADLOCK FALSE
