SPECIFICATION LateSpec
CONSTANTS
  Clients = {c1, c2}
  MaxTTL = 2
  MaxNow = 3
  MaxTokens = 3
  None = None
  MaxPermits = 2
  MaxEntries = 3
  MaxIdle = 1
  MaxFaults = 2
  Limits = {1, 2}
  MaxSize = 2
  MaxValues = 2
INVARIANT Coherent
CHECK_DEADLOCK FALSE
