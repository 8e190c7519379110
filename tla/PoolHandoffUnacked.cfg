\* The expiry fallback against a lease the old owner never acknowledged.
CONSTANTS
  Nodes = {n1, n2}
  FirstOwner = n1
  Lag <- MCLag
  TTL = 1
  Skew = 1
  MaxAckAge = 2
  Budget = 3
  MaxTime = 4
  MaxOps = 1
  MaxRenewals = 2
SPECIFICATION Spec
INVARIANT BreakBeforeMake
CHECK_DEADLOCK FALSE
