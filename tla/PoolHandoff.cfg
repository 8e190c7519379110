\* One handoff, with a renewal of the old owner that may stay unacknowledged.
CONSTANTS
  Nodes = {n1, n2}
  FirstOwner = n1
  Lag <- MCLag
  TTL = 1
  Skew = 1
  MaxAckAge = 2
  Budget = 3
  MaxTime = 4
  MaxOps = 1
  MaxRenewals = 2
SPECIFICATION Spec
INVARIANTS TypeOK OnlyOwnerServes RetiredOwnerSilent ReleaseHolds OneOwnerPerGeneration RetriesIdempotent
CHECK_DEADLOCK FALSE
