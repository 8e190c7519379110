\* Two grants, the clock free in 0..3, both expiries within it.
CONSTANTS
  g1 = g1
  g2 = g2
  Grants = {g1, g2}
  Expiry <- MCExpiry
  MaxTime = 3
  None = None
  Torn = Torn
SPECIFICATION FairSpec
INVARIANTS TypeOK ResidueAccounted CheckpointCovers
PROPERTIES ClearOnlyWithdrawn ClockFloorKept ExpiredLeaseWithdrawn
