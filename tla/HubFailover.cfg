\* One replica, two pinned gateways, one restart, one edit, one failure.
CONSTANTS
  r1 = r1
  r2 = r2
  h1 = h1
  Replicas = {r1}
  Members = {1, 2}
  Handlers = {h1}
  MaxPin = 1
  DemoteTicks = 2
  RestoreTicks = 3
  Pinned = {1, 2}
  NoLeader = NoLeader
  MaxTroubles = 2
SPECIFICATION FairSpec
INVARIANT TypeOK
PROPERTIES NoSpuriousDemotion RestoreWitnessed DeadHubIsPassed StaleSetHeals
CHECK_DEADLOCK FALSE
