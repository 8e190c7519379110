SPECIFICATION Spec
CONSTANTS
  p1 = p1
  s1 = s1
  s2 = s2
  None = None
  Torn = Torn
  Nodes = {1, 2}
  Pools = {p1}
  Services = {s1}
  Owner <- OwnerOne
  MaxRev = 2
  MaxAuth = 3
  MaxEdits = 0
  MaxVer = 1
  MaxTroubles = 1
INVARIANTS
  AcceptedIsDurable
  FencedEverywhere
  ReleaseAfterBarrier
CHECK_DEADLOCK FALSE
