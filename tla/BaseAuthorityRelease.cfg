SPECIFICATION DrainSpec
CONSTANTS
  p1 = p1
  s1 = s1
  s2 = s2
  None = None
  Torn = Torn
  Nodes = {1, 2}
  Pools = {p1}
  Services = {s1}
  Owner <- OwnerOne
  MaxRev = 4
  MaxAuth = 4
  MaxEdits = 0
  MaxVer = 1
  MaxTroubles = 1
INVARIANTS
  AcknowledgedStaysArmed
CHECK_DEADLOCK FALSE
