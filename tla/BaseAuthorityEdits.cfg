SPECIFICATION Spec
CONSTANTS
  p1 = p1
  s1 = s1
  s2 = s2
  None = None
  Torn = Torn
  Nodes = {1, 2}
  Pools = {p1}
  Services = {s1, s2}
  Owner <- OwnerOne
  MaxRev = 1
  MaxAuth = 2
  MaxEdits = 1
  MaxVer = 2
  MaxTroubles = 0
INVARIANTS
  TypeOK
  AcceptedIsHidden
  FenceBoundToBase
CHECK_DEADLOCK FALSE
SYMMETRY ServiceSymmetry
