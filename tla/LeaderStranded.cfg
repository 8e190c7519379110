\* No fault at all, one caller whose context runs out at the mutex.
CONSTANTS
  r1 = r1
  r2 = r2
  a1 = a1
  a2 = a2
  b1 = b1
  Nobody = Nobody
  Replicas = {r1, r2}
  Workers = {w1}
  Conns = {a1, a2, b1}
  Home <- MCHome
  MaxFaults = 0
  MaxExpiries = 1
SPECIFICATION FairSpec
PROPERTY GapIsBounded
