\* Two replicas, three connections, two faults at any step.
CONSTANTS
  r1 = r1
  r2 = r2
  a1 = a1
  a2 = a2
  b1 = b1
  Nobody = Nobody
  Replicas = {r1, r2}
  Workers = {w1}
  Conns = {a1, a2, b1}
  Home <- MCHome
  MaxFaults = 2
  MaxExpiries = 1
SPECIFICATION FairSpec
INVARIANTS TypeOK FlagLagsOnlyDeath NoParkedLock
PROPERTIES FencedWrites LeadershipReturns
