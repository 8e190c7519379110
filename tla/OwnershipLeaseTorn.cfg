\* A checkpoint write that fails and is reported as done.
CONSTANTS
  g1 = g1
  g2 = g2
  Grants = {g1, g2}
  Expiry <- MCExpiry
  MaxTime = 3
  None = None
  Torn = Torn
SPECIFICATION Spec
INVARIANT CheckpointReadable
