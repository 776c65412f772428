CONSTANTS
  p1 = p1
  p2 = p2
  Pod = {p1, p2}
  Smf = {1}
  PoolCap = 2
  MaxClock = 2
  MaxCalls = 0
  MaxFail = 0
  Faults = {}
SPECIFICATION Spec
SYMMETRY PodSymmetry
CHECK_DEADLOCK FALSE
INVARIANT OneTimestamp
