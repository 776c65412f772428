CONSTANTS
  p1 = p1
  p2 = p2
  Pod = {p1, p2}
  Smf = {1, 2}
  PoolCap = 2
  MaxClock = 2
  MaxCalls = 2
  MaxFail = 1
  Faults = {"disconnect", "error"}
SPECIFICATION Spec
SYMMETRY PodSymmetry
CHECK_DEADLOCK FALSE
INVARIANTS NodeTypeOK FoundIsShared NotBackdated QueryTruth NodePoolBaseline
