CONSTANTS
  p1 = p1
  p2 = p2
  l1 = l1
  Pod = {p1, p2}
  Lcore = {l1}
  V_ID_BLK_SIZE = 2
  V_ID_WATERMARK = 1
  V_TEID_FREE_FLOOR = 1
  RingCap = 3
  V_NUM_PARTS = 3
  PartSize = 4
  SeidLocalSize = 16
  TeidLocalSize = 16
  SeidRsvSize = 2
  V_SEID_FMT_VER = 1
  Part = 1
  MaxNext = 4
  Faults = {"dispatch", "disconnect", "crash"}
SPECIFICATION Spec
SYMMETRY PodSymmetry
CHECK_DEADLOCK FALSE
INVARIANTS IdTypeOK IdUnique RepliesFit
