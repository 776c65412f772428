CONSTANTS
  p1 = p1
  l1 = l1
  Pod = {p1}
  Lcore = {l1}
  V_ID_BLK_SIZE = 2
  V_ID_WATERMARK = 1
  V_TEID_FREE_FLOOR = 2
  RingCap = 3
  V_NUM_PARTS = 2
  PartSize = 2
  SeidLocalSize = 16
  TeidLocalSize = 2
  SeidRsvSize = 2
  V_SEID_FMT_VER = 1
  Part = 1
  MaxNext = 10
  Faults = {}
SPECIFICATION Spec
CHECK_DEADLOCK FALSE
INVARIANT IdUnique
