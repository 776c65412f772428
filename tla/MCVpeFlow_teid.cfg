CONSTANTS
  p1 = p1
  p2 = p2
  i1 = i1
  e1 = e1
  d1 = d1
  s1 = s1
  s2 = s2
  u1 = u1
  NULL = NULL
  Pod = {p1, p2}
  Slot = {i1}
  EstReq = {e1}
  ModReq = {}
  DelReq = {d1}
  BadReq = {}
  Seid = {s1, s2}
  Teid = {u1}
  V_CAS_MAX_RETRY = 2
  CtxCap = 2
  MaxXmit = 3
  Overlap = TRUE
  Faults = {"lookup_err", "read_err", "cas_err", "confirm_err", "del_err", "vdp_reject", "alloc", "bg_lost", "store_lost", "rpush_lost", "cache_expiry", "hard_timeout", "crash"}
SYMMETRY Symmetry
SPECIFICATION Spec
INVARIANTS
  TypeOK
  TeidExclusive
  RuleTeidExclusive
CHECK_DEADLOCK FALSE
