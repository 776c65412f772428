CONSTANTS
  p1 = p1
  p2 = p2
  i1 = i1
  e1 = e1
  m1 = m1
  m2 = m2
  d1 = d1
  s1 = s1
  s2 = s2
  u1 = u1
  u2 = u2
  NULL = NULL
  Pod = {p1, p2}
  Slot = {i1}
  EstReq = {e1}
  ModReq = {m1, m2}
  DelReq = {d1}
  BadReq = {m2}
  Seid = {s1, s2}
  Teid = {u1, u2}
  V_CAS_MAX_RETRY = 2
  CtxCap = 2
  MaxXmit = 2
  Overlap = FALSE
  Faults = {"vdp_reject", "alloc", "read_err", "cas_err", "del_err"}
SYMMETRY Symmetry
SPECIFICATION Spec
INVARIANTS
  SameAnswer
CHECK_DEADLOCK FALSE
