CONSTANTS
  p1 = p1
  p2 = p2
  i1 = i1
  e1 = e1
  m1 = m1
  m2 = m2
  d1 = d1
  s1 = s1
  u1 = u1
  NULL = NULL
  Pod = {p1, p2}
  Slot = {i1}
  EstReq = {e1}
  ModReq = {m1, m2}
  DelReq = {d1}
  BadReq = {}
  Seid = {s1}
  Teid = {u1}
  V_CAS_MAX_RETRY = 2
  CtxCap = 2
  MaxXmit = 1
  Overlap = FALSE
  Faults = {"dispatch", "read_err", "cas_err", "confirm_err", "persist_refused", "del_err", "vdp_reject", "vdp_timeout", "build", "encode", "hard_timeout", "crash"}
SYMMETRY Symmetry
SPECIFICATION Spec
INVARIANTS
  DurabilityInv
  HistoryInv
  AcceptedDurable
  AcceptedModsApplied
  DeletedIsGone
PROPERTIES
  ImplementsRegistry
CHECK_DEADLOCK FALSE
