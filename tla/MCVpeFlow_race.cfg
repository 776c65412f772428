CONSTANTS
  p1 = p1
  p2 = p2
  i1 = i1
  e1 = e1
  m1 = m1
  m2 = m2
  d1 = d1
  s1 = s1
  u1 = u1
  NULL = NULL
  Pod = {p1, p2}
  Slot = {i1}
  EstReq = {e1}
  ModReq = {m1, m2}
  DelReq = {d1}
  BadReq = {}
  Seid = {s1}
  Teid = {u1}
  V_CAS_MAX_RETRY = 2
  CtxCap = 2
  MaxXmit = 1
  Overlap = FALSE
  Faults = {"vdp_reject", "bg_lost"}
SPECIFICATION FairSpec
INVARIANTS
  CtxBaseline
  RuleHasRecord
PROPERTIES
  EveryFlowEnds
  EstablishmentResolves
  TeidReclaimed
CHECK_DEADLOCK FALSE
