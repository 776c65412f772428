CONSTANTS
  s1 = s1
  c1 = c1
  c2 = c2
  NoCall = NoCall
  Shard = {s1}
  ScriptCount = 2
  Call = {c1, c2}
  EvalCap = 2
  LoadCap = 2
  PendingCap = 2
  MaxFlush = 2
  MaxConnect = 1
  Faults = {"connect", "disconnect", "error"}
SPECIFICATION Spec
CHECK_DEADLOCK FALSE
INVARIANTS ScriptTypeOK AnsweredOnce PoolsBaseline RetrySuffices
PROPERTIES ImplementsCalls BecomesReady
