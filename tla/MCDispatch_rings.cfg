CONSTANTS
  w1 = w1
  w2 = w2
  Io = Io
  Worker = {w1, w2}
  RingSize = 4
  PfcpCap = 2
  TxnCap = 2
  MaxRx = 6
  Faults = {"dispatch", "oversize", "unanswered"}
SPECIFICATION Spec
CHECK_DEADLOCK FALSE
INVARIANTS DispatchTypeOK MessagesBaseline RepliesHaveRoom HandledOnce NoDanglingTransaction
PROPERTY EveryDatagramEnds
