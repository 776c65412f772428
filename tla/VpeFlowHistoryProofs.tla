------------------------ MODULE VpeFlowHistoryProofs ------------------------
(***************************************************************************)
(* Proofs, for every value of the constants, that the version CAS gives    *)
(* each session one history: modifications the SMF was told of stay in the *)
(* record, a deleted session stays deleted, and the records in Redis       *)
(* implement SessionRegistry.                                              *)
(*                                                                         *)
(* The steps are of two sorts.  A callback, a timeout, a crash and the     *)
(* arrival of a request change transactions, commands under way and        *)
(* replies, and neither Redis' records nor the VDP's rules (FlowMoves).    *)
(* Redis, the VDP and time change records, rules and answers (Effect).     *)
(* MovesKeepHistory and EffectKeepsHistory show once that each sort        *)
(* preserves HistoryInv; the rest shows that every action is of one sort.  *)
(***************************************************************************)
EXTENDS VpeFlowRefinement, VpeFlowProofs, SequenceTheorems

(* How transaction t, its record txn[t] becoming new, goes on with an      *)
(* establishment,                                                          *)
EstMove(t, new) ==
  \/ /\ new.cb = "cas_write_cb" /\ txn[t].cb = "retrans_lookup_cb"
     /\ new.seid \in Seid \ seidUsed /\ Creation(new.cmd, new.seid)
  \/ /\ new.cb = "vdp_create_cb" /\ txn[t].cb = "cas_write_cb" /\ txn[t].res = "OK"
     /\ new.seid = txn[t].seid
     /\ new.cmd.op = "VDP_CREATE" /\ new.cmd.seid = new.seid
  \/ /\ new.cb = "confirm_cb" /\ txn[t].cb = "vdp_create_cb" /\ txn[t].res = "ACCEPT"
     /\ new.seid = txn[t].seid /\ new.cmd.op = "PERSIST"

(* with a modification,                                                    *)
ModMove(t, new) ==
  \/ /\ new.cb = "mod_cas_cb" /\ txn[t].cb = "mod_read_cb" /\ new.seid = txn[t].seid
     /\ new.ver = sess[new.seid].ver /\ new.ver # 0 /\ new.impl = sess[new.seid].ctx
     /\ new.cmd = v_sess_cas_write(new.seid, new.ver, new.cmd.ctx, FALSE)
     /\ new.cmd.ctx.mods = Append(new.impl.mods, new.req)
  \/ /\ new.cb = "mod_vdp_cb" /\ txn[t].cb = "mod_cas_cb" /\ txn[t].res = "OK"
     /\ new.seid = txn[t].seid /\ new.req = txn[t].req /\ new.impl = txn[t].impl
     /\ new.ver = txn[t].ver + 1
     /\ new.cmd.op = "VDP_MODIFY" /\ new.cmd.seid = new.seid
  \/ /\ new.cb = "mod_compensate_write_cb" /\ txn[t].cb = "mod_vdp_cb"
     /\ new.seid = txn[t].seid
     /\ new.cmd = v_sess_cas_write(txn[t].seid, txn[t].ver, txn[t].impl, FALSE)

(* with a deletion,                                                        *)
DelMove(t, new) ==
  \/ /\ new.cb = "del_vdp_cb" /\ txn[t].cb = "del_read_cb" /\ new.seid = txn[t].seid
     /\ new.cmd.op = "VDP_DELETE" /\ new.cmd.seid = new.seid
  \/ /\ new.cb = "del_delete_cb" /\ txn[t].cb = "del_vdp_cb" /\ txn[t].res = "ACCEPT"
     /\ new.seid = txn[t].seid
     /\ new.cmd.op = "DEL" /\ new.cmd.seid = new.seid

(* reads a session (again), or takes up a request.                         *)
ReadMove(t, new) ==
  /\ new.cb \in {"mod_read_cb", "del_read_cb"} /\ txn[t].cb \in ModCb \cup DelCb
  /\ new.seid = txn[t].seid /\ new.cmd = NoCmd

StartMove(t, new) ==
  /\ new.cb \in {"retrans_lookup_cb", "mod_retrans_lookup_cb", "del_retrans_lookup_cb"}
  /\ txn[t].st = "FREE" /\ new.cmd = NoCmd
  /\ new.cb # "retrans_lookup_cb" => new.seid \in AcceptedSeids

Moves(t, new) ==
  /\ new \in TxnRecord /\ new.res = "none"
  /\ \/ new = Idle
     \/ /\ new.st # "FREE"
        /\ \/ EstMove(t, new) \/ ModMove(t, new) \/ DelMove(t, new)
           \/ ReadMove(t, new) \/ StartMove(t, new)

(* Reply x is the positive answer of transaction t.                        *)
AnswersAs(t, x) ==
  /\ x.seid = txn[t].seid
  /\ \/ x.req \in EstReq /\ txn[t].cb = "confirm_cb"
     \/ x.req \in ModReq /\ txn[t].cb = "mod_vdp_cb" /\ x.req = txn[t].req
     \/ x.req \in DelReq /\ txn[t].cb = "del_delete_cb" /\ txn[t].res = "OK"

(* A command that was under way when t stopped waiting for it.             *)
LeftBehind(t, c) ==
  /\ c \in Late(t)
  /\ txn[t].cb \in {"cas_write_cb", "vdp_create_cb"} => txn'[t] = Idle

(* A step of transactions: any number of them move on, commands and        *)
(* replies appear, Redis' records and the VDP's rules stay as they are.    *)
FlowMoves ==
  /\ \A t \in Txn : txn'[t] = txn[t] \/ Moves(t, txn'[t])
  /\ bg \subseteq bg'
  /\ \A c \in bg' : c \in bg \/ c.op \in {"DEL", "PERSIST"} \/ \E t \in Txn : LeftBehind(t, c)
  /\ \A t \in Txn : txn[t].cb = "cas_write_cb" /\ txn'[t] # txn[t] => Late(t) \subseteq bg'
  /\ tx \subseteq tx'
  /\ \A x \in tx' : \/ x \in tx \/ x.cause # "ACCEPTED"
                    \/ \E t \in Txn : txn'[t] = Idle /\ AnswersAs(t, x)
  /\ sess' = sess /\ refused' = refused /\ vdp' = vdp
  /\ \/ seidUsed' = seidUsed
     \/ \E s \in Seid \ seidUsed : seidUsed' = seidUsed \cup {s}

-----------------------------------------------------------------------------
(* Facts about moves.                                                      *)

(* A positive answer to a modification or deletion names its session.      *)
LEMMA MovesFacts ==
  ASSUME DurabilityInv, DurabilityInv', HistoryInv, FlowMoves
  PROVE  /\ \A s : s \in AcceptedSeids => s \in AcceptedSeids'
         /\ \A s : s \in AcceptedSeids' =>
              \/ s \in AcceptedSeids
              \/ \E t \in Txn : txn'[t] = Idle /\ Establishing(t, s) /\ txn[t].cb = "confirm_cb"
         /\ \A t \in Txn : \A s : Establishing(t, s)' =>
              Establishing(t, s) \/ s \in Seid \ seidUsed
         /\ \A m \in ModReq : \A s : Reported(m, s)' => Reported(m, s)
         /\ \A t \in Txn, m \in ModReq : \A s :
              ReportedBut(t, m, s)' /\ txn'[t] # Idle => ReportedBut(t, m, s)
<1> USE DEF FlowMoves
<1>1. \A s : s \in AcceptedSeids => s \in AcceptedSeids'
  BY AcceptedIff, AcceptedIffNext
<1>2. ASSUME NEW s, s \in AcceptedSeids', s \notin AcceptedSeids
      PROVE  \E t \in Txn : txn'[t] = Idle /\ Establishing(t, s) /\ txn[t].cb = "confirm_cb"
  <2>1. PICK x \in tx' : x.cause = "ACCEPTED" /\ x.req \in EstReq /\ x.seid = s
    BY <1>2, AcceptedIffNext
  <2>2. x \notin tx
    BY <1>2, <2>1, AcceptedIff
  <2>3. PICK t \in Txn : txn'[t] = Idle /\ AnswersAs(t, x)
    BY <2>1, <2>2
  <2> QED
    BY <2>1, <2>3, RequestAssumption DEF AnswersAs, Establishing, EstWait
<1>3. ASSUME NEW t \in Txn, NEW s, Establishing(t, s)', ~Establishing(t, s)
      PROVE  s \in Seid \ seidUsed
  <2>1. Moves(t, txn'[t])
    BY <1>3 DEF Establishing
  <2> QED
    BY <1>3, <2>1, IdleFacts
    DEF Moves, Establishing, EstWait, EstMove, ModMove, DelMove, ReadMove, StartMove
<1>4. ASSUME NEW t \in Txn, Committed(t)'
      PROVE  Committed(t) /\ txn'[t].req = txn[t].req /\ txn'[t].seid = txn[t].seid
  <2>1. CASE txn'[t] = txn[t]
    BY <1>4, <2>1 DEF Committed
  <2>2. CASE Moves(t, txn'[t])
    BY <1>4, <2>2, IdleFacts
    DEF Moves, Committed, EstMove, ModMove, DelMove, ReadMove, StartMove
  <2> QED
    BY <2>1, <2>2
<1>5. ASSUME NEW m \in ModReq, NEW s, NEW x \in tx', x \notin tx,
             x.cause = "ACCEPTED" /\ x.req = m /\ x.seid = s
      PROVE  \E t \in Txn : /\ txn'[t] = Idle /\ Committed(t)
                            /\ txn[t].req = m /\ txn[t].seid = s
  BY <1>5, RequestAssumption DEF AnswersAs, Committed
<1>6. ASSUME NEW m \in ModReq, NEW s, Reported(m, s)'
      PROVE  Reported(m, s)
  <2>1. CASE \E x \in tx' : x.cause = "ACCEPTED" /\ x.req = m /\ x.seid = s
    BY <1>5, <2>1 DEF Reported
  <2>2. CASE \E u \in Txn : Committed(u)' /\ txn'[u].req = m /\ txn'[u].seid = s
    BY <1>4, <2>2 DEF Reported
  <2> QED
    BY <1>6, <2>1, <2>2 DEF Reported
<1>7. ASSUME NEW t \in Txn, NEW m \in ModReq, NEW s, ReportedBut(t, m, s)', txn'[t] # Idle
      PROVE  ReportedBut(t, m, s)
  <2>1. CASE \E x \in tx' : x.cause = "ACCEPTED" /\ x.req = m /\ x.seid = s
    BY <1>5, <1>7, <2>1 DEF ReportedBut
  <2>2. CASE \E u \in Txn : u # t /\ Committed(u)' /\ txn'[u].req = m /\ txn'[u].seid = s
    BY <1>4, <2>2 DEF ReportedBut
  <2> QED
    BY <1>7, <2>1, <2>2 DEF ReportedBut
<1> QED
  BY <1>1, <1>2, <1>3, <1>6, <1>7

(* A SEID whose establishment ended without an answer stays abandoned, and *)
(* becomes so when the flow ends before the confirmation.                  *)
LEMMA AbandonedKept ==
  ASSUME DurabilityInv, DurabilityInv', HistoryInv, FlowMoves
  PROVE  /\ \A s \in Seid : Abandoned(s) => Abandoned(s)'
         /\ \A t \in Txn, s \in Seid :
              Establishing(t, s) /\ txn'[t] = Idle /\ txn[t].cb # "confirm_cb" => Abandoned(s)'
<1>0. seidUsed \subseteq seidUsed' /\ SeidOnce
  BY DEF FlowMoves, DurabilityInv
<1>1. ASSUME NEW s \in Seid, Abandoned(s) PROVE Abandoned(s)'
  BY <1>0, <1>1, MovesFacts DEF Abandoned
<1>2. ASSUME NEW t \in Txn, NEW s \in Seid, Establishing(t, s), txn'[t] = Idle,
             txn[t].cb # "confirm_cb"
      PROVE  Abandoned(s)'
  <2>1. /\ s \in seidUsed /\ s \notin AcceptedSeids
        /\ \A u \in Txn : Establishing(u, s) => u = t
    BY <1>0, <1>2 DEF SeidOnce
  <2>2. s \notin AcceptedSeids'
    BY <1>2, <2>1, MovesFacts
  <2>3. ~Establishing(t, s)'
    BY <1>2, IdleFacts DEF Establishing, EstWait
  <2>4. \A u \in Txn : ~Establishing(u, s)'
    BY <2>1, <2>3, MovesFacts
  <2> QED
    BY <1>0, <2>1, <2>2, <2>4 DEF Abandoned
<1> QED
  BY <1>1, <1>2

-----------------------------------------------------------------------------
(* Facts about modification histories.                                     *)

(* What a history contains after one more modification.                    *)
LEMMA ContainsAppend ==
  ASSUME NEW mods \in Seq(ModReq), NEW m \in ModReq
  PROVE  /\ Append(mods, m) \in Seq(ModReq)
         /\ Contains(Append(mods, m), m)
         /\ \A x : Contains(mods, x) => Contains(Append(mods, m), x)
<1>1. /\ Append(mods, m) \in Seq(ModReq) /\ Len(Append(mods, m)) = Len(mods) + 1
      /\ Len(mods) \in Nat
  OBVIOUS
<1>2. Append(mods, m)[Len(mods) + 1] = m
  OBVIOUS
<1>3. \A i \in 1 .. Len(mods) : Append(mods, m)[i] = mods[i]
  OBVIOUS
<1>4. Contains(Append(mods, m), m)
  BY <1>1, <1>2 DEF Contains
<1>5. ASSUME NEW x, Contains(mods, x) PROVE Contains(Append(mods, m), x)
  <2>1. PICK i \in 1 .. Len(mods) : mods[i] = x
    BY <1>5 DEF Contains
  <2>2. i \in 1 .. Len(Append(mods, m)) /\ Append(mods, m)[i] = x
    BY <1>1, <1>3, <2>1
  <2> QED
    BY <2>2 DEF Contains
<1> QED
  BY <1>1, <1>4, <1>5

(* Taking back the last modification restores the history before it.       *)
LEMMA ButLast ==
  ASSUME NEW mods \in Seq(ModReq), NEW m \in ModReq, NEW all, all = Append(mods, m)
  PROVE  all # << >> /\ mods = SubSeq(all, 1, Len(all) - 1)
<1>1. /\ all \in Seq(ModReq) /\ Len(all) = Len(mods) + 1 /\ Len(mods) \in Nat
      /\ \A i \in 1 .. Len(mods) : all[i] = mods[i]
  OBVIOUS
<1>2. Len(all) - 1 = Len(mods)
  BY <1>1
<1>3. all # << >>
  BY <1>1
<1>4. SubSeq(all, 1, Len(mods)) \in Seq(ModReq) /\ Len(SubSeq(all, 1, Len(mods))) = Len(mods)
  BY <1>1
<1>5. \A i \in 1 .. Len(mods) : SubSeq(all, 1, Len(mods))[i] = mods[i]
  BY <1>1
<1>6. SubSeq(all, 1, Len(mods)) = mods
  BY <1>4, <1>5, SeqEqual
<1> QED
  BY <1>2, <1>3, <1>6

-----------------------------------------------------------------------------
(* Steps of transactions preserve the invariant.                           *)

(* The fields of the write that creates a session.                         *)
LEMMA CreationFields ==
  ASSUME NEW c, NEW s, Creation(c, s)
  PROVE  c.op = "CAS" /\ c.seid = s /\ c.ver = 0 /\ c.ctx.mods = << >> /\ c.ttl = TRUE
<1>1. PICK ctx : ctx = c.ctx
  OBVIOUS
<1>2. c = v_sess_cas_write(s, 0, ctx, TRUE) /\ c.ctx.mods = << >>
  BY <1>1 DEF Creation
<1> QED
  BY <1>2 DEF v_sess_cas_write

(* The commands of a modification that moves on.                           *)
LEMMA ModMoveFields ==
  ASSUME NEW t, NEW new, ModMove(t, new)
  PROVE  /\ new.cmd.seid = new.seid /\ new.seid = txn[t].seid
         /\ new.cb = "mod_cas_cb" =>
              new.cmd.op = "CAS" /\ new.cmd.ver = new.ver /\ new.ver # 0
         /\ new.cb = "mod_vdp_cb" => new.cmd.op = "VDP_MODIFY"
         /\ new.cb = "mod_compensate_write_cb" =>
              /\ txn[t].cb = "mod_vdp_cb"
              /\ new.cmd.op = "CAS" /\ new.cmd.ver = txn[t].ver /\ new.cmd.ctx = txn[t].impl
         /\ new.cb \in {"mod_cas_cb", "mod_vdp_cb", "mod_compensate_write_cb"}
<1>1. CASE new.cb = "mod_cas_cb"
  <2>1. PICK ctx : ctx = new.cmd.ctx
    OBVIOUS
  <2>2. new.cmd = v_sess_cas_write(new.seid, new.ver, ctx, FALSE) /\ new.ver # 0
        /\ new.seid = txn[t].seid
    BY <1>1, <2>1 DEF ModMove
  <2> QED
    BY <1>1, <2>2 DEF v_sess_cas_write
<1>2. CASE new.cb = "mod_compensate_write_cb"
  <2>1. /\ new.cmd = v_sess_cas_write(txn[t].seid, txn[t].ver, txn[t].impl, FALSE)
        /\ new.seid = txn[t].seid /\ txn[t].cb = "mod_vdp_cb"
    BY <1>2 DEF ModMove
  <2> QED
    BY <1>2, <2>1 DEF v_sess_cas_write
<1>3. CASE new.cb \notin {"mod_cas_cb", "mod_compensate_write_cb"}
  BY <1>3 DEF ModMove
<1> QED
  BY <1>1, <1>2, <1>3

(* A write under way stays in order while its session's record and what    *)
(* was reported of it stay.                                                *)
LEMMA UpdateKept ==
  ASSUME NEW c, UpdateOK(c), sess' = sess,
         \A s : s \in AcceptedSeids => s \in AcceptedSeids',
         \A m \in ModReq : \A s : Reported(m, s)' => Reported(m, s)
  PROVE  UpdateOK(c)'
BY DEF UpdateOK, Reached

(* A move leaves every transaction in order.                               *)
LEMMA MovedTxnOK ==
  ASSUME DurabilityInv, DurabilityInv', HistoryInv, FlowMoves, NEW t \in Txn
  PROVE  TxnOK(t)'
<1>0. /\ TxnOK(t) /\ AbsentIsEmpty /\ sess' = sess /\ vdp' = vdp
      /\ \A s : s \in AcceptedSeids => s \in AcceptedSeids'
  BY MovesFacts DEF HistoryInv, FlowMoves
<1>1. CASE txn'[t] = txn[t]
  BY <1>0, <1>1 DEF TxnOK, Creation
<1>2. CASE Moves(t, txn'[t])
  <2> DEFINE new == txn'[t]
  <2>0. /\ Moves(t, new) /\ Shape(txn[t])
    BY <1>2 DEF DurabilityInv, FlowShape
  <2> SUFFICES /\ new.st = "FREE" => new = Idle
               /\ new.cb = "cas_write_cb" =>
                    /\ Creation(new.cmd, new.seid)
                    /\ new.res = "none" => sess[new.seid].ver = 0
               /\ new.cmd.op = "CAS" /\ new.cmd.ver = 0 => new.cb = "cas_write_cb"
               /\ new.cmd.op = "VDP_CREATE" =>
                    new.cb = "vdp_create_cb" /\ new.cmd.seid = new.seid
               /\ new.cb \in ModCb \cup DelCb =>
                    /\ new.seid \in AcceptedSeids
                    /\ new.cmd # NoCmd => new.cmd.seid = new.seid
               /\ new.cb = "del_vdp_cb" => new.cmd.op = "VDP_DELETE"
               /\ \/ new.cb = "del_vdp_cb" /\ new.res = "ACCEPT"
                  \/ new.cb = "del_delete_cb"
                  => vdp[new.seid] = NULL
               /\ new.cb = "del_delete_cb" =>
                    new.cmd.op = "DEL" /\ (new.res = "OK" => sess[new.seid].ver = 0)
    BY <1>0 DEF TxnOK, Creation
  <2> HIDE DEF new
  <2>1. CASE new = Idle
    BY <2>1, IdleFacts DEF ModCb, DelCb
  <2>2. CASE new.st # "FREE" /\ EstMove(t, new)
    <3>1. CASE new.cb = "cas_write_cb"
      <4>1. Creation(new.cmd, new.seid) /\ sess[new.seid].ver = 0
        BY <1>0, <2>2, <3>1 DEF EstMove, AbsentIsEmpty
      <4>2. new.cmd.op = "CAS"
        BY <4>1, CreationFields
      <4> QED
        BY <2>2, <3>1, <4>1, <4>2 DEF ModCb, DelCb
    <3>2. CASE new.cb # "cas_write_cb"
      BY <2>2, <3>2 DEF EstMove, ModCb, DelCb
    <3> QED
      BY <3>1, <3>2
  <2>3. CASE new.st # "FREE" /\ ModMove(t, new)
    <3>1. /\ new.cb \in {"mod_cas_cb", "mod_vdp_cb", "mod_compensate_write_cb"}
          /\ new.seid = txn[t].seid /\ txn[t].cb \in ModCb
      BY <2>3 DEF ModMove, ModCb
    <3>2. new.seid \in AcceptedSeids
      BY <1>0, <3>1 DEF TxnOK
    <3>3. /\ new.cmd.seid = new.seid /\ new.cmd.op # "VDP_CREATE"
          /\ new.cmd.op = "CAS" => new.cmd.ver # 0
      BY <2>0, <2>3, ModMoveFields DEF Shape
    <3> QED
      BY <2>3, <3>1, <3>2, <3>3
  <2>4. CASE new.st # "FREE" /\ DelMove(t, new)
    BY <1>0, <2>0, <2>4 DEF DelMove, Moves, TxnOK, ModCb, DelCb
  <2>5. CASE new.st # "FREE" /\ (ReadMove(t, new) \/ StartMove(t, new))
    BY <1>0, <2>5, IdleFacts DEF ReadMove, StartMove, TxnOK, ModCb, DelCb
  <2> QED
    BY <2>0, <2>1, <2>2, <2>3, <2>4, <2>5 DEF Moves
<1> QED
  BY <1>1, <1>2 DEF FlowMoves

(* A move leaves every modification in order.                              *)
LEMMA MovedModOK ==
  ASSUME DurabilityInv, DurabilityInv', HistoryInv, FlowMoves, NEW t \in Txn
  PROVE  ModOK(t)'
<1>0. ModOK(t) /\ sess' = sess
  BY DEF HistoryInv, FlowMoves
<1>1. ASSUME NEW v, Wrote(t, v), txn'[t] # Idle, txn'[t].seid = txn[t].seid,
             txn'[t].impl = txn[t].impl, txn'[t].req = txn[t].req
      PROVE  Wrote(t, v)'
  <2>1. \A m \in ModReq : \A s : ReportedBut(t, m, s)' => ReportedBut(t, m, s)
    BY <1>1, MovesFacts
  <2> QED
    BY <1>0, <1>1, <2>1 DEF Wrote, Reached
<1>2. ASSUME NEW v, v = txn[t].ver + 1, Wrote(t, v), txn'[t] # Idle, txn'[t].seid = txn[t].seid,
             txn'[t].impl = txn[t].impl, txn'[t].req = txn[t].req, txn'[t].ver = v
      PROVE  Wrote(t, txn[t].ver)'
  BY <1>1, <1>2 DEF Wrote, Reached
<1>3. CASE txn'[t] = txn[t]
  <2>1. CASE txn[t].cb = "mod_cas_cb"
    <3>1. txn'[t] # Idle
      BY <1>3, <2>1, IdleFacts
    <3>2. ASSUME txn[t].res = "OK" PROVE Wrote(t, txn[t].ver + 1)'
      <4>1. Wrote(t, txn[t].ver + 1)
        BY <1>0, <2>1, <3>2 DEF ModOK
      <4>2. ASSUME NEW v, v = txn[t].ver + 1 PROVE Wrote(t, v)'
        BY <1>1, <1>3, <3>1, <4>1, <4>2
      <4> QED
        BY <1>3, <4>2 DEF Wrote, Reached
    <3> QED
      BY <1>0, <1>3, <2>1, <3>2 DEF ModOK
  <2>2. CASE txn[t].cb = "mod_vdp_cb"
    <3>1. txn'[t] # Idle
      BY <1>3, <2>2, IdleFacts
    <3>2. Wrote(t, txn[t].ver)
      BY <1>0, <2>2 DEF ModOK
    <3>3. ASSUME NEW v, v = txn[t].ver PROVE Wrote(t, v)'
      BY <1>1, <1>3, <3>1, <3>2, <3>3
    <3>4. Wrote(t, txn[t].ver)'
      BY <1>3, <3>3 DEF Wrote, Reached
    <3> QED
      BY <1>3, <2>2, <3>4 DEF ModOK
  <2> QED
    BY <1>3, <2>1, <2>2 DEF ModOK
<1>4. CASE Moves(t, txn'[t])
  <2> DEFINE new == txn'[t]
  <2>1. CASE new.cb = "mod_cas_cb"
    <3>1. new.res = "none" /\ ModMove(t, new)
      BY <1>4, <2>1, IdleFacts DEF Moves, EstMove, DelMove, ReadMove, StartMove
    <3> QED
      BY <1>0, <2>1, <3>1 DEF ModMove, ModOK
  <2>2. CASE new.cb = "mod_vdp_cb"
    <3>1. /\ txn[t].cb = "mod_cas_cb" /\ txn[t].res = "OK" /\ new # Idle
          /\ new.seid = txn[t].seid /\ new.req = txn[t].req /\ new.impl = txn[t].impl
          /\ new.ver = txn[t].ver + 1
      BY <1>4, <2>2, IdleFacts DEF Moves, EstMove, ModMove, DelMove, ReadMove, StartMove
    <3>2. Wrote(t, txn[t].ver + 1)
      BY <1>0, <3>1 DEF ModOK
    <3>3. Wrote(t, txn[t].ver)'
      BY <1>2, <3>1, <3>2
    <3> QED
      BY <2>2, <3>3 DEF ModOK
  <2> QED
    BY <2>1, <2>2 DEF ModOK
<1> QED
  BY <1>3, <1>4 DEF FlowMoves

(* A move leaves every write of an existing session in order: a            *)
(* modification appends to what it has just read, and a write-back takes   *)
(* the modification back that the same transaction applied.                *)
LEMMA MovedWriteOK ==
  ASSUME DurabilityInv, DurabilityInv', HistoryInv, FlowMoves, NEW t \in Txn
  PROVE  WriteOK(t)'
<1>0. /\ sess' = sess /\ ReportedApplied /\ TypeOK /\ RecordHasCtx
      /\ TxnOK(t) /\ ModOK(t) /\ WriteOK(t) /\ Shape(txn[t]) /\ txn[t] \in TxnRecord
      /\ txn'[t] \in TxnRecord /\ Shape(txn[t])'
  BY DEF HistoryInv, FlowMoves, DurabilityInv, TypeOK, FlowShape
<1>1. /\ \A s : s \in AcceptedSeids => s \in AcceptedSeids'
      /\ \A m \in ModReq : \A s : Reported(m, s)' => Reported(m, s)
  BY MovesFacts
<1>2. CASE txn'[t] = txn[t]
  <2>1. ASSUME NEW c, c = txn[t].cmd, UpdateOK(c) PROVE UpdateOK(c)'
    BY <1>0, <1>1, <2>1, UpdateKept
  <2> QED
    BY <1>0, <1>2, <2>1 DEF WriteOK, UpdateOK, Reached
<1>3. CASE Moves(t, txn'[t])
  <2> SUFFICES ASSUME txn'[t].cmd.op = "CAS", txn'[t].cmd.ver # 0
               PROVE  UpdateOK(txn[t].cmd)'
    BY DEF WriteOK
  <2>1. PICK new : new = txn'[t]
    OBVIOUS
  <2>2. Moves(t, new) /\ new.cmd.op = "CAS" /\ new.cmd.ver # 0
    BY <1>3, <2>1
  <2>3. ModMove(t, new)
    BY <2>2, IdleFacts, CreationFields
    DEF Moves, EstMove, DelMove, ReadMove, StartMove
  <2>4. PICK c : c = new.cmd
    OBVIOUS
  <2>5. /\ c.seid = txn[t].seid /\ new.seid = txn[t].seid /\ txn[t].cb \in ModCb
        /\ new.cb \in ModCb
    <3>1. txn[t].cb \in ModCb /\ new.cb \in ModCb
      BY <2>3 DEF ModMove, ModCb
    <3> QED
      BY <2>3, <2>4, <3>1, ModMoveFields
  <2>6. c.seid \in AcceptedSeids /\ c.seid \in Seid
    BY <1>0, <2>5 DEF TxnOK, Shape
  <2>7. new.req \in ModReq
    BY <1>0, <2>1, <2>5 DEF Shape
  <2> DEFINE mods == sess[c.seid].ctx.mods
  <2>8. CASE new.cb = "mod_cas_cb"
    <3>1. /\ c.ver = sess[c.seid].ver /\ sess[c.seid].ver # 0
          /\ c.ctx.mods = Append(mods, new.req)
      <4>1. c.ver = new.ver /\ c.seid = new.seid
        BY <2>3, <2>4, <2>5, <2>8, ModMoveFields
      <4>2. /\ new.ver = sess[new.seid].ver /\ new.ver # 0 /\ new.impl = sess[new.seid].ctx
            /\ new.cmd.ctx.mods = Append(new.impl.mods, new.req)
        BY <2>3, <2>8 DEF ModMove
      <4> QED
        BY <2>4, <4>1, <4>2
    <3>2. mods \in Seq(ModReq)
      BY <1>0, <2>6, <3>1 DEF RecordHasCtx, Ctx
    <3>3. ASSUME NEW m \in ModReq, Reported(m, c.seid)' PROVE Contains(c.ctx.mods, m)
      <4>1. Contains(mods, m)
        BY <1>0, <1>1, <2>6, <3>1, <3>3 DEF ReportedApplied
      <4> QED
        BY <2>7, <3>1, <3>2, <4>1, ContainsAppend
    <3>4. sess[c.seid].ver \in Nat
      BY <1>0, <2>6 DEF TypeOK, SessRecord
    <3>5. UpdateOK(c)'
      <4>1. c.seid \in AcceptedSeids' /\ Reached(c.seid, c.ver)'
        BY <1>0, <1>1, <2>6, <3>1, <3>4 DEF Reached
      <4>2. \E m \in ModReq : c.ctx.mods = Append(mods, m)
        BY <2>7, <3>1
      <4> QED
        BY <1>0, <3>3, <4>1, <4>2 DEF UpdateOK
    <3> QED
      BY <2>1, <2>4, <3>5 DEF UpdateOK, Reached
  <2>9. CASE new.cb = "mod_compensate_write_cb"
    <3>1. txn[t].cb = "mod_vdp_cb" /\ c.ver = txn[t].ver /\ c.ctx = txn[t].impl
      BY <2>3, <2>4, <2>9, ModMoveFields
    <3>2. Wrote(t, txn[t].ver)
      BY <1>0, <3>1 DEF ModOK
    <3>3. txn[t].impl.mods \in Seq(ModReq) /\ txn[t].req \in ModReq
      BY <1>0, <3>1 DEF Shape, Ctx, ModCb
    <3>4. Reached(c.seid, c.ver)
      BY <2>5, <3>1, <3>2 DEF Wrote
    <3>5. ASSUME sess[c.seid].ver = c.ver
          PROVE  /\ mods # << >> /\ c.ctx.mods = SubSeq(mods, 1, Len(mods) - 1)
                 /\ \A m \in ModReq : Reported(m, c.seid)' => Contains(c.ctx.mods, m)
      <4>1. /\ mods = Append(txn[t].impl.mods, txn[t].req)
            /\ \A m \in ModReq : ReportedBut(t, m, c.seid) => Contains(txn[t].impl.mods, m)
        BY <2>5, <3>1, <3>2, <3>5 DEF Wrote
      <4>2. mods # << >> /\ c.ctx.mods = SubSeq(mods, 1, Len(mods) - 1)
        BY <3>1, <3>3, <4>1, ButLast
      <4>3. ASSUME NEW m \in ModReq, Reported(m, c.seid)' PROVE Contains(c.ctx.mods, m)
        <5>1. ~Committed(t)' /\ txn'[t] # Idle
          BY <2>1, <2>9, IdleFacts DEF Committed
        <5>2. ReportedBut(t, m, c.seid)'
          BY <4>3, <5>1 DEF Reported, ReportedBut
        <5>3. ReportedBut(t, m, c.seid)
          BY <5>1, <5>2, MovesFacts
        <5> QED
          BY <3>1, <4>1, <5>3
      <4> QED
        BY <4>2, <4>3
    <3>6. UpdateOK(c)'
      BY <1>0, <1>1, <2>6, <3>4, <3>5 DEF UpdateOK, Reached
    <3> QED
      BY <2>1, <2>4, <3>6 DEF UpdateOK, Reached
  <2>10. new.cb \in {"mod_cas_cb", "mod_compensate_write_cb"}
    BY <2>2, <2>3, ModMoveFields
  <2> QED
    BY <2>8, <2>9, <2>10
<1> QED
  BY <1>2, <1>3 DEF FlowMoves

(* A move leaves every command that nobody waits for in order.             *)
LEMMA MovedLeftOK ==
  ASSUME DurabilityInv, DurabilityInv', HistoryInv, FlowMoves, NEW c \in bg'
  PROVE  LeftOK(c)'
<1>0. /\ sess' = sess /\ TypeOK /\ SeidOnce /\ FlowShape /\ CommandsOK
      /\ \A d \in bg : LeftOK(d)
      /\ \A t \in Txn : TxnOK(t) /\ WriteOK(t)
  BY DEF HistoryInv, FlowMoves, DurabilityInv
<1>1. ASSUME NEW d, UpdateOK(d) PROVE UpdateOK(d)'
  BY <1>0, <1>1, MovesFacts, UpdateKept
<1>2. ASSUME NEW d \in bg', d.op = "CAS" /\ d.ver = 0, d \notin bg
      PROVE  \E t \in Txn : /\ LeftBehind(t, d) /\ Establishing(t, d.seid)
                            /\ txn[t].cb = "cas_write_cb" /\ txn[t].cmd = d
                            /\ txn[t].res = "none" /\ txn'[t] = Idle
                            /\ Creation(d, d.seid) /\ sess[d.seid].ver = 0 /\ d.seid \in Seid
  <2>1. PICK t \in Txn : LeftBehind(t, d)
    BY <1>2 DEF FlowMoves
  <2>2. txn[t].cmd = d /\ txn[t].res = "none"
    BY <2>1 DEF LeftBehind, Late
  <2>3. txn[t].cb = "cas_write_cb"
    BY <1>0, <1>2, <2>2 DEF TxnOK
  <2>4. Creation(d, txn[t].seid) /\ sess[txn[t].seid].ver = 0 /\ txn[t].seid \in Seid
    BY <1>0, <2>2, <2>3 DEF TxnOK, FlowShape, Shape, EstWait
  <2>5. d.seid = txn[t].seid
    BY <2>4, CreationFields
  <2> QED
    BY <2>1, <2>2, <2>3, <2>4, <2>5 DEF LeftBehind, Establishing, EstWait
<1>3. ASSUME NEW d \in bg, d.op = "CAS" /\ d.ver = 0
      PROVE  d.seid \in Seid /\ Abandoned(d.seid)
  BY <1>0, <1>3 DEF LeftOK, Abandoned, TypeOK
<1>4. ASSUME c.op = "CAS" /\ c.ver = 0
      PROVE  /\ Abandoned(c.seid)' /\ Creation(c, c.seid) /\ sess[c.seid].ver = 0
             /\ \A d \in bg' : d.op = "CAS" /\ d.ver = 0 /\ d.seid = c.seid => d = c
  <2>1. CASE c \in bg
    <3>1. Abandoned(c.seid) /\ Creation(c, c.seid) /\ sess[c.seid].ver = 0 /\ c.seid \in Seid
      BY <1>0, <1>3, <1>4, <2>1 DEF LeftOK
    <3>2. ASSUME NEW d \in bg', d.op = "CAS" /\ d.ver = 0 /\ d.seid = c.seid PROVE d = c
      <4>1. d \in bg
        BY <1>2, <3>1, <3>2 DEF Abandoned
      <4> QED
        BY <1>0, <1>4, <2>1, <3>2, <4>1 DEF LeftOK
    <3>3. Abandoned(c.seid)'
      BY <3>1, AbandonedKept
    <3> QED
      BY <3>1, <3>2, <3>3
  <2>2. CASE c \notin bg
    <3>1. PICK t \in Txn : /\ Establishing(t, c.seid)
                           /\ txn[t].cb = "cas_write_cb" /\ txn[t].cmd = c
                           /\ txn'[t] = Idle
                           /\ Creation(c, c.seid) /\ sess[c.seid].ver = 0 /\ c.seid \in Seid
      BY <1>2, <1>4, <2>2
    <3>2. Abandoned(c.seid)'
      BY <3>1, AbandonedKept
    <3>3. ASSUME NEW d \in bg', d.op = "CAS" /\ d.ver = 0 /\ d.seid = c.seid PROVE d = c
      <4>1. d \notin bg
        BY <1>3, <3>1, <3>3 DEF Abandoned
      <4>2. PICK u \in Txn : Establishing(u, d.seid) /\ txn[u].cmd = d
        BY <1>2, <3>3, <4>1
      <4> QED
        BY <1>0, <3>1, <3>3, <4>2 DEF SeidOnce
    <3> QED
      BY <3>1, <3>2, <3>3
  <2> QED
    BY <2>1, <2>2
<1>5. ASSUME c.op = "VDP_CREATE" PROVE Abandoned(c.seid)'
  <2>1. CASE c \in bg
    <3>1. Abandoned(c.seid) /\ c.seid \in Seid
      BY <1>0, <1>5, <2>1 DEF LeftOK, Abandoned, TypeOK
    <3> QED
      BY <3>1, AbandonedKept
  <2>2. CASE c \notin bg
    <3>1. PICK t \in Txn : LeftBehind(t, c)
      BY <1>5, <2>2 DEF FlowMoves
    <3>2. txn[t].cmd = c
      BY <3>1 DEF LeftBehind, Late
    <3>3. txn[t].cb = "vdp_create_cb" /\ txn[t].seid = c.seid /\ txn[t].seid \in Seid
      BY <1>0, <1>5, <3>2 DEF TxnOK, FlowShape, Shape, EstWait
    <3>4. txn'[t] = Idle /\ Establishing(t, c.seid)
      BY <3>1, <3>3 DEF LeftBehind, Establishing, EstWait
    <3> QED
      BY <3>3, <3>4, AbandonedKept
  <2> QED
    BY <2>1, <2>2
<1>6. ASSUME c.op = "CAS" /\ c.ver # 0 PROVE UpdateOK(c)'
  <2>1. CASE c \in bg
    BY <1>0, <1>1, <1>6, <2>1 DEF LeftOK
  <2>2. CASE c \notin bg
    <3>1. PICK t \in Txn : LeftBehind(t, c)
      BY <1>6, <2>2 DEF FlowMoves
    <3>2. txn[t].cmd = c /\ txn[t].res = "none"
      BY <3>1 DEF LeftBehind, Late
    <3>3. UpdateOK(c)
      BY <1>0, <1>6, <3>2 DEF WriteOK
    <3> QED
      BY <1>1, <3>3
  <2> QED
    BY <2>1, <2>2
<1> QED
  BY <1>0, <1>4, <1>5, <1>6 DEF LeftOK, Creation

(* Steps of transactions preserve the invariant.                           *)
LEMMA MovesKeepHistory ==
  ASSUME DurabilityInv, DurabilityInv', HistoryInv, FlowMoves
  PROVE  HistoryInv'
<1>0. /\ sess' = sess /\ vdp' = vdp /\ seidUsed \subseteq seidUsed'
      /\ AbsentIsEmpty /\ ReportedApplied /\ AnswersKnown /\ DeletedIsGone
      /\ \A t \in Txn : TxnOK(t)
  BY DEF HistoryInv, FlowMoves
<1>1. AbsentIsEmpty' /\ ReportedApplied'
  BY <1>0, MovesFacts DEF AbsentIsEmpty, ReportedApplied
<1>2. ASSUME NEW x \in tx', x.cause = "ACCEPTED", x.req \in ModReq \cup DelReq
      PROVE  x.seid \in AcceptedSeids
  <2>1. CASE x \in tx
    BY <1>0, <1>2, <2>1 DEF AnswersKnown
  <2>2. CASE x \notin tx
    <3>1. PICK t \in Txn : AnswersAs(t, x)
      BY <1>2, <2>2 DEF FlowMoves
    <3> QED
      BY <1>0, <1>2, <3>1, RequestAssumption DEF AnswersAs, TxnOK, ModCb, DelCb
  <2> QED
    BY <2>1, <2>2
<1>3. AnswersKnown'
  BY <1>2, MovesFacts DEF AnswersKnown
<1>4. ASSUME NEW x \in tx', x.cause = "ACCEPTED", x.req \in DelReq
      PROVE  sess[x.seid].ver = 0 /\ vdp[x.seid] = NULL
  <2>1. CASE x \in tx
    BY <1>0, <1>4, <2>1 DEF DeletedIsGone
  <2>2. CASE x \notin tx
    <3>1. PICK t \in Txn : AnswersAs(t, x)
      BY <1>4, <2>2 DEF FlowMoves
    <3> QED
      BY <1>0, <1>4, <3>1, RequestAssumption DEF AnswersAs, TxnOK
  <2> QED
    BY <2>1, <2>2
<1>5. DeletedIsGone'
  BY <1>0, <1>4 DEF DeletedIsGone
<1> QED
  BY <1>1, <1>3, <1>5, MovedTxnOK, MovedModOK, MovedWriteOK, MovedLeftOK DEF HistoryInv

-----------------------------------------------------------------------------
(* Steps of transactions in the registry: one that ends without writing    *)
(* the record of the SEID it was just given burns it; the others leave the *)
(* registry as it is.                                                      *)

(* What the registry shows of session s while it has no record.            *)
Fresh(s) == s \notin seidUsed \/ BeingCreated(s)

(* The registry, entry by entry.                                           *)
LEMMA RegistryOf ==
  ASSUME NEW s \in Seid
  PROVE  /\ sess[s].ver # 0 =>
              regOf[s] = [phase |-> IF sess[s].ttl THEN "pending" ELSE "confirmed",
                          mods |-> sess[s].ctx.mods]
         /\ sess[s].ver = 0 /\ Fresh(s) => regOf[s] = [phase |-> "fresh", mods |-> << >>]
         /\ sess[s].ver = 0 /\ ~Fresh(s) => regOf[s] = [phase |-> "gone", mods |-> << >>]
BY DEF regOf, Fresh

(* The same in the next state.                                             *)
LEMMA RegistryOfNext ==
  ASSUME NEW s \in Seid
  PROVE  /\ sess'[s].ver # 0 =>
              regOf'[s] = [phase |-> IF sess'[s].ttl THEN "pending" ELSE "confirmed",
                          mods |-> sess'[s].ctx.mods]
         /\ sess'[s].ver = 0 /\ Fresh(s)' => regOf'[s] = [phase |-> "fresh", mods |-> << >>]
         /\ sess'[s].ver = 0 /\ ~Fresh(s)' => regOf'[s] = [phase |-> "gone", mods |-> << >>]
BY DEF regOf, Fresh

(* The registry is a function on the SEIDs, before and after: it changes   *)
(* where an entry changes.                                                 *)
LEMMA RegistryUpdate ==
  /\ (\A q \in Seid : regOf'[q] = regOf[q]) => regOf' = regOf
  /\ \A s \in Seid : \A e :
       regOf'[s] = e /\ (\A q \in Seid : q # s => regOf'[q] = regOf[q])
         => regOf' = [regOf EXCEPT ![s] = e]
<1>1. regOf = [q \in Seid |-> regOf[q]] /\ regOf' = [q \in Seid |-> regOf'[q]]
  BY DEF regOf
<1> QED
  BY <1>1

(* No record is created by two flows, and none that is under way is lost   *)
(* with the flow.                                                          *)
LEMMA FreshMoves ==
  ASSUME DurabilityInv, DurabilityInv', HistoryInv, FlowMoves, NEW q \in Seid
  PROVE  /\ q \in seidUsed => (Fresh(q)' <=> Fresh(q))
         /\ q \notin seidUsed' => Fresh(q)'
<1>0. \A t \in Txn : TxnOK(t)
  BY DEF HistoryInv
<1>1. ASSUME BeingCreated(q) PROVE BeingCreated(q)'
  <2>1. CASE \E c \in bg : Creates(c, q)
    BY <2>1 DEF BeingCreated, FlowMoves, Creates
  <2>2. ASSUME NEW t \in Txn, txn[t].res = "none", Creates(txn[t].cmd, q)
        PROVE  BeingCreated(q)'
    <3>1. txn[t].cb = "cas_write_cb" /\ txn[t].cmd # NoCmd
      BY <1>0, <2>2, IdleFacts DEF TxnOK, Creates
    <3>2. CASE txn'[t] = txn[t]
      BY <2>2, <3>2 DEF BeingCreated, Creates
    <3>3. CASE txn'[t] # txn[t]
      <4>1. txn[t].cmd \in bg'
        BY <2>2, <3>1, <3>3 DEF FlowMoves, Late
      <4> QED
        BY <2>2, <4>1 DEF BeingCreated, Creates
    <3> QED
      BY <3>2, <3>3
  <2> QED
    BY <1>1, <2>1, <2>2 DEF BeingCreated
<1>2. ASSUME BeingCreated(q)', q \in seidUsed PROVE BeingCreated(q)
  <2>1. ASSUME NEW c \in bg', Creates(c, q) PROVE BeingCreated(q)
    <3>1. CASE c \in bg
      BY <2>1, <3>1 DEF BeingCreated
    <3>2. CASE c \notin bg
      <4>1. PICK t \in Txn : LeftBehind(t, c)
        BY <2>1, <3>2 DEF FlowMoves, Creates
      <4>2. txn[t].cmd = c /\ txn[t].res = "none"
        BY <4>1 DEF LeftBehind, Late
      <4> QED
        BY <2>1, <4>2 DEF BeingCreated
    <3> QED
      BY <3>1, <3>2
  <2>2. ASSUME NEW t \in Txn, txn'[t].res = "none", Creates(txn'[t].cmd, q)
        PROVE  BeingCreated(q)
    <3>1. CASE txn'[t] = txn[t]
      BY <2>2, <3>1 DEF BeingCreated, Creates
    <3>2. CASE Moves(t, txn'[t])
      <4>1. PICK new : new = txn'[t]
        OBVIOUS
      <4>2. Moves(t, new) /\ new.cmd.op = "CAS" /\ new.cmd.ver = 0 /\ new.cmd.seid = q
        BY <2>2, <3>2, <4>1 DEF Creates
      <4>3. ~ModMove(t, new)
        <5> SUFFICES ASSUME ModMove(t, new) PROVE FALSE
          OBVIOUS
        <5>1. new.cb = "mod_compensate_write_cb" /\ txn[t].cb = "mod_vdp_cb" /\ txn[t].ver = 0
          BY <4>2, ModMoveFields
        <5> QED
          BY <5>1, OwnFacts DEF Shape
      <4>4. new.seid \in Seid \ seidUsed /\ Creation(new.cmd, new.seid)
        BY <4>2, <4>3, IdleFacts DEF Moves, EstMove, DelMove, ReadMove, StartMove
      <4>5. new.cmd.seid = new.seid
        BY <4>4, CreationFields
      <4> QED
        BY <1>2, <4>2, <4>4, <4>5
    <3> QED
      BY <3>1, <3>2 DEF FlowMoves
  <2> QED
    BY <1>2, <2>1, <2>2 DEF BeingCreated, Creates
<1>3. seidUsed \subseteq seidUsed'
  BY DEF FlowMoves
<1> QED
  BY <1>1, <1>2, <1>3 DEF Fresh

(* Steps of transactions are steps of the registry.                        *)
LEMMA MovesImplement ==
  ASSUME DurabilityInv, DurabilityInv', HistoryInv, FlowMoves
  PROVE  Registry!RegNext \/ regOf' = regOf
<1>0. sess' = sess /\ AbsentIsEmpty
  BY DEF HistoryInv, FlowMoves
<1>1. ASSUME NEW q \in Seid, Fresh(q)' <=> Fresh(q) PROVE regOf'[q] = regOf[q]
  BY <1>0, <1>1, RegistryOf, RegistryOfNext
<1>2. CASE seidUsed' = seidUsed
  <2>1. \A q \in Seid : Fresh(q)' <=> Fresh(q)
    BY <1>2, FreshMoves DEF Fresh
  <2> QED
    BY <1>1, <2>1, RegistryUpdate
<1>3. ASSUME NEW s \in Seid \ seidUsed, seidUsed' = seidUsed \cup {s}
      PROVE  Registry!RegNext \/ regOf' = regOf
  <2>1. \A q \in Seid : q # s => (Fresh(q)' <=> Fresh(q))
    BY <1>3, FreshMoves DEF Fresh
  <2>2. Fresh(s) /\ sess[s].ver = 0 /\ sess'[s].ver = 0
    BY <1>0, <1>3 DEF Fresh, AbsentIsEmpty
  <2>3. CASE Fresh(s)'
    BY <1>1, <2>1, <2>2, <2>3, RegistryUpdate
  <2>4. CASE ~Fresh(s)'
    <3>1. regOf[s] = [phase |-> "fresh", mods |-> << >>]
      BY <2>2, RegistryOf
    <3>2. regOf'[s] = [phase |-> "gone", mods |-> << >>]
      BY <2>2, <2>4, RegistryOfNext
    <3>3. regOf' = [regOf EXCEPT ![s] = [phase |-> "gone", mods |-> << >>]]
      BY <1>1, <2>1, <3>2, RegistryUpdate
    <3>4. Registry!Burn(s)
      BY <3>1, <3>3 DEF Registry!Burn, Registry!Become, Registry!Session
    <3> QED
      BY <3>4 DEF Registry!RegNext
  <2> QED
    BY <2>3, <2>4
<1> QED
  BY <1>2, <1>3 DEF FlowMoves

-----------------------------------------------------------------------------
(* The callbacks, the timeout handler, a crash and the arrival of a        *)
(* request are steps of transactions.                                      *)

(* A step hands out no SEID or one.                                        *)
SeidStep ==
  \/ seidUsed' = seidUsed
  \/ \E s \in Seid \ seidUsed : seidUsed' = seidUsed \cup {s}

(* The step of a single transaction.                                       *)
LEMMA OneMove ==
  ASSUME DurabilityInv, NEW t \in Txn, NEW new,
         txn' = [txn EXCEPT ![t] = new], Moves(t, new), bg \subseteq bg',
         \A c \in bg' : \/ c \in bg \/ c.op \in {"DEL", "PERSIST"}
                        \/ c \in Late(t) /\ (new = Idle \/ txn[t].cb = "mod_vdp_cb"),
         txn[t].cb = "cas_write_cb" => Late(t) \subseteq bg',
         tx \subseteq tx',
         \A x \in tx' : \/ x \in tx \/ x.cause # "ACCEPTED"
                        \/ new = Idle /\ AnswersAs(t, x),
         SeidStep, UNCHANGED <<redisVars, vdp>>
  PROVE  FlowMoves
<1>1. txn'[t] = new /\ \A u \in Txn : u # t => txn'[u] = txn[u]
  BY TxnAfter DEF DurabilityInv, Moves
<1>2. \A u \in Txn : txn'[u] = txn[u] \/ Moves(u, txn'[u])
  BY <1>1
<1>3. ASSUME NEW c \in bg', c \notin bg, c.op \notin {"DEL", "PERSIST"}
      PROVE  \E u \in Txn : LeftBehind(u, c)
  BY <1>1, <1>3 DEF LeftBehind
<1>4. \A u \in Txn : txn[u].cb = "cas_write_cb" /\ txn'[u] # txn[u] => Late(u) \subseteq bg'
  BY <1>1
<1>5. \A x \in tx' : \/ x \in tx \/ x.cause # "ACCEPTED"
                     \/ \E u \in Txn : txn'[u] = Idle /\ AnswersAs(u, x)
  BY <1>1
<1> QED
  BY <1>2, <1>3, <1>4, <1>5 DEF FlowMoves, SeidStep, redisVars

(* A transaction may always end.                                           *)
LEMMA IdleMoves == \A t : Moves(t, Idle)
BY IdleFacts DEF Moves

(* finish() is such a step; a positive answer needs a reason.              *)
LEMMA FinishMoves ==
  ASSUME DurabilityInv, NEW t \in Txn, NEW cause, NEW freed, NEW issued,
         finish(t, cause, freed, issued),
         \A c \in issued : c.op \in {"DEL", "PERSIST"},
         cause = "ACCEPTED" => AnswersAs(t, ReplyOf(t, "ACCEPTED")),
         SeidStep, UNCHANGED <<redisVars, vdp>>
  PROVE  FlowMoves
<1>1. /\ txn' = [txn EXCEPT ![t] = Idle] /\ bg' = bg \cup issued \cup Late(t)
      /\ tx' = tx \/ tx' = tx \cup {ReplyOf(t, cause)}
  BY DEF finish
<1>2. ReplyOf(t, cause).cause = cause
  BY DEF ReplyOf
<1>3. \A x \in tx' : x \in tx \/ x.cause # "ACCEPTED" \/ AnswersAs(t, x)
  BY <1>1, <1>2
<1> QED
  BY <1>1, <1>3, IdleMoves, OneMove

(* The failure answers, which leave no command but the one under way.      *)
LEMMA FailMoves ==
  ASSUME DurabilityInv, NEW t \in Txn, NEW cause, cause # "ACCEPTED", NEW freed,
         finish(t, cause, freed, {}), SeidStep, UNCHANGED <<redisVars, vdp>>
  PROVE  FlowMoves
<1>1. \A c \in {} : c.op \in {"DEL", "PERSIST"}
  OBVIOUS
<1> QED
  BY <1>1, FinishMoves

(* A retransmit-cache hit repeats what was answered before.                *)
LEMMA CacheHitMoves ==
  ASSUME DurabilityInv, NEW t \in Txn, txn[t].req \in Req, txn[t].cb # "cas_write_cb",
         ReplyFromCache(t), UNCHANGED <<redisVars, vdp>>
  PROVE  FlowMoves
<1>1. tx' = tx /\ txn' = [txn EXCEPT ![t] = Idle] /\ bg' = bg /\ SeidStep
  BY DEF ReplyFromCache, DurabilityInv, CacheRepeats, SeidStep, idVars
<1> QED
  BY <1>1, IdleMoves, OneMove

(* A transaction goes on to its next call.                                 *)
LEMMA AwaitMoves ==
  ASSUME DurabilityInv, NEW t \in Txn, NEW rec, NEW st, NEW cb, NEW cmd, NEW new,
         Await(t, rec, st, cb, cmd),
         new = [rec EXCEPT !.st = st, !.cb = cb, !.cmd = cmd, !.res = "none"],
         Moves(t, new), bg' = bg, tx' = tx,
         txn[t].cb = "cas_write_cb" => txn[t].res = "OK",
         SeidStep, UNCHANGED <<redisVars, vdp>>
  PROVE  FlowMoves
<1>1. txn' = [txn EXCEPT ![t] = new]
  BY DEF Await
<1>2. txn[t].cb = "cas_write_cb" => Late(t) \subseteq bg'
  BY DEF Late
<1> QED
  BY <1>1, <1>2, OneMove

(* retrans_lookup_cb(): the record it is about to write is the first one   *)
(* of a SEID nobody had before.                                            *)
LEMMA RetransLookupMoves ==
  ASSUME DurabilityInv, NEW t \in Txn, retrans_lookup_cb(t)
  PROVE  FlowMoves
<1>0. UNCHANGED <<redisVars, vdp>> /\ txn[t].cb = "retrans_lookup_cb"
  BY DEF retrans_lookup_cb
<1>1. txn[t] \in TxnRecord /\ txn[t].req \in Req
  BY <1>0, EstFacts DEF EstCb
<1>2. CASE ReplyFromCache(t)
  BY <1>0, <1>1, <1>2, CacheHitMoves
<1>3. CASE ~ReplyFromCache(t)
  <2>1. PICK s \in v_seid_alloc, d \in v_teid_alloc :
          /\ seidUsed' = seidUsed \cup ({s} \ {NULL})
          /\ EstNoResources(t, s, d) \/ EstAbort(t, s, d) \/ EstWrite(t, s, d)
    BY <1>3 DEF retrans_lookup_cb
  <2>2. s = NULL \/ (s \in Seid \ seidUsed /\ s # NULL)
    BY <2>1, NullAssumption DEF v_seid_alloc
  <2>3. SeidStep
    <3>1. CASE s = NULL
      BY <2>1, <3>1 DEF SeidStep
    <3>2. CASE s \in Seid \ seidUsed /\ s # NULL
      <4>1. seidUsed' = seidUsed \cup {s}
        BY <2>1, <3>2
      <4> QED
        BY <3>2, <4>1 DEF SeidStep
    <3> QED
      BY <2>2, <3>1, <3>2
  <2>4. CASE EstNoResources(t, s, d) \/ EstAbort(t, s, d)
    <3>1. finish(t, "NO_RESOURCES", 0, {}) \/ finish(t, "SYSTEM_FAILURE", 0, {})
      BY <2>4 DEF EstNoResources, EstAbort
    <3> QED
      BY <1>0, <2>3, <3>1, FailMoves
  <2>5. CASE EstWrite(t, s, d)
    <3> DEFINE ctx == [teid |-> d, mods |-> << >>]
               rec == [txn[t] EXCEPT !.seid = s, !.teid = d, !.ctx = ctx]
               cmd == v_sess_cas_write(s, 0, ctx, TRUE)
               new == [rec EXCEPT !.st = "DB_WRITE_WAIT", !.cb = "cas_write_cb",
                                  !.cmd = cmd, !.res = "none"]
    <3>1. s \in Seid \ seidUsed /\ d \in Teid
      BY <2>1, <2>2, <2>5 DEF EstWrite, v_teid_alloc
    <3>2. ctx \in Ctx /\ ctx.mods = << >>
      BY <3>1 DEF Ctx
    <3>3. Await(t, rec, "DB_WRITE_WAIT", "cas_write_cb", cmd) /\ bg' = bg /\ tx' = tx
      BY <2>5 DEF EstWrite
    <3>4. rec \in TxnRecord /\ rec.seid = s
      <4> HIDE DEF ctx
      <4> QED
        BY <1>1, <3>1, <3>2 DEF TxnRecord
    <3>5. cmd \in Command /\ cmd = v_sess_cas_write(s, 0, cmd.ctx, TRUE) /\ cmd.ctx = ctx
      <4> HIDE DEF ctx
      <4> QED
        BY <3>1, <3>2 DEF v_sess_cas_write, Command, SessOp
    <3> HIDE DEF ctx, rec, cmd
    <3>6. "DB_WRITE_WAIT" \in State /\ "cas_write_cb" \in Callback
      BY DEF State, Callback
    <3>7. /\ new \in TxnRecord /\ new.st = "DB_WRITE_WAIT" /\ new.cb = "cas_write_cb"
          /\ new.cmd = cmd /\ new.res = "none" /\ new.seid = s
      BY <3>4, <3>5, <3>6 DEF TxnRecord, Result
    <3>8. Moves(t, new)
      <4> HIDE DEF new
      <4>1. Creation(new.cmd, new.seid)
        BY <3>2, <3>5, <3>7 DEF Creation
      <4>2. EstMove(t, new)
        BY <1>0, <3>1, <3>7, <4>1 DEF EstMove
      <4> QED
        BY <3>7, <4>2 DEF Moves
    <3> QED
      BY <1>0, <2>3, <3>3, <3>8, AwaitMoves
  <2> QED
    BY <2>1, <2>4, <2>5
<1> QED
  BY <1>2, <1>3

(* cas_write_cb(): goes on to the VDP only when its write was acknowledged.*)
LEMMA CasWriteMoves ==
  ASSUME DurabilityInv, NEW t \in Txn, cas_write_cb(t)
  PROVE  FlowMoves
<1>0. /\ UNCHANGED <<redisVars, vdp>> /\ txn[t].cb = "cas_write_cb" /\ SeidStep
      /\ txn[t] \in TxnRecord /\ txn[t].seid \in Seid
  BY EstFacts DEF cas_write_cb, SeidStep, EstCb, EstWait
<1>1. CASE finish(t, "SYSTEM_FAILURE", 0, {})
  BY <1>0, <1>1, FailMoves
<1>2. CASE finish(t, "SYSTEM_FAILURE", 0, {v_sess_delete(txn[t].seid, 1)})
  <2>1. \A c \in {v_sess_delete(txn[t].seid, 1)} : c.op \in {"DEL", "PERSIST"}
    BY <1>0, CommandTypes
  <2> QED
    BY <1>0, <1>2, <2>1, FinishMoves
<1>3. CASE /\ Seen(t, "OK", "cas_err")
           /\ Await(t, [txn[t] EXCEPT !.ver = 1], "VDP_WAIT", "vdp_create_cb",
                    VdpCmd("VDP_CREATE", txn[t].seid, txn[t].ctx))
           /\ UNCHANGED <<bg, stores, tx, ctxUse, teidAvail>>
  <2> DEFINE rec == [txn[t] EXCEPT !.ver = 1]
             cmd == VdpCmd("VDP_CREATE", txn[t].seid, txn[t].ctx)
             new == [rec EXCEPT !.st = "VDP_WAIT", !.cb = "vdp_create_cb",
                                !.cmd = cmd, !.res = "none"]
  <2>1. rec \in TxnRecord /\ rec.seid = txn[t].seid
    BY <1>0 DEF TxnRecord
  <2>2. cmd \in Command /\ cmd.op = "VDP_CREATE" /\ cmd.seid = txn[t].seid
    BY <1>0, CommandTypes DEF VdpOp, TxnRecord, VdpCmd, NoCmd
  <2>3. txn[t].res = "OK"
    BY <1>3 DEF Seen
  <2>4. Await(t, rec, "VDP_WAIT", "vdp_create_cb", cmd) /\ bg' = bg /\ tx' = tx
    BY <1>3
  <2> HIDE DEF rec, cmd
  <2>5. "VDP_WAIT" \in State /\ "vdp_create_cb" \in Callback
    BY DEF State, Callback
  <2>6. /\ new \in TxnRecord /\ new.st = "VDP_WAIT" /\ new.cb = "vdp_create_cb"
        /\ new.cmd = cmd /\ new.res = "none" /\ new.seid = rec.seid
    BY <2>1, <2>2, <2>5 DEF TxnRecord, Result
  <2>7. Moves(t, new)
    <3> HIDE DEF new
    <3> QED
      BY <1>0, <2>1, <2>2, <2>3, <2>6 DEF Moves, EstMove
  <2> QED
    BY <1>0, <2>3, <2>4, <2>7, AwaitMoves
<1> QED
  BY <1>1, <1>2, <1>3 DEF cas_write_cb

(* vdp_create_cb(): goes on to the confirmation only when the VDP agreed.  *)
LEMMA VdpCreateMoves ==
  ASSUME DurabilityInv, NEW t \in Txn, vdp_create_cb(t)
  PROVE  FlowMoves
<1>0. /\ UNCHANGED <<redisVars, vdp>> /\ txn[t].cb = "vdp_create_cb" /\ SeidStep
      /\ txn[t] \in TxnRecord /\ txn[t].seid \in Seid /\ txn[t].ver \in Nat
  BY EstFacts DEF vdp_create_cb, SeidStep, EstCb, EstWait, TxnRecord
<1>1. CASE finish(t, "SYSTEM_FAILURE", 0, {})
  BY <1>0, <1>1, FailMoves
<1>2. CASE finish(t, "REJECTED", 0, {v_sess_delete(txn[t].seid, txn[t].ver)})
  <2>1. \A c \in {v_sess_delete(txn[t].seid, txn[t].ver)} : c.op \in {"DEL", "PERSIST"}
    BY <1>0, CommandTypes
  <2> QED
    BY <1>0, <1>2, <2>1, FinishMoves
<1>3. CASE /\ Seen(t, "ACCEPT", "vdp_timeout")
           /\ Await(t, txn[t], "DB_CONFIRM_WAIT", "confirm_cb", v_sess_confirm(txn[t].seid))
           /\ UNCHANGED <<bg, stores, tx, ctxUse, teidAvail>>
  <2> DEFINE cmd == v_sess_confirm(txn[t].seid)
             new == [txn[t] EXCEPT !.st = "DB_CONFIRM_WAIT", !.cb = "confirm_cb",
                                   !.cmd = cmd, !.res = "none"]
  <2>1. cmd \in Command /\ cmd.op = "PERSIST"
    BY <1>0, CommandTypes
  <2>2. txn[t].res = "ACCEPT"
    BY <1>3 DEF Seen
  <2>3. Await(t, txn[t], "DB_CONFIRM_WAIT", "confirm_cb", cmd) /\ bg' = bg /\ tx' = tx
    BY <1>3
  <2> HIDE DEF cmd
  <2>4. "DB_CONFIRM_WAIT" \in State /\ "confirm_cb" \in Callback
    BY DEF State, Callback
  <2>5. /\ new \in TxnRecord /\ new.st = "DB_CONFIRM_WAIT" /\ new.cb = "confirm_cb"
        /\ new.cmd = cmd /\ new.res = "none" /\ new.seid = txn[t].seid
    BY <1>0, <2>1, <2>4 DEF TxnRecord, Result
  <2>6. Moves(t, new)
    <3> HIDE DEF new
    <3> QED
      BY <1>0, <2>1, <2>2, <2>5 DEF Moves, EstMove
  <2> QED
    BY <1>0, <2>3, <2>6, AwaitMoves
<1> QED
  BY <1>1, <1>2, <1>3 DEF vdp_create_cb

(* confirm_cb(): tells the SMF of the session it established.              *)
LEMMA ConfirmMoves ==
  ASSUME DurabilityInv, NEW t \in Txn, confirm_cb(t)
  PROVE  FlowMoves
<1>0. /\ UNCHANGED <<redisVars, vdp>> /\ txn[t].cb = "confirm_cb" /\ SeidStep
      /\ txn[t].req \in EstReq
  BY EstFacts DEF confirm_cb, SeidStep, EstCb, EstWait, idVars
<1>1. CASE finish(t, "SYSTEM_FAILURE", 0, {})
  BY <1>0, <1>1, FailMoves
<1>2. CASE finish(t, "ACCEPTED", 0, {})
  <2>1. AnswersAs(t, ReplyOf(t, "ACCEPTED"))
    BY <1>0 DEF AnswersAs, ReplyOf
  <2>2. \A c \in {} : c.op \in {"DEL", "PERSIST"}
    OBVIOUS
  <2> QED
    BY <1>0, <1>2, <2>1, <2>2, FinishMoves
<1> QED
  BY <1>1, <1>2 DEF confirm_cb

(* mod_start_read() and del_start_read(): the session stays the same.      *)
LEMMA StartReadMoves ==
  ASSUME DurabilityInv, NEW t \in Txn, NEW rec \in TxnRecord, NEW cb, NEW freed,
         cb \in {"mod_read_cb", "del_read_cb"}, txn[t].cb \in ModCb \cup DelCb,
         rec.seid = txn[t].seid, StartRead(t, rec, cb, freed),
         SeidStep, UNCHANGED <<redisVars, vdp>>
  PROVE  FlowMoves
<1>1. CASE finish(t, "SYSTEM_FAILURE", freed + CtxHeld(rec.ctx) - CtxHeld(txn[t].ctx), {})
  BY <1>1, FailMoves
<1>2. CASE Await(t, rec, "DB_READ_WAIT", cb, NoCmd) /\ UNCHANGED <<bg, stores, tx>>
  <2> DEFINE new == [rec EXCEPT !.st = "DB_READ_WAIT", !.cb = cb, !.cmd = NoCmd, !.res = "none"]
  <2>1. "DB_READ_WAIT" \in State /\ cb \in Callback
    BY DEF State, Callback
  <2>2. /\ new \in TxnRecord /\ new.st = "DB_READ_WAIT" /\ new.cb = cb
        /\ new.cmd = NoCmd /\ new.res = "none" /\ new.seid = rec.seid
    BY <2>1, IdleFacts DEF TxnRecord, Result
  <2>3. Moves(t, new)
    <3> HIDE DEF new
    <3> QED
      BY <2>2 DEF Moves, ReadMove
  <2>4. txn[t].cb # "cas_write_cb"
    BY DEF ModCb, DelCb
  <2> QED
    BY <1>2, <2>3, <2>4, AwaitMoves
<1> QED
  BY <1>1, <1>2 DEF StartRead

(* mod_retrans_lookup_cb() and del_retrans_lookup_cb().                    *)
LEMMA LookupMoves ==
  ASSUME DurabilityInv, NEW t \in Txn, mod_retrans_lookup_cb(t) \/ del_retrans_lookup_cb(t)
  PROVE  FlowMoves
<1>1. PICK cb : /\ LookupThenRead(t, cb) /\ cb \in {"mod_read_cb", "del_read_cb"}
                /\ txn[t].cb \in ModCb \cup DelCb /\ txn[t].cb # "cas_write_cb"
  BY DEF mod_retrans_lookup_cb, del_retrans_lookup_cb, ModCb, DelCb
<1>2. UNCHANGED <<redisVars, vdp>> /\ txn[t].req \in Req /\ txn[t] \in TxnRecord
  BY <1>1, ModDelFacts DEF LookupThenRead
<1>3. CASE ReplyFromCache(t)
  BY <1>1, <1>2, <1>3, CacheHitMoves
<1>4. CASE finish(t, "SYSTEM_FAILURE", 0, {}) /\ UNCHANGED idVars
  BY <1>2, <1>4, FailMoves DEF SeidStep, idVars
<1>5. CASE StartRead(t, [txn[t] EXCEPT !.ctx = EmptyCtx], cb, -1) /\ UNCHANGED idVars
  <2> DEFINE rec == [txn[t] EXCEPT !.ctx = EmptyCtx]
  <2>1. EmptyCtx \in Ctx
    BY DEF EmptyCtx, Ctx
  <2>2. rec \in TxnRecord /\ rec.seid = txn[t].seid
    BY <1>2, <2>1 DEF TxnRecord
  <2>3. SeidStep /\ StartRead(t, rec, cb, -1)
    BY <1>5 DEF SeidStep, idVars
  <2> HIDE DEF rec
  <2> QED
    BY <1>1, <1>2, <2>2, <2>3, StartReadMoves
<1> QED
  BY <1>1, <1>3, <1>4, <1>5 DEF LookupThenRead

(* mod_read_cb(): the write it issues appends to what it has just read.    *)
LEMMA ModReadMoves ==
  ASSUME DurabilityInv, NEW t \in Txn, mod_read_cb(t)
  PROVE  FlowMoves
<1>0. /\ UNCHANGED <<redisVars, vdp>> /\ txn[t].cb = "mod_read_cb" /\ SeidStep
      /\ txn[t] \in TxnRecord /\ txn[t].seid \in Seid /\ txn[t].req \in ModReq
  BY ModDelFacts DEF mod_read_cb, SeidStep, ModCb, idVars
<1>1. CASE finish(t, "SYSTEM_FAILURE", 0, {}) \/ finish(t, "NOT_FOUND", 0, {})
  BY <1>0, <1>1, FailMoves
<1>2. CASE sess[txn[t].seid].ver # 0 /\ ModWrite(t)
  <2> DEFINE old == sess[txn[t].seid]
             next == [old.ctx EXCEPT !.mods = Append(@, txn[t].req)]
             rec == [txn[t] EXCEPT !.ver = old.ver, !.impl = old.ctx, !.ctx = next]
             cmd == v_sess_cas_write(txn[t].seid, old.ver, next, FALSE)
             new == [rec EXCEPT !.st = "DB_WRITE_WAIT", !.cb = "mod_cas_cb",
                                !.cmd = cmd, !.res = "none"]
  <2>1. old.ver \in Nat /\ old.ver # 0 /\ old.ctx \in Ctx
    BY <1>0, <1>2 DEF DurabilityInv, TypeOK, RecordHasCtx, SessRecord
  <2>2. Await(t, rec, "DB_WRITE_WAIT", "mod_cas_cb", cmd) /\ bg' = bg /\ tx' = tx
    BY <1>2 DEF ModWrite
  <2>3. sess[txn[t].seid] = old
    OBVIOUS
  <2> HIDE DEF old
  <2>4. next \in Ctx /\ next.mods = Append(old.ctx.mods, txn[t].req)
    <3>1. old.ctx.mods \in Seq(ModReq)
      BY <2>1 DEF Ctx
    <3>2. Append(old.ctx.mods, txn[t].req) \in Seq(ModReq)
      BY <1>0, <3>1
    <3> QED
      BY <2>1, <3>2 DEF Ctx
  <2> HIDE DEF next
  <2>5. /\ rec \in TxnRecord /\ rec.req = txn[t].req /\ rec.seid = txn[t].seid
        /\ rec.ver = old.ver /\ rec.impl = old.ctx
    BY <1>0, <2>1, <2>4 DEF TxnRecord
  <2>6. /\ cmd \in Command /\ cmd = v_sess_cas_write(txn[t].seid, old.ver, cmd.ctx, FALSE)
        /\ cmd.ctx = next
    BY <1>0, <2>1, <2>4 DEF v_sess_cas_write, Command, SessOp
  <2> HIDE DEF rec, cmd
  <2>7. "DB_WRITE_WAIT" \in State /\ "mod_cas_cb" \in Callback
    BY DEF State, Callback
  <2>8. /\ new \in TxnRecord /\ new.st = "DB_WRITE_WAIT" /\ new.cb = "mod_cas_cb"
        /\ new.cmd = cmd /\ new.res = "none" /\ new.seid = rec.seid /\ new.req = rec.req
        /\ new.ver = rec.ver /\ new.impl = rec.impl
    BY <2>5, <2>6, <2>7 DEF TxnRecord, Result
  <2>9. Moves(t, new)
    <3> HIDE DEF new
    <3>1. new.cmd = v_sess_cas_write(new.seid, new.ver, new.cmd.ctx, FALSE)
      BY <2>5, <2>6, <2>8
    <3>2. new.cmd.ctx.mods = Append(new.impl.mods, new.req)
      BY <2>4, <2>5, <2>6, <2>8
    <3>3. ModMove(t, new)
      BY <1>0, <2>1, <2>3, <2>5, <2>8, <3>1, <3>2 DEF ModMove
    <3> QED
      BY <2>8, <3>3 DEF Moves
  <2> QED
    BY <1>0, <2>2, <2>9, AwaitMoves
<1> QED
  BY <1>1, <1>2 DEF mod_read_cb, ModAbort

(* mod_cas_cb(): goes on to the VDP only when its write was acknowledged.  *)
LEMMA ModCasMoves ==
  ASSUME DurabilityInv, NEW t \in Txn, mod_cas_cb(t)
  PROVE  FlowMoves
<1> DEFINE impl == CtxHeld(txn[t].impl)
           again == [txn[t] EXCEPT !.impl = NULL, !.retry = @ + 1, !.ctx = EmptyCtx]
           next == [txn[t] EXCEPT !.ver = @ + 1]
           cmd == VdpCmd("VDP_MODIFY", txn[t].seid, txn[t].ctx)
<1>0. /\ UNCHANGED <<redisVars, vdp>> /\ txn[t].cb = "mod_cas_cb" /\ SeidStep
      /\ txn[t] \in TxnRecord /\ txn[t].seid \in Seid /\ txn[t].cb \in ModCb
  BY ModDelFacts DEF mod_cas_cb, SeidStep, ModCb, idVars
<1>1. CASE finish(t, "SYSTEM_FAILURE", impl, {}) \/ finish(t, "NOT_FOUND", impl, {})
  BY <1>0, <1>1, FailMoves
<1>2. CASE StartRead(t, again, "mod_read_cb", impl)
  <2>1. EmptyCtx \in Ctx
    BY DEF EmptyCtx, Ctx
  <2>2. again \in TxnRecord /\ again.seid = txn[t].seid
    <3>1. txn[t].retry + 1 \in Nat
      BY <1>0 DEF TxnRecord
    <3> QED
      BY <1>0, <2>1, <3>1 DEF TxnRecord
  <2> HIDE DEF again, impl
  <2> QED
    BY <1>0, <1>2, <2>2, StartReadMoves
<1>3. CASE /\ Seen(t, "OK", "cas_err")
           /\ Await(t, next, "VDP_WAIT", "mod_vdp_cb", cmd)
           /\ UNCHANGED <<bg, stores, tx, ctxUse>>
  <2> DEFINE new == [next EXCEPT !.st = "VDP_WAIT", !.cb = "mod_vdp_cb",
                                 !.cmd = cmd, !.res = "none"]
  <2>1. /\ next \in TxnRecord /\ next.req = txn[t].req /\ next.seid = txn[t].seid
        /\ next.impl = txn[t].impl /\ next.ver = txn[t].ver + 1
    BY <1>0 DEF TxnRecord
  <2>2. cmd \in Command /\ cmd.op = "VDP_MODIFY" /\ cmd.seid = txn[t].seid
    BY <1>0, CommandTypes DEF VdpOp, TxnRecord, VdpCmd, NoCmd
  <2>3. txn[t].res = "OK"
    BY <1>3 DEF Seen
  <2> HIDE DEF next, cmd
  <2>4. "VDP_WAIT" \in State /\ "mod_vdp_cb" \in Callback
    BY DEF State, Callback
  <2>5. /\ new \in TxnRecord /\ new.st = "VDP_WAIT" /\ new.cb = "mod_vdp_cb"
        /\ new.cmd = cmd /\ new.res = "none" /\ new.seid = next.seid /\ new.req = next.req
        /\ new.ver = next.ver /\ new.impl = next.impl
    BY <2>1, <2>2, <2>4 DEF TxnRecord, Result
  <2>6. Moves(t, new)
    <3> HIDE DEF new
    <3> QED
      BY <1>0, <2>1, <2>2, <2>3, <2>5 DEF Moves, ModMove
  <2> QED
    BY <1>0, <1>3, <2>6, AwaitMoves
<1> QED
  BY <1>1, <1>2, <1>3 DEF mod_cas_cb

(* mod_vdp_cb(): the write-back carries the snapshot and expects the       *)
(* version the modification made.                                          *)
LEMMA ModVdpMoves ==
  ASSUME DurabilityInv, NEW t \in Txn, mod_vdp_cb(t)
  PROVE  FlowMoves
<1> DEFINE rec == [txn[t] EXCEPT !.impl = NULL]
           cmd == v_sess_cas_write(txn[t].seid, txn[t].ver, txn[t].impl, FALSE)
<1>0. /\ UNCHANGED <<redisVars, vdp>> /\ txn[t].cb = "mod_vdp_cb" /\ SeidStep
      /\ txn[t] \in TxnRecord /\ txn[t].seid \in Seid /\ txn[t].req \in ModReq
      /\ txn[t].impl \in Ctx /\ txn[t].ver \in Nat
  BY ModDelFacts, OwnFacts DEF mod_vdp_cb, SeidStep, ModCb, idVars, Shape, TxnRecord
<1>1. CASE finish(t, "SYSTEM_FAILURE", 1, {})
  BY <1>0, <1>1, FailMoves
<1>2. CASE finish(t, "ACCEPTED", CtxHeld(txn[t].impl), {})
  <2>1. AnswersAs(t, ReplyOf(t, "ACCEPTED"))
    BY <1>0 DEF AnswersAs, ReplyOf
  <2>2. \A c \in {} : c.op \in {"DEL", "PERSIST"}
    OBVIOUS
  <2> QED
    BY <1>0, <1>2, <2>1, <2>2, FinishMoves
<1>3. CASE /\ Await(t, rec, "VDP_WAIT", "mod_compensate_write_cb", cmd)
           /\ bg' = bg \cup Late(t) /\ UNCHANGED <<stores, tx>>
  <2> DEFINE new == [rec EXCEPT !.st = "VDP_WAIT", !.cb = "mod_compensate_write_cb",
                                !.cmd = cmd, !.res = "none"]
  <2>1. rec \in TxnRecord /\ rec.seid = txn[t].seid
    BY <1>0 DEF TxnRecord
  <2>2. cmd \in Command
    BY <1>0, CommandTypes
  <2>3. cmd = v_sess_cas_write(txn[t].seid, txn[t].ver, txn[t].impl, FALSE)
    OBVIOUS
  <2> HIDE DEF rec, cmd
  <2>4. "VDP_WAIT" \in State /\ "mod_compensate_write_cb" \in Callback
    BY DEF State, Callback
  <2>5. /\ new \in TxnRecord /\ new.st = "VDP_WAIT" /\ new.cb = "mod_compensate_write_cb"
        /\ new.cmd = cmd /\ new.res = "none" /\ new.seid = rec.seid
    BY <2>1, <2>2, <2>4 DEF TxnRecord, Result
  <2>6. txn' = [txn EXCEPT ![t] = new]
    BY <1>3 DEF Await
  <2> HIDE DEF new
  <2>7. Moves(t, new)
    BY <1>0, <2>1, <2>3, <2>5 DEF Moves, ModMove
  <2> QED
    BY <1>0, <1>3, <2>6, <2>7, OneMove
<1> QED
  BY <1>1, <1>2, <1>3 DEF mod_vdp_cb

(* mod_compensate_write_cb().                                              *)
LEMMA ModCompensateMoves ==
  ASSUME DurabilityInv, NEW t \in Txn, mod_compensate_write_cb(t)
  PROVE  FlowMoves
<1>1. UNCHANGED <<redisVars, vdp>> /\ SeidStep /\ finish(t, "REJECTED", 0, {})
  BY DEF mod_compensate_write_cb, SeidStep, idVars
<1> QED
  BY <1>1, FailMoves

(* del_read_cb().                                                          *)
LEMMA DelReadMoves ==
  ASSUME DurabilityInv, NEW t \in Txn, del_read_cb(t)
  PROVE  FlowMoves
<1> DEFINE old == sess[txn[t].seid]
           rec == [txn[t] EXCEPT !.ver = old.ver, !.ctx = old.ctx]
           cmd == VdpCmd("VDP_DELETE", txn[t].seid, NULL)
<1>0. /\ UNCHANGED <<redisVars, vdp>> /\ txn[t].cb = "del_read_cb" /\ SeidStep
      /\ txn[t] \in TxnRecord /\ txn[t].seid \in Seid
  BY ModDelFacts DEF del_read_cb, SeidStep, DelCb, idVars
<1>1. CASE finish(t, "SYSTEM_FAILURE", 0, {}) \/ finish(t, "NOT_FOUND", 0, {})
  BY <1>0, <1>1, FailMoves
<1>2. CASE /\ Await(t, rec, "VDP_WAIT", "del_vdp_cb", cmd)
           /\ UNCHANGED <<bg, stores, tx, ctxUse>>
  <2> DEFINE new == [rec EXCEPT !.st = "VDP_WAIT", !.cb = "del_vdp_cb",
                                !.cmd = cmd, !.res = "none"]
  <2>1. old.ver \in Nat /\ old.ctx \in Ctx \cup {NULL}
    BY <1>0, OwnFacts DEF SessRecord
  <2> HIDE DEF old
  <2>2. rec \in TxnRecord /\ rec.seid = txn[t].seid
    BY <1>0, <2>1 DEF TxnRecord
  <2>3. cmd \in Command /\ cmd.op = "VDP_DELETE" /\ cmd.seid = txn[t].seid
    BY <1>0, CommandTypes DEF VdpOp, VdpCmd, NoCmd
  <2> HIDE DEF rec, cmd
  <2>4. "VDP_WAIT" \in State /\ "del_vdp_cb" \in Callback
    BY DEF State, Callback
  <2>5. /\ new \in TxnRecord /\ new.st = "VDP_WAIT" /\ new.cb = "del_vdp_cb"
        /\ new.cmd = cmd /\ new.res = "none" /\ new.seid = rec.seid
    BY <2>2, <2>3, <2>4 DEF TxnRecord, Result
  <2>6. Moves(t, new)
    <3> HIDE DEF new
    <3> QED
      BY <1>0, <2>2, <2>3, <2>5 DEF Moves, DelMove
  <2> QED
    BY <1>0, <1>2, <2>6, AwaitMoves
<1> QED
  BY <1>1, <1>2 DEF del_read_cb

(* del_vdp_cb(): the record goes only after the rule went.                 *)
LEMMA DelVdpMoves ==
  ASSUME DurabilityInv, NEW t \in Txn, del_vdp_cb(t)
  PROVE  FlowMoves
<1> DEFINE cmd == v_sess_delete(txn[t].seid, txn[t].ver)
<1>0. /\ UNCHANGED <<redisVars, vdp>> /\ txn[t].cb = "del_vdp_cb" /\ SeidStep
      /\ txn[t] \in TxnRecord /\ txn[t].seid \in Seid /\ txn[t].ver \in Nat
  BY ModDelFacts DEF del_vdp_cb, SeidStep, DelCb, idVars, TxnRecord
<1>1. CASE finish(t, "SYSTEM_FAILURE", 0, {}) \/ finish(t, "REJECTED", 0, {})
  BY <1>0, <1>1, FailMoves
<1>2. CASE /\ Seen(t, "ACCEPT", "vdp_timeout")
           /\ Await(t, txn[t], "DB_WRITE_WAIT", "del_delete_cb", cmd)
           /\ UNCHANGED <<bg, stores, tx, ctxUse>>
  <2> DEFINE new == [txn[t] EXCEPT !.st = "DB_WRITE_WAIT", !.cb = "del_delete_cb",
                                   !.cmd = cmd, !.res = "none"]
  <2>1. cmd \in Command /\ cmd.op = "DEL" /\ cmd.seid = txn[t].seid
    BY <1>0, CommandTypes
  <2>2. txn[t].res = "ACCEPT"
    BY <1>2 DEF Seen
  <2> HIDE DEF cmd
  <2>3. "DB_WRITE_WAIT" \in State /\ "del_delete_cb" \in Callback
    BY DEF State, Callback
  <2>4. /\ new \in TxnRecord /\ new.st = "DB_WRITE_WAIT" /\ new.cb = "del_delete_cb"
        /\ new.cmd = cmd /\ new.res = "none" /\ new.seid = txn[t].seid
    BY <1>0, <2>1, <2>3 DEF TxnRecord, Result
  <2>5. Moves(t, new)
    <3> HIDE DEF new
    <3> QED
      BY <1>0, <2>1, <2>2, <2>4 DEF Moves, DelMove
  <2> QED
    BY <1>0, <1>2, <2>5, AwaitMoves
<1> QED
  BY <1>1, <1>2 DEF del_vdp_cb

(* del_delete_cb(): ACCEPTED only after the record went.                   *)
LEMMA DelDeleteMoves ==
  ASSUME DurabilityInv, NEW t \in Txn, del_delete_cb(t)
  PROVE  FlowMoves
<1> DEFINE again == [txn[t] EXCEPT !.retry = @ + 1, !.ctx = EmptyCtx]
<1>0. /\ UNCHANGED <<redisVars, vdp>> /\ txn[t].cb = "del_delete_cb" /\ SeidStep
      /\ txn[t] \in TxnRecord /\ txn[t].req \in DelReq /\ txn[t].cb \in DelCb
  BY ModDelFacts DEF del_delete_cb, SeidStep, DelCb
<1>1. CASE finish(t, "SYSTEM_FAILURE", 0, {}) \/ finish(t, "NOT_FOUND", 0, {})
  BY <1>0, <1>1, FailMoves
<1>2. CASE Seen(t, "OK", "del_err") /\ finish(t, "ACCEPTED", 0, {})
  <2>1. AnswersAs(t, ReplyOf(t, "ACCEPTED"))
    BY <1>0, <1>2 DEF AnswersAs, ReplyOf, Seen
  <2>2. \A c \in {} : c.op \in {"DEL", "PERSIST"}
    OBVIOUS
  <2> QED
    BY <1>0, <1>2, <2>1, <2>2, FinishMoves
<1>3. CASE StartRead(t, again, "del_read_cb", 0)
  <2>1. EmptyCtx \in Ctx
    BY DEF EmptyCtx, Ctx
  <2>2. again \in TxnRecord /\ again.seid = txn[t].seid
    <3>1. txn[t].retry + 1 \in Nat
      BY <1>0 DEF TxnRecord
    <3> QED
      BY <1>0, <2>1, <3>1 DEF TxnRecord
  <2> HIDE DEF again
  <2> QED
    BY <1>0, <1>3, <2>2, StartReadMoves
<1> QED
  BY <1>1, <1>2, <1>3 DEF del_delete_cb

(* timeout_handler(): what it issues is a deletion or a confirmation.      *)
LEMMA TimeoutMoves ==
  ASSUME DurabilityInv, NEW t \in Txn, timeout_handler(t)
  PROVE  FlowMoves
<1>1. /\ txn' = [txn EXCEPT ![t] = Idle] /\ bg' = bg \cup TimeoutCommands(txn[t]) \cup Late(t)
      /\ UNCHANGED <<redisVars, vdp, tx>> /\ SeidStep
  BY DEF timeout_handler, SeidStep, idVars
<1>2. \A c \in TimeoutCommands(txn[t]) : c.op \in {"DEL", "PERSIST"}
  BY DEF TimeoutCommands, v_sess_delete, v_sess_confirm, NoCmd
<1> QED
  BY <1>1, <1>2, IdleMoves, OneMove

(* PodCrash: the transactions of a pod end, the commands it sent stay.     *)
LEMMA PodCrashMoves ==
  ASSUME DurabilityInv, NEW p \in Pod, PodCrash(p)
  PROVE  FlowMoves
<1>1. /\ bg' = bg \cup UNION {Late(<<p, i>>) : i \in Slot}
      /\ txn' = [t \in Txn |-> IF t[1] = p THEN Idle ELSE txn[t]]
      /\ UNCHANGED <<redisVars, vdp, tx>> /\ SeidStep
  BY DEF PodCrash, SeidStep, idVars
<1>2. \A t \in Txn : txn'[t] = txn[t] \/ Moves(t, txn'[t])
  BY <1>1, IdleMoves
<1>3. ASSUME NEW c \in bg', c \notin bg PROVE \E t \in Txn : LeftBehind(t, c)
  <2>1. PICK i \in Slot : c \in Late(<<p, i>>)
    BY <1>1, <1>3
  <2>2. <<p, i>> \in Txn /\ txn'[<<p, i>>] = Idle
    BY <1>1 DEF Txn
  <2> QED
    BY <2>1, <2>2 DEF LeftBehind
<1>4. ASSUME NEW t \in Txn, txn'[t] # txn[t] PROVE Late(t) \subseteq bg'
  <2>1. t[1] = p
    BY <1>1, <1>4
  <2>2. PICK i \in Slot : t = <<p, i>>
    BY <2>1 DEF Txn
  <2> QED
    BY <1>1, <2>2
<1> QED
  BY <1>1, <1>2, <1>3, <1>4 DEF FlowMoves, SeidStep, redisVars

(* v_flow_handle_msg(): a free transaction takes up the request, about a   *)
(* session the SMF was told of.                                            *)
LEMMA HandleMsgMoves ==
  ASSUME DurabilityInv, HistoryInv, NEW p \in Pod, NEW r \in Req, v_flow_handle_msg(p, r)
  PROVE  FlowMoves
<1>1. PICK s \in Targets(r) : reply_ctx_not_found(r) \/ Dropped(p, r) \/ Started(p, r, s)
  BY DEF v_flow_handle_msg
<1>2. UNCHANGED <<redisVars, vdp, bg>> /\ SeidStep
  BY DEF v_flow_handle_msg, SeidStep, idVars
<1>3. CASE reply_ctx_not_found(r) \/ Dropped(p, r)
  <2>1. txn' = txn /\ tx \subseteq tx' /\ \A x \in tx' : x \in tx \/ x.cause # "ACCEPTED"
    BY <1>3 DEF reply_ctx_not_found, Dropped
  <2> QED
    BY <1>2, <2>1 DEF FlowMoves, SeidStep, redisVars
<1>4. CASE Started(p, r, s)
  <2>1. PICK i \in Slot :
          /\ ~Live(<<p, i>>)
          /\ Await(<<p, i>>, [Idle EXCEPT !.req = r, !.seid = s], "RECV", Entry(r), NoCmd)
    BY <1>4 DEF Started
  <2>2. r \notin BadReq /\ tx' = tx
    BY <1>4 DEF Started
  <2>3. /\ r \in EstReq => s = NULL
        /\ r \notin EstReq => s \in AcceptedSeids /\ s \in Seid
    BY <1>1, <2>2 DEF Targets, DurabilityInv, TargetKnown, SeidOnce, TypeOK, Req
  <2> DEFINE t == <<p, i>>
             rec == [Idle EXCEPT !.req = r, !.seid = s]
             new == [rec EXCEPT !.st = "RECV", !.cb = Entry(r), !.cmd = NoCmd, !.res = "none"]
  <2>4. rec \in TxnRecord /\ rec.seid = s
    BY <2>3, IdleFacts DEF TxnRecord
  <2>5. /\ "RECV" \in State /\ Entry(r) \in Callback
        /\ Entry(r) \in {"retrans_lookup_cb", "mod_retrans_lookup_cb", "del_retrans_lookup_cb"}
        /\ Entry(r) # "retrans_lookup_cb" => r \notin EstReq
    BY DEF State, Callback, Entry
  <2>6. t \in Txn /\ txn[t].st = "FREE" /\ txn' = [txn EXCEPT ![t] = new]
    BY <2>1 DEF Txn, Live, Await
  <2> HIDE DEF rec
  <2>7. /\ new \in TxnRecord /\ new.st = "RECV" /\ new.cb = Entry(r)
        /\ new.cmd = NoCmd /\ new.res = "none" /\ new.seid = rec.seid
    BY <2>4, <2>5, IdleFacts DEF TxnRecord, Result
  <2> HIDE DEF new, t
  <2>8. Moves(t, new)
    BY <2>3, <2>4, <2>5, <2>6, <2>7 DEF Moves, StartMove
  <2>9. txn'[t] = new /\ \A u \in Txn : u # t => txn'[u] = txn[u]
    BY <2>6, <2>7, TxnAfter DEF DurabilityInv
  <2>10. \A u \in Txn : txn'[u] = txn[u] \/ Moves(u, txn'[u])
    BY <2>8, <2>9
  <2>11. txn[t].cb # "cas_write_cb"
    BY <2>6, IdleFacts DEF HistoryInv, TxnOK
  <2> QED
    BY <1>2, <2>2, <2>9, <2>10, <2>11 DEF FlowMoves, SeidStep, redisVars
<1> QED
  BY <1>1, <1>3, <1>4

-----------------------------------------------------------------------------
(* Steps of Redis, of the VDP and of time.                                 *)

(* The record of session s keeps its version and context,                  *)
Kept(s) ==
  /\ sess'[s].ver = sess[s].ver /\ sess'[s].ctx = sess[s].ctx
  /\ sess[s].ver = 0 => sess'[s] = sess[s]

(* is created, which nothing under way can do again,                       *)
Created(s) ==
  /\ s \in seidUsed /\ s \notin AcceptedSeids /\ sess'[s].ver # 0
  /\ \A t \in Txn : txn[t].cb = "cas_write_cb" /\ txn[t].seid = s => txn'[t].res # "none"
  /\ \A c \in bg' : ~Creates(c, s)

(* or gets a new version, with everything that was reported.               *)
Updated(s) ==
  /\ s \in AcceptedSeids /\ sess[s].ver # 0 /\ sess'[s].ver = sess[s].ver + 1
  /\ \A m \in ModReq : Reported(m, s) => Contains(sess'[s].ctx.mods, m)

(* Transaction t gets an answer, and a positive one is true.               *)
Answered(t) ==
  /\ txn[t].res = "none" /\ txn[t].cmd # NoCmd
  /\ txn'[t].st = txn[t].st /\ txn'[t].cb = txn[t].cb /\ txn'[t].req = txn[t].req
  /\ txn'[t].seid = txn[t].seid /\ txn'[t].ver = txn[t].ver
  /\ txn'[t].impl = txn[t].impl /\ txn'[t].cmd = txn[t].cmd
  /\ txn[t].cb = "mod_cas_cb" /\ txn'[t].res = "OK" =>
       /\ Updated(txn[t].seid) /\ sess[txn[t].seid].ver = txn[t].ver
       /\ sess'[txn[t].seid].ctx.mods = txn[t].cmd.ctx.mods
  /\ txn[t].cb = "del_delete_cb" /\ txn'[t].res = "OK" => sess'[txn[t].seid].ver = 0
  /\ txn[t].cb = "del_vdp_cb" /\ txn'[t].res = "ACCEPT" => vdp'[txn[t].seid] = NULL

(* A step of Redis, of the VDP or of time.                                 *)
Effect ==
  /\ tx' = tx /\ seidUsed' = seidUsed /\ bg' \subseteq bg
  /\ \A s \in Seid : Kept(s) \/ sess'[s] = NoSession \/ Created(s) \/ Updated(s)
  /\ \A s \in AcceptedSeids : vdp[s] = NULL => vdp'[s] = NULL
  /\ \A t \in Txn : txn'[t] = txn[t] \/ Answered(t)
  /\ \A t, u \in Txn : txn'[t] # txn[t] /\ txn'[u] # txn[u] => t = u

(* What such a step leaves as it is.                                       *)
LEMMA EffectBasics ==
  ASSUME DurabilityInv, DurabilityInv', HistoryInv, Effect
  PROVE  /\ AcceptedSeids' = AcceptedSeids
         /\ \A s : Abandoned(s)' <=> Abandoned(s)
         /\ \A t \in Txn : /\ txn'[t].cb = txn[t].cb /\ txn'[t].seid = txn[t].seid
                           /\ txn'[t].req = txn[t].req /\ txn'[t].ver = txn[t].ver
                           /\ txn'[t].impl = txn[t].impl /\ txn'[t].cmd = txn[t].cmd
                           /\ txn'[t].res = "none" => txn[t].res = "none"
         /\ AcceptedSeids \subseteq Seid
         /\ \A s \in Seid : sess[s].ver \in Nat /\ sess'[s].ver \in Nat
         /\ NoSession.ver = 0
<1>1. AcceptedSeids' = AcceptedSeids
  BY DEF AcceptedSeids, Effect
<1>2. \A t \in Txn : /\ txn'[t].cb = txn[t].cb /\ txn'[t].seid = txn[t].seid
                     /\ txn'[t].req = txn[t].req /\ txn'[t].ver = txn[t].ver
                     /\ txn'[t].impl = txn[t].impl /\ txn'[t].cmd = txn[t].cmd
                     /\ txn'[t].res = "none" => txn[t].res = "none"
  BY DEF Effect, Answered
<1>3. \A s : Abandoned(s)' <=> Abandoned(s)
  BY <1>1, <1>2 DEF Abandoned, Effect, Establishing
<1>4. AcceptedSeids \subseteq Seid
  BY DEF DurabilityInv, SeidOnce, TypeOK
<1>5. \A s \in Seid : sess[s].ver \in Nat /\ sess'[s].ver \in Nat
  BY DEF DurabilityInv, TypeOK, SessRecord
<1>6. NoSession.ver = 0
  BY DEF NoSession
<1> QED
  BY <1>1, <1>2, <1>3, <1>4, <1>5, <1>6

(* What may yet be reported of a session is about one the SMF was told of; *)
(* and there is more of it only when its record was updated accordingly.   *)
LEMMA EffectReports ==
  ASSUME DurabilityInv, DurabilityInv', HistoryInv, Effect, NEW m \in ModReq, NEW s
  PROVE  /\ Reported(m, s) => s \in AcceptedSeids
         /\ Reported(m, s)' =>
              \/ Reported(m, s)
              \/ Updated(s) /\ Contains(sess'[s].ctx.mods, m)
         /\ \A t \in Txn : ReportedBut(t, m, s)' =>
              ReportedBut(t, m, s) \/ (Updated(s) /\ txn'[t] = txn[t])
<1>0. \A t \in Txn : TxnOK(t) /\ ModOK(t) /\ Shape(txn[t])
  BY DEF HistoryInv, DurabilityInv, FlowShape
<1>1. ASSUME Reported(m, s) PROVE s \in AcceptedSeids
  <2>1. CASE \E x \in tx : x.cause = "ACCEPTED" /\ x.req = m /\ x.seid = s
    BY <2>1 DEF HistoryInv, AnswersKnown
  <2>2. CASE \E u \in Txn : Committed(u) /\ txn[u].req = m /\ txn[u].seid = s
    BY <1>0, <2>2 DEF Committed, TxnOK, ModCb
  <2> QED
    BY <1>1, <2>1, <2>2 DEF Reported
<1>2. ASSUME NEW u \in Txn, Committed(u)', txn'[u].req = m, txn'[u].seid = s, ~Committed(u)
      PROVE  txn'[u] # txn[u] /\ Updated(s) /\ Contains(sess'[s].ctx.mods, m)
  <2>1. txn'[u] # txn[u] /\ Answered(u)
    BY <1>2 DEF Effect, Committed
  <2>2. txn[u].cb = "mod_cas_cb" /\ txn'[u].res = "OK" /\ txn[u].req = m /\ txn[u].seid = s
    BY <1>2, <2>1 DEF Answered, Committed
  <2>3. Updated(s) /\ sess'[s].ctx.mods = txn[u].cmd.ctx.mods
    BY <2>1, <2>2 DEF Answered
  <2>4. txn[u].cmd.ctx.mods = Append(txn[u].impl.mods, m) /\ txn[u].impl.mods \in Seq(ModReq)
    BY <1>0, <2>2 DEF ModOK, Shape, Ctx
  <2> QED
    BY <2>1, <2>3, <2>4, ContainsAppend
<1>3. \A u \in Txn : txn'[u].req = txn[u].req /\ txn'[u].seid = txn[u].seid
  BY EffectBasics
<1>4. ASSUME Reported(m, s)', ~Reported(m, s)
      PROVE  Updated(s) /\ Contains(sess'[s].ctx.mods, m)
  <2>1. PICK u \in Txn : Committed(u)' /\ txn'[u].req = m /\ txn'[u].seid = s
    BY <1>4 DEF Reported, Effect
  <2>2. ~Committed(u)
    BY <1>3, <1>4, <2>1 DEF Reported
  <2> QED
    BY <1>2, <2>1, <2>2
<1>5. ASSUME NEW t \in Txn, ReportedBut(t, m, s)', ~ReportedBut(t, m, s)
      PROVE  Updated(s) /\ txn'[t] = txn[t]
  <2>1. PICK u \in Txn : u # t /\ Committed(u)' /\ txn'[u].req = m /\ txn'[u].seid = s
    BY <1>5 DEF ReportedBut, Effect
  <2>2. ~Committed(u)
    BY <1>3, <1>5, <2>1 DEF ReportedBut
  <2>3. txn'[u] # txn[u] /\ Updated(s)
    BY <1>2, <2>1, <2>2
  <2> QED
    BY <2>1, <2>3 DEF Effect
<1> QED
  BY <1>1, <1>4, <1>5

(* A version once made stays made.                                         *)
LEMMA EffectReached ==
  ASSUME DurabilityInv, DurabilityInv', HistoryInv, Effect,
         NEW s \in AcceptedSeids, NEW v \in Nat, v # 0, Reached(s, v)
  PROVE  /\ Reached(s, v)'
         /\ sess'[s].ver = v => Kept(s) /\ ~Updated(s)
<1>0. s \in Seid /\ sess[s].ver \in Nat /\ NoSession.ver = 0
  BY EffectBasics
<1>1. Kept(s) \/ sess'[s] = NoSession \/ Updated(s)
  BY <1>0 DEF Effect, Created
<1>2. CASE Kept(s)
  BY <1>0, <1>2 DEF Kept, Reached, Updated
<1>3. CASE sess'[s] = NoSession
  BY <1>0, <1>3 DEF Reached
<1>4. CASE Updated(s)
  BY <1>0, <1>4 DEF Updated, Reached
<1> QED
  BY <1>1, <1>2, <1>3, <1>4

(* A write under way stays in order.                                       *)
LEMMA EffectUpdate ==
  ASSUME DurabilityInv, DurabilityInv', HistoryInv, Effect, NEW c, c.ver \in Nat, c.ver # 0,
         UpdateOK(c)
  PROVE  UpdateOK(c)'
<1>1. c.seid \in AcceptedSeids /\ c.seid \in AcceptedSeids' /\ Reached(c.seid, c.ver)
  BY EffectBasics DEF UpdateOK
<1>2. Reached(c.seid, c.ver)'
  BY <1>1, EffectReached
<1>3. ASSUME sess'[c.seid].ver = c.ver
      PROVE  /\ sess[c.seid].ver = c.ver /\ sess'[c.seid].ctx = sess[c.seid].ctx
             /\ \A m \in ModReq : Reported(m, c.seid)' => Reported(m, c.seid)
  <2>1. Kept(c.seid) /\ ~Updated(c.seid)
    BY <1>1, <1>3, EffectReached
  <2> QED
    BY <1>3, <2>1, EffectReports DEF Kept
<1> QED
  BY <1>1, <1>2, <1>3 DEF UpdateOK

(* What a modification wrote stays what it wrote.                          *)
LEMMA EffectWrote ==
  ASSUME DurabilityInv, DurabilityInv', HistoryInv, Effect,
         NEW t \in Txn, txn[t].seid \in AcceptedSeids, NEW v \in Nat, v # 0, Wrote(t, v)
  PROVE  Wrote(t, v)'
<1> DEFINE s == txn[t].seid
<1>1. Reached(s, v) /\ txn'[t].seid = s /\ txn'[t].impl = txn[t].impl /\ txn'[t].req = txn[t].req
  BY EffectBasics DEF Wrote
<1>2. ASSUME NEW q, q = s PROVE Reached(q, v)'
  BY <1>1, <1>2, EffectReached
<1>3. ASSUME sess'[s].ver = v
      PROVE  /\ sess[s].ver = v /\ sess'[s].ctx = sess[s].ctx
             /\ \A m \in ModReq, q \in {s} : ReportedBut(t, m, q)' => ReportedBut(t, m, q)
  <2>1. Kept(s) /\ ~Updated(s)
    BY <1>1, <1>3, EffectReached
  <2> QED
    BY <1>3, <2>1, EffectReports DEF Kept
<1>4. Reached(s, v)'
  BY <1>1, <1>2 DEF Reached
<1> QED
  BY <1>1, <1>3, <1>4 DEF Wrote, Reached


(* Such a step leaves every transaction in order.                          *)
LEMMA EffectTxnOK ==
  ASSUME DurabilityInv, DurabilityInv', HistoryInv, Effect, NEW t \in Txn
  PROVE  TxnOK(t)'
<1> DEFINE s == txn[t].seid
<1>0. /\ TxnOK(t) /\ Shape(txn[t]) /\ (txn'[t] = txn[t] \/ Answered(t))
      /\ AcceptedSeids' = AcceptedSeids /\ NoSession.ver = 0
  BY EffectBasics DEF HistoryInv, Effect, DurabilityInv, FlowShape
<1>1. /\ txn'[t].cb = txn[t].cb /\ txn'[t].seid = s /\ txn'[t].cmd = txn[t].cmd
      /\ txn'[t].res = "none" => txn[t].res = "none"
  BY EffectBasics
<1>2. txn'[t].st = "FREE" => txn'[t] = Idle
  BY <1>0, IdleFacts DEF TxnOK, Answered
<1>3. ASSUME txn'[t].cb = "cas_write_cb", txn'[t].res = "none" PROVE sess'[s].ver = 0
  <2>1. s \in Seid /\ sess[s].ver = 0 /\ txn[t].res = "none"
    BY <1>0, <1>1, <1>3 DEF TxnOK, Shape, EstWait
  <2>2. Kept(s) \/ sess'[s] = NoSession
    BY <1>1, <1>3, <2>1 DEF Effect, Created, Updated
  <2> QED
    BY <1>0, <2>1, <2>2 DEF Kept
<1>4. ASSUME \/ txn'[t].cb = "del_vdp_cb" /\ txn'[t].res = "ACCEPT"
             \/ txn'[t].cb = "del_delete_cb"
      PROVE  vdp'[s] = NULL
  <2>1. s \in AcceptedSeids
    BY <1>0, <1>1, <1>4 DEF TxnOK, DelCb
  <2>2. CASE vdp[s] = NULL
    BY <2>1, <2>2 DEF Effect
  <2>3. CASE txn'[t] # txn[t] /\ txn'[t].cb = "del_vdp_cb"
    BY <1>0, <1>1, <1>4, <2>3 DEF Answered
  <2> QED
    BY <1>0, <1>1, <1>4, <2>2, <2>3 DEF TxnOK
<1>5. ASSUME txn'[t].cb = "del_delete_cb", txn'[t].res = "OK" PROVE sess'[s].ver = 0
  <2>1. s \in AcceptedSeids /\ s \in Seid
    BY <1>0, <1>1, <1>5 DEF TxnOK, Shape, DelCb
  <2>2. CASE txn'[t] = txn[t]
    <3>1. sess[s].ver = 0
      BY <1>0, <1>5, <2>2 DEF TxnOK
    <3> QED
      BY <1>0, <2>1, <3>1 DEF Effect, Kept, Created, Updated
  <2>3. CASE Answered(t)
    BY <1>1, <1>5, <2>3 DEF Answered
  <2> QED
    BY <1>0, <2>2, <2>3
<1> QED
  BY <1>0, <1>1, <1>2, <1>3, <1>4, <1>5 DEF TxnOK, Creation

(* Such a step leaves every modification in order.                         *)
LEMMA EffectModOK ==
  ASSUME DurabilityInv, DurabilityInv', HistoryInv, Effect, NEW t \in Txn
  PROVE  ModOK(t)'
<1> DEFINE s == txn[t].seid
<1>0. /\ TxnOK(t) /\ ModOK(t) /\ WriteOK(t) /\ Shape(txn[t]) /\ txn[t] \in TxnRecord
      /\ txn'[t] = txn[t] \/ Answered(t)
  BY DEF HistoryInv, Effect, DurabilityInv, FlowShape, TypeOK
<1>1. /\ txn'[t].cb = txn[t].cb /\ txn'[t].seid = s /\ txn'[t].cmd = txn[t].cmd
      /\ txn'[t].ver = txn[t].ver /\ txn'[t].impl = txn[t].impl /\ txn'[t].req = txn[t].req
      /\ txn'[t].res = "none" => txn[t].res = "none"
  BY EffectBasics
<1>2. CASE txn[t].cb = "mod_vdp_cb"
  <2>1. s \in AcceptedSeids /\ txn[t].ver \in Nat /\ txn[t].ver # 0 /\ Wrote(t, txn[t].ver)
    BY <1>0, <1>2 DEF TxnOK, ModOK, Shape, ModCb, TxnRecord
  <2>2. ASSUME NEW v, v = txn[t].ver PROVE Wrote(t, v)'
    BY <2>1, <2>2, EffectWrote
  <2>3. Wrote(t, txn[t].ver)'
    BY <1>1, <2>2 DEF Wrote, Reached
  <2> QED
    BY <1>1, <1>2, <2>3 DEF ModOK
<1>3. CASE txn[t].cb = "mod_cas_cb"
  <2>1. /\ s \in AcceptedSeids /\ txn[t].ver \in Nat /\ txn[t].ver # 0
        /\ txn[t].cmd = v_sess_cas_write(s, txn[t].ver, txn[t].cmd.ctx, FALSE)
        /\ txn[t].cmd.ctx.mods = Append(txn[t].impl.mods, txn[t].req)
        /\ txn[t].req \in ModReq /\ txn[t].impl.mods \in Seq(ModReq)
    BY <1>0, <1>3 DEF TxnOK, ModOK, Shape, ModCb, TxnRecord, Ctx
  <2>2. txn[t].cmd.op = "CAS" /\ txn[t].cmd.seid = s /\ txn[t].cmd.ver = txn[t].ver
    <3>1. PICK ctx : ctx = txn[t].cmd.ctx
      OBVIOUS
    <3>2. txn[t].cmd = v_sess_cas_write(s, txn[t].ver, ctx, FALSE)
      BY <2>1, <3>1
    <3> QED
      BY <3>2 DEF v_sess_cas_write
  <2>3. ASSUME txn'[t].res = "none", sess'[s].ver = txn[t].ver
        PROVE  sess'[s].ctx.mods = txn[t].impl.mods
    <3>1. Reached(s, txn[t].ver) /\ txn[t].res = "none"
      BY <1>0, <1>1, <2>1, <2>2, <2>3 DEF WriteOK, UpdateOK
    <3>2. Kept(s)
      BY <2>1, <2>3, <3>1, EffectReached
    <3> QED
      BY <1>0, <1>3, <2>3, <3>1, <3>2 DEF ModOK, Kept
  <2>4. ASSUME txn'[t].res = "OK", NEW v, v = txn[t].ver + 1 PROVE Wrote(t, v)'
    <3>0. v \in Nat /\ v # 0
      BY <2>1, <2>4
    <3>1. CASE txn'[t] = txn[t]
      <4>1. Wrote(t, v)
        BY <1>0, <1>3, <2>4, <3>1 DEF ModOK
      <4> QED
        BY <2>1, <3>0, <4>1, EffectWrote
    <3>2. CASE txn'[t] # txn[t]
      <4>1. /\ Updated(s) /\ sess[s].ver = txn[t].ver /\ txn[t].res = "none"
            /\ sess'[s].ctx.mods = txn[t].cmd.ctx.mods
        BY <1>0, <1>3, <2>4, <3>2 DEF Answered
      <4>2. sess'[s].ver = v
        BY <2>4, <4>1 DEF Updated
      <4>3. sess[s].ctx.mods = txn[t].impl.mods
        BY <1>0, <1>3, <4>1 DEF ModOK
      <4>4. ASSUME NEW m \in ModReq, ReportedBut(t, m, s)' PROVE Contains(txn[t].impl.mods, m)
        <5>1. PICK q : q = s
          OBVIOUS
        <5>2. ReportedBut(t, m, q)'
          BY <1>1, <4>4, <5>1 DEF ReportedBut
        <5>3. ReportedBut(t, m, q)
          BY <3>2, <5>2, EffectReports
        <5>4. Reported(m, s)
          BY <5>1, <5>3 DEF Reported, ReportedBut
        <5>5. s \in Seid
          BY <2>1, EffectBasics
        <5> QED
          BY <2>1, <4>1, <4>3, <5>4, <5>5 DEF HistoryInv, ReportedApplied
      <4>5. Reached(s, v)'
        BY <3>0, <4>2, <1>1 DEF Reached
      <4> QED
        BY <1>1, <2>1, <4>1, <4>2, <4>4, <4>5 DEF Wrote, Reached
    <3> QED
      BY <3>1, <3>2
  <2>5. txn'[t].res = "OK" => Wrote(t, txn[t].ver + 1)'
    BY <1>1, <2>4 DEF Wrote, Reached
  <2> QED
    BY <1>1, <1>3, <2>1, <2>3, <2>5 DEF ModOK
<1> QED
  BY <1>1, <1>2, <1>3 DEF ModOK

(* Such a step leaves every write under way and every command that nobody  *)
(* waits for in order.                                                     *)
LEMMA EffectWriteOK ==
  ASSUME DurabilityInv, DurabilityInv', HistoryInv, Effect, NEW t \in Txn
  PROVE  WriteOK(t)'
<1>1. WriteOK(t) /\ txn'[t].cmd = txn[t].cmd /\ (txn'[t].res = "none" => txn[t].res = "none")
  BY EffectBasics DEF HistoryInv
<1>2. txn[t].cmd.ver \in Nat
  BY DEF DurabilityInv, TypeOK, TxnRecord, Command
<1>3. ASSUME NEW c, c = txn[t].cmd, UpdateOK(c), c.ver # 0 PROVE UpdateOK(c)'
  BY <1>2, <1>3, EffectUpdate
<1> QED
  BY <1>1, <1>3 DEF WriteOK, UpdateOK, Reached

(* What is left in the background stays as it was abandoned.               *)
LEMMA EffectLeftOK ==
  ASSUME DurabilityInv, DurabilityInv', HistoryInv, Effect, NEW c \in bg'
  PROVE  LeftOK(c)'
<1>0. LeftOK(c) /\ c \in bg /\ bg' \subseteq bg /\ c \in Command
  BY DEF HistoryInv, Effect, DurabilityInv, TypeOK
<1>1. ASSUME c.op = "CAS" /\ c.ver = 0
      PROVE  Abandoned(c.seid)' /\ Creation(c, c.seid) /\ sess'[c.seid].ver = 0
  <2>1. Abandoned(c.seid) /\ Creation(c, c.seid) /\ sess[c.seid].ver = 0
    BY <1>0, <1>1 DEF LeftOK
  <2>2. c.seid \in Seid
    BY <2>1 DEF Abandoned, DurabilityInv, TypeOK
  <2>3. ~Created(c.seid) /\ ~Updated(c.seid)
    BY <1>1, <2>1 DEF Created, Updated, Creates
  <2>4. Kept(c.seid) \/ sess'[c.seid] = NoSession
    BY <2>2, <2>3 DEF Effect
  <2> QED
    BY <2>1, <2>4, EffectBasics DEF Kept
<1>2. c.op = "VDP_CREATE" => Abandoned(c.seid)'
  BY <1>0, EffectBasics DEF LeftOK
<1>3. c.op = "CAS" /\ c.ver # 0 => UpdateOK(c)'
  BY <1>0, EffectUpdate DEF LeftOK, Command
<1> QED
  BY <1>0, <1>1, <1>2, <1>3 DEF LeftOK, Creation

(* Steps of Redis, of the VDP and of time preserve the invariant.          *)
LEMMA EffectKeepsHistory ==
  ASSUME DurabilityInv, DurabilityInv', HistoryInv, Effect
  PROVE  HistoryInv'
<1>0. /\ AbsentIsEmpty /\ ReportedApplied /\ AnswersKnown /\ DeletedIsGone
      /\ tx' = tx /\ seidUsed' = seidUsed /\ AcceptedSeids' = AcceptedSeids
      /\ AcceptedSeids \subseteq Seid /\ AcceptedSeids \subseteq seidUsed /\ NoSession.ver = 0
  BY EffectBasics DEF HistoryInv, Effect, DurabilityInv, SeidOnce
<1>1. AbsentIsEmpty'
  BY <1>0, EffectBasics DEF AbsentIsEmpty, Effect, Kept, Created, Updated
<1>2. ASSUME NEW s \in Seid, NEW m \in ModReq, sess'[s].ver # 0, Reported(m, s)'
      PROVE  Contains(sess'[s].ctx.mods, m)
  <2>1. CASE Reported(m, s)
    <3>1. s \in AcceptedSeids
      BY <2>1, EffectReports
    <3>2. Kept(s) \/ Updated(s)
      BY <1>0, <1>2, <3>1 DEF Effect, Created
    <3> QED
      BY <1>0, <1>2, <2>1, <3>2 DEF Kept, Updated, ReportedApplied
  <2>2. CASE ~Reported(m, s)
    BY <1>2, <2>2, EffectReports
  <2> QED
    BY <2>1, <2>2
<1>3. ReportedApplied'
  BY <1>2 DEF ReportedApplied
<1>4. AnswersKnown'
  BY <1>0 DEF AnswersKnown
<1>5. ASSUME NEW x \in tx, x.cause = "ACCEPTED", x.req \in DelReq
      PROVE  sess'[x.seid].ver = 0 /\ vdp'[x.seid] = NULL
  <2>1. x.seid \in AcceptedSeids /\ sess[x.seid].ver = 0 /\ vdp[x.seid] = NULL
    BY <1>0, <1>5 DEF AnswersKnown, DeletedIsGone
  <2>2. Kept(x.seid) \/ sess'[x.seid] = NoSession
    BY <1>0, <2>1 DEF Effect, Created, Updated
  <2> QED
    BY <1>0, <2>1, <2>2 DEF Effect, Kept
<1>6. DeletedIsGone'
  BY <1>0, <1>5 DEF DeletedIsGone
<1> QED
  BY <1>1, <1>3, <1>4, <1>6, EffectTxnOK, EffectModOK, EffectWriteOK, EffectLeftOK
  DEF HistoryInv

-----------------------------------------------------------------------------
(* Redis executes a command, for a transaction or for nobody.              *)

(* What SessExec and BgExec have in common: command c, one that is in      *)
(* order, changes the record of its session, and creates are not repeated. *)
SessRuns(c) ==
  /\ c \in Command /\ c.op \in SessOp /\ CommandOK(c)
  /\ SessRun(c)
  /\ tx' = tx /\ seidUsed' = seidUsed
  /\ \A t \in Txn : txn'[t].cmd = txn[t].cmd
  /\ c.op = "CAS" /\ c.ver = 0 =>
       /\ Creation(c, c.seid) /\ sess[c.seid].ver = 0
       /\ c.seid \in seidUsed /\ c.seid \notin AcceptedSeids
       /\ BeingCreated(c.seid) /\ ~BeingCreated(c.seid)'
  /\ c.op = "CAS" /\ c.ver # 0 => UpdateOK(c)
  /\ \A q \in Seid : ~Creates(c, q) => (BeingCreated(q)' <=> BeingCreated(q))

(* A session that is being created has no record yet.                      *)
LEMMA BeingCreatedAbsent ==
  ASSUME HistoryInv, NEW s, BeingCreated(s)
  PROVE  sess[s].ver = 0
<1>1. CASE \E c \in bg : Creates(c, s)
  BY <1>1 DEF HistoryInv, LeftOK, Creates
<1>2. ASSUME NEW t \in Txn, txn[t].res = "none", Creates(txn[t].cmd, s) PROVE sess[s].ver = 0
  <2>1. txn[t].cb = "cas_write_cb" /\ TxnOK(t)
    BY <1>2 DEF HistoryInv, TxnOK, Creates
  <2>2. Creation(txn[t].cmd, txn[t].seid) /\ sess[txn[t].seid].ver = 0
    BY <1>2, <2>1 DEF TxnOK
  <2>3. txn[t].seid = s
    BY <1>2, <2>2, CreationFields DEF Creates
  <2> QED
    BY <2>2, <2>3
<1> QED
  BY <1>1, <1>2 DEF BeingCreated

(* What a write, a deletion and a confirmation do to their record.         *)
LEMMA RecordAfter ==
  ASSUME NEW rec, NEW c
  PROVE  /\ c.op = "CAS" /\ rec.ver = c.ver =>
              /\ SessResult(rec, c) = "OK"
              /\ SessEffect(rec, c) = [ver |-> c.ver + 1, ctx |-> c.ctx, ttl |-> rec.ttl \/ c.ttl]
         /\ c.op = "CAS" /\ rec.ver # c.ver =>
              SessResult(rec, c) # "OK" /\ SessEffect(rec, c) = rec
         /\ c.op = "DEL" => \/ SessEffect(rec, c) = rec /\ SessResult(rec, c) # "OK"
                            \/ rec.ver # 0 /\ SessEffect(rec, c) = NoSession
         /\ c.op = "PERSIST" => SessEffect(rec, c) = [rec EXCEPT !.ttl = FALSE]
<1>1. CASE c.op = "CAS"
  BY <1>1 DEF SessResult, SessEffect, CasResult, CasRecord
<1>2. CASE c.op = "DEL"
  BY <1>2 DEF SessResult, SessEffect, DelResult, DelRecord
<1>3. CASE c.op = "PERSIST"
  BY <1>3 DEF SessEffect, PersistRecord
<1> QED
  BY <1>1, <1>2, <1>3

(* The entry of a session in the registry stays when its record does.      *)
LEMMA EntryKept ==
  ASSUME NEW q \in Seid, sess'[q] = sess[q], Fresh(q)' <=> Fresh(q)
  PROVE  regOf'[q] = regOf[q]
BY RegistryOf, RegistryOfNext

(* Each command is a step of the registry, and does to the records what    *)
(* Effect allows.                                                          *)
LEMMA SessRunsEffect ==
  ASSUME DurabilityInv, HistoryInv, NEW c, SessRuns(c)
  PROVE  /\ \A s \in Seid : Kept(s) \/ sess'[s] = NoSession \/ Created(s) \/ Updated(s)
         /\ c.op = "CAS" /\ c.ver # 0 /\ SessResult(sess[c.seid], c) = "OK" =>
              /\ Updated(c.seid) /\ sess[c.seid].ver = c.ver /\ sess'[c.seid].ctx = c.ctx
         /\ c.op = "DEL" /\ SessResult(sess[c.seid], c) = "OK" => sess'[c.seid] = NoSession
         /\ Registry!RegNext \/ regOf' = regOf
<1> DEFINE s == c.seid
<1>0. /\ TypeOK /\ SeidOnce /\ RecordHasCtx /\ AbsentIsEmpty
      /\ c \in Command /\ c.op \in SessOp /\ CommandOK(c) /\ tx' = tx /\ seidUsed' = seidUsed
  BY DEF DurabilityInv, HistoryInv, SessRuns
<1>1. /\ s \in Seid /\ sess \in [Seid -> SessRecord] /\ c.ver \in Nat /\ c.ttl \in BOOLEAN
      /\ sess[s].ver \in Nat /\ sess[s].ttl \in BOOLEAN
  BY <1>0 DEF CommandOK, TypeOK, Command, SessRecord
<1>2. /\ sess'[s] = SessEffect(sess[s], c) \/ (c.op = "PERSIST" /\ sess'[s] = sess[s])
      /\ \A q \in Seid : q # s => sess'[q] = sess[q]
  <2>1. SessRun(c)
    BY DEF SessRuns
  <2> QED
    BY <1>1, <2>1 DEF SessRun
<1>3. \A q \in Seid : q # s => Kept(q)
  BY <1>2 DEF Kept
<1>4. \A q \in Seid : q # s => regOf'[q] = regOf[q]
  <2>1. \A q \in Seid : q # s => (Fresh(q)' <=> Fresh(q))
    BY DEF SessRuns, Creates, Fresh
  <2> QED
    BY <1>2, <2>1, EntryKept
<1>5. ASSUME NEW e, regOf'[s] = e PROVE regOf' = [regOf EXCEPT ![s] = e]
  BY <1>1, <1>4, <1>5, RegistryUpdate
<1>6. ASSUME sess'[s] = sess[s], Fresh(s)' <=> Fresh(s)
      PROVE  Kept(s) /\ regOf' = regOf
  BY <1>1, <1>4, <1>6, EntryKept, RegistryUpdate DEF Kept
<1>7. CASE c.op = "CAS" /\ c.ver = 0
  <2>1. /\ c.ttl = TRUE /\ c.ctx.mods = << >> /\ sess[s].ver = 0
        /\ s \in seidUsed /\ s \notin AcceptedSeids /\ BeingCreated(s) /\ ~BeingCreated(s)'
    BY <1>7, CreationFields DEF SessRuns
  <2>2. sess'[s] = [ver |-> 0 + 1, ctx |-> c.ctx, ttl |-> sess[s].ttl \/ TRUE]
    BY <1>2, <1>7, <2>1, RecordAfter
  <2>3. sess'[s].ver # 0 /\ sess'[s].ttl /\ sess'[s].ctx.mods = << >>
    <3>1. PICK b : b = (sess[s].ttl \/ TRUE)
      OBVIOUS
    <3>2. sess'[s] = [ver |-> 0 + 1, ctx |-> c.ctx, ttl |-> b] /\ b
      BY <2>2, <3>1
    <3>3. sess'[s].ver = 0 + 1 /\ sess'[s].ctx = c.ctx /\ sess'[s].ttl = b
      BY <3>2
    <3> QED
      BY <2>1, <3>2, <3>3
  <2>4. ASSUME NEW t \in Txn, txn[t].cb = "cas_write_cb", txn[t].seid = s, txn'[t].res = "none"
        PROVE  FALSE
    <3>1. Creation(txn[t].cmd, s)
      BY <2>4 DEF HistoryInv, TxnOK
    <3>2. Creates(txn[t].cmd, s)
      BY <3>1, CreationFields DEF Creates
    <3>3. txn'[t].cmd = txn[t].cmd
      BY DEF SessRuns
    <3> QED
      BY <2>1, <2>4, <3>2, <3>3 DEF BeingCreated, Creates
  <2>5. Created(s)
    BY <2>1, <2>3, <2>4 DEF Created, BeingCreated, Creates
  <2>6. regOf[s] = [phase |-> "fresh", mods |-> << >>]
    BY <1>1, <2>1, RegistryOf DEF Fresh
  <2>7. regOf'[s] = [phase |-> "pending", mods |-> << >>]
    BY <1>1, <2>3, RegistryOfNext
  <2>8. regOf' = [regOf EXCEPT ![s] = [phase |-> "pending", mods |-> << >>]]
    BY <1>5, <2>7
  <2>9. Registry!Create(s)
    BY <2>6, <2>8 DEF Registry!Create, Registry!Become, Registry!Session
  <2> QED
    BY <1>1, <1>3, <1>7, <2>5, <2>9 DEF Registry!RegNext
<1>8. ASSUME ~Creates(c, s)
      PROVE  /\ Fresh(s)' <=> Fresh(s)
             /\ sess[s].ver # 0 => ~Fresh(s)
  <2>1. BeingCreated(s)' <=> BeingCreated(s)
    BY <1>1, <1>8 DEF SessRuns
  <2> QED
    BY <1>0, <1>1, <2>1, BeingCreatedAbsent DEF Fresh, AbsentIsEmpty
<1>9. ASSUME sess[s].ver # 0
      PROVE  /\ regOf[s] = [phase |-> IF sess[s].ttl THEN "pending" ELSE "confirmed",
                            mods |-> sess[s].ctx.mods]
             /\ regOf[s].phase \in {"pending", "confirmed"}
             /\ regOf[s].mods = sess[s].ctx.mods
  <2>1. regOf[s] = [phase |-> IF sess[s].ttl THEN "pending" ELSE "confirmed",
                    mods |-> sess[s].ctx.mods]
    BY <1>1, <1>9, RegistryOf
  <2> QED
    BY <2>1
<1>10. CASE c.op = "CAS" /\ c.ver # 0 /\ sess[s].ver = c.ver
  <2>1. /\ UpdateOK(c) /\ ~c.ttl
    BY <1>0, <1>10 DEF SessRuns, CommandOK
  <2>2. sess'[s] = [ver |-> c.ver + 1, ctx |-> c.ctx, ttl |-> sess[s].ttl \/ c.ttl]
    BY <1>2, <1>10, RecordAfter
  <2>3. /\ sess'[s].ver = sess[s].ver + 1 /\ sess'[s].ctx = c.ctx /\ sess'[s].ttl = sess[s].ttl
        /\ sess'[s].ver # 0
    <3>1. PICK b : b = (sess[s].ttl \/ c.ttl)
      OBVIOUS
    <3>2. sess'[s] = [ver |-> c.ver + 1, ctx |-> c.ctx, ttl |-> b] /\ b = sess[s].ttl
      BY <1>1, <2>1, <2>2, <3>1
    <3> QED
      BY <1>1, <1>10, <3>2
  <2>4. Updated(s)
    BY <1>10, <2>1, <2>3 DEF Updated, UpdateOK
  <2>5. regOf'[s] = [phase |-> regOf[s].phase, mods |-> c.ctx.mods]
    <3>1. regOf'[s] = [phase |-> IF sess[s].ttl THEN "pending" ELSE "confirmed",
                       mods |-> c.ctx.mods]
      BY <1>1, <2>3, RegistryOfNext
    <3>2. regOf[s].phase = IF sess[s].ttl THEN "pending" ELSE "confirmed"
      BY <1>9, <1>10
    <3> QED
      BY <3>1, <3>2
  <2>6. regOf' = [regOf EXCEPT ![s] = [phase |-> regOf[s].phase, mods |-> c.ctx.mods]]
    BY <1>5, <2>5
  <2>7. Registry!Exists(s) /\ regOf[s].mods = sess[s].ctx.mods
    BY <1>9, <1>10 DEF Registry!Exists
  <2>8. CASE \E m \in ModReq : c.ctx.mods = Append(sess[s].ctx.mods, m)
    <3>1. PICK m \in ModReq : c.ctx.mods = Append(sess[s].ctx.mods, m)
      BY <2>8
    <3>2. Registry!Apply(s, m)
      BY <2>6, <2>7, <3>1 DEF Registry!Apply, Registry!Become, Registry!Session
    <3> QED
      BY <1>1, <1>3, <1>10, <2>3, <2>4, <3>2 DEF Registry!RegNext
  <2>9. CASE /\ sess[s].ctx.mods # << >>
             /\ c.ctx.mods = SubSeq(sess[s].ctx.mods, 1, Len(sess[s].ctx.mods) - 1)
    <3>1. Registry!Undo(s)
      BY <2>6, <2>7, <2>9 DEF Registry!Undo, Registry!Become, Registry!Session
    <3> QED
      BY <1>1, <1>3, <1>10, <2>3, <2>4, <3>1 DEF Registry!RegNext
  <2> QED
    BY <1>10, <2>1, <2>8, <2>9 DEF UpdateOK
<1>11. CASE c.op = "CAS" /\ c.ver # 0 /\ sess[s].ver # c.ver
  <2>1. sess'[s] = sess[s] /\ SessResult(sess[s], c) # "OK"
    BY <1>2, <1>11, RecordAfter
  <2>2. ~Creates(c, s)
    BY <1>11 DEF Creates
  <2> QED
    BY <1>3, <1>6, <1>8, <1>11, <2>1, <2>2
<1>12. CASE c.op = "DEL"
  <2>1. ~Creates(c, s)
    BY <1>12 DEF Creates
  <2>2. CASE sess'[s] = sess[s] /\ SessResult(sess[s], c) # "OK"
    BY <1>3, <1>6, <1>8, <1>12, <2>1, <2>2
  <2>3. CASE sess[s].ver # 0 /\ sess'[s] = NoSession
    <3>1. sess'[s].ver = 0 /\ ~Fresh(s)'
      BY <1>8, <2>1, <2>3 DEF NoSession
    <3>2. regOf'[s] = [phase |-> "gone", mods |-> << >>]
      BY <1>1, <3>1, RegistryOfNext
    <3>3. regOf' = [regOf EXCEPT ![s] = [phase |-> "gone", mods |-> << >>]]
      BY <1>5, <3>2
    <3>4. Registry!Remove(s)
      BY <1>9, <2>3, <3>3
      DEF Registry!Remove, Registry!Exists, Registry!Become, Registry!Session
    <3> QED
      BY <1>1, <1>3, <1>12, <2>3, <3>4 DEF Registry!RegNext
  <2> QED
    BY <1>2, <1>12, <2>2, <2>3, RecordAfter
<1>13. CASE c.op = "PERSIST" /\ sess'[s] = sess[s]
  <2>1. ~Creates(c, s)
    BY <1>13 DEF Creates
  <2> QED
    BY <1>3, <1>6, <1>8, <1>13, <2>1
<1>14. CASE c.op = "PERSIST" /\ sess'[s] = SessEffect(sess[s], c)
  <2>1. sess'[s] = [sess[s] EXCEPT !.ttl = FALSE] /\ sess[s] \in SessRecord
    BY <1>1, <1>14, RecordAfter
  <2>2. /\ sess'[s].ver = sess[s].ver /\ sess'[s].ctx = sess[s].ctx /\ ~sess'[s].ttl
        /\ ~sess[s].ttl => sess'[s] = sess[s]
    BY <2>1 DEF SessRecord
  <2>3. sess[s].ver = 0 => ~sess[s].ttl
    BY <1>0, <1>1 DEF AbsentIsEmpty, NoSession
  <2>4. ~Creates(c, s)
    BY <1>14 DEF Creates
  <2>5. CASE ~sess[s].ttl
    BY <1>3, <1>6, <1>8, <1>14, <2>2, <2>4, <2>5
  <2>6. CASE sess[s].ttl
    <3>1. sess[s].ver # 0 /\ Kept(s)
      BY <2>2, <2>3, <2>6 DEF Kept
    <3>2. regOf[s] = [phase |-> "pending", mods |-> sess[s].ctx.mods]
      BY <1>9, <2>6, <3>1
    <3>3. regOf'[s] = [phase |-> "confirmed", mods |-> sess[s].ctx.mods]
      BY <1>1, <2>2, <3>1, RegistryOfNext
    <3>4. regOf' = [regOf EXCEPT ![s] = [phase |-> "confirmed", mods |-> sess[s].ctx.mods]]
      BY <1>5, <3>3
    <3>5. Registry!Confirm(s)
      BY <3>2, <3>4 DEF Registry!Confirm, Registry!Become, Registry!Session
    <3> QED
      BY <1>1, <1>3, <1>14, <3>1, <3>5 DEF Registry!RegNext
  <2> QED
    BY <2>5, <2>6
<1> QED
  BY <1>0, <1>2, <1>7, <1>10, <1>11, <1>12, <1>13, <1>14 DEF SessOp

-----------------------------------------------------------------------------
(* Every step of Redis, of the VDP and of time is an Effect, and a step of *)
(* the registry.                                                           *)

(* A transaction that waits for the write that creates session s.          *)
LEMMA CreatorFacts ==
  ASSUME DurabilityInv, HistoryInv, NEW t \in Txn, NEW s, Creates(txn[t].cmd, s)
  PROVE  /\ txn[t].cb = "cas_write_cb" /\ txn[t].seid = s /\ s \in Seid
         /\ Establishing(t, s) /\ Creation(txn[t].cmd, s)
         /\ txn[t].res = "none" => sess[s].ver = 0
<1>0. TxnOK(t) /\ Shape(txn[t])
  BY DEF HistoryInv, DurabilityInv, FlowShape
<1>1. txn[t].cb = "cas_write_cb"
  BY <1>0 DEF TxnOK, Creates
<1>2. /\ Creation(txn[t].cmd, txn[t].seid) /\ txn[t].seid \in Seid
      /\ txn[t].res = "none" => sess[txn[t].seid].ver = 0
  BY <1>0, <1>1 DEF TxnOK, Shape, EstWait
<1>3. txn[t].seid = s
  BY <1>2, CreationFields DEF Creates
<1> QED
  BY <1>1, <1>2, <1>3 DEF Establishing, EstWait

(* A write left behind that creates session s is the last one that does.   *)
LEMMA LeftCreation ==
  ASSUME DurabilityInv, HistoryInv, NEW c \in bg, NEW s, Creates(c, s),
         txn' = txn, bg' = bg \ {c}
  PROVE  /\ s \in seidUsed /\ s \notin AcceptedSeids /\ sess[s].ver = 0 /\ Creation(c, s)
         /\ BeingCreated(s) /\ ~BeingCreated(s)'
<1>1. /\ Abandoned(s) /\ Creation(c, s) /\ sess[s].ver = 0
      /\ \A d \in bg : Creates(d, s) => d = c
  BY DEF HistoryInv, LeftOK, Creates
<1>2. \A t \in Txn : ~Creates(txn[t].cmd, s)
  BY <1>1, CreatorFacts DEF Abandoned
<1>3. \A d \in bg' : ~Creates(d, s)
  BY <1>1
<1>4. ~BeingCreated(s)'
  BY <1>2, <1>3 DEF BeingCreated, Creates
<1> QED
  BY <1>1, <1>4 DEF Abandoned, BeingCreated

(* A transaction gets an answer: what it waits for is no longer under way. *)
LEMMA AnswerFields ==
  ASSUME DurabilityInv, NEW t \in Txn, NEW r \in Result,
         txn' = [txn EXCEPT ![t] = [@ EXCEPT !.res = r]]
  PROVE  /\ \A u \in Txn : u # t => txn'[u] = txn[u]
         /\ txn'[t].st = txn[t].st /\ txn'[t].cb = txn[t].cb /\ txn'[t].req = txn[t].req
         /\ txn'[t].seid = txn[t].seid /\ txn'[t].ver = txn[t].ver
         /\ txn'[t].impl = txn[t].impl /\ txn'[t].cmd = txn[t].cmd /\ txn'[t].res = r
<1>1. txn[t] \in TxnRecord /\ txn \in [Txn -> TxnRecord]
  BY DEF DurabilityInv, TypeOK
<1>2. txn'[t] = [txn[t] EXCEPT !.res = r] /\ \A u \in Txn : u # t => txn'[u] = txn[u]
  BY <1>1
<1> QED
  BY <1>1, <1>2 DEF TxnRecord

(* SessExec: Redis executes the command a transaction waits for.           *)
LEMMA SessExecEffect ==
  ASSUME DurabilityInv, HistoryInv, NEW t \in Txn, SessExec(t)
  PROVE  Effect /\ (Registry!RegNext \/ regOf' = regOf)
<1>1. PICK c : c = txn[t].cmd
  OBVIOUS
<1>2. PICK r : r = SessResult(sess[c.seid], c)
  OBVIOUS
<1>3. /\ c.op \in SessOp /\ txn[t].res = "none"
      /\ SessRun(c)
      /\ txn' = [txn EXCEPT ![t] = [@ EXCEPT !.res = r]]
      /\ vdp' = vdp /\ bg' = bg /\ tx' = tx /\ seidUsed' = seidUsed
  BY <1>1, <1>2 DEF SessExec, idVars
<1>4. /\ txn[t] \in TxnRecord /\ Shape(txn[t]) /\ c \in Command /\ CommandOK(c)
  BY <1>1, OwnFacts DEF TxnRecord
<1>5. /\ c.seid \in Seid /\ sess[c.seid] \in SessRecord
      /\ (sess[c.seid].ver # 0 => sess[c.seid].ctx \in Ctx)
  BY <1>3, <1>4 DEF CommandOK, DurabilityInv, TypeOK, RecordHasCtx
<1>6. r \in {"OK", "CONFLICT", "GONE"} /\ r \in Result
  BY <1>2, <1>3, <1>4, <1>5, EffectFacts DEF Result
<1>7. /\ \A u \in Txn : u # t => txn'[u] = txn[u]
      /\ txn'[t].st = txn[t].st /\ txn'[t].cb = txn[t].cb /\ txn'[t].req = txn[t].req
      /\ txn'[t].seid = txn[t].seid /\ txn'[t].ver = txn[t].ver
      /\ txn'[t].impl = txn[t].impl /\ txn'[t].cmd = txn[t].cmd /\ txn'[t].res = r
  BY <1>3, <1>6, AnswerFields
<1>8. \A u \in Txn : txn'[u].cmd = txn[u].cmd /\ (txn'[u].res = "none" <=> u # t /\ txn[u].res = "none")
  BY <1>6, <1>7
<1>9. \A q \in Seid : ~Creates(c, q) => (BeingCreated(q)' <=> BeingCreated(q))
  <2>1. ASSUME NEW q \in Seid, ~Creates(c, q), BeingCreated(q)' PROVE BeingCreated(q)
    BY <1>3, <1>8, <2>1 DEF BeingCreated, Creates
  <2>2. ASSUME NEW q \in Seid, ~Creates(c, q), BeingCreated(q) PROVE BeingCreated(q)'
    BY <1>1, <1>3, <1>8, <2>2 DEF BeingCreated, Creates
  <2> QED
    BY <2>1, <2>2
<1>10. ASSUME c.op = "CAS" /\ c.ver = 0
       PROVE  /\ Creation(c, c.seid) /\ sess[c.seid].ver = 0
              /\ c.seid \in seidUsed /\ c.seid \notin AcceptedSeids
              /\ BeingCreated(c.seid) /\ ~BeingCreated(c.seid)'
  <2>1. Creates(c, c.seid)
    BY <1>10 DEF Creates
  <2>2. Establishing(t, c.seid) /\ Creation(c, c.seid) /\ sess[c.seid].ver = 0
    BY <1>1, <1>3, <2>1, CreatorFacts
  <2>3. /\ c.seid \in seidUsed /\ c.seid \notin AcceptedSeids
        /\ \A u \in Txn : Establishing(u, c.seid) => u = t
    BY <1>5, <2>2 DEF DurabilityInv, SeidOnce
  <2>4. \A u \in Txn : Creates(txn[u].cmd, c.seid) => u = t
    BY <2>3, CreatorFacts
  <2>5. \A d \in bg : ~Creates(d, c.seid)
    BY <2>2 DEF HistoryInv, LeftOK, Creates, Abandoned
  <2>6. ~BeingCreated(c.seid)'
    BY <1>3, <1>8, <2>4, <2>5 DEF BeingCreated, Creates
  <2>7. BeingCreated(c.seid)
    BY <1>1, <1>3, <2>1 DEF BeingCreated
  <2> QED
    BY <2>2, <2>3, <2>6, <2>7
<1>11. c.op = "CAS" /\ c.ver # 0 => UpdateOK(c)
  BY <1>1, <1>3 DEF HistoryInv, WriteOK
<1>12. SessRuns(c)
  BY <1>3, <1>4, <1>8, <1>9, <1>10, <1>11 DEF SessRuns
<1>13. /\ \A s \in Seid : Kept(s) \/ sess'[s] = NoSession \/ Created(s) \/ Updated(s)
       /\ c.op = "CAS" /\ c.ver # 0 /\ r = "OK" =>
            /\ Updated(c.seid) /\ sess[c.seid].ver = c.ver /\ sess'[c.seid].ctx = c.ctx
       /\ c.op = "DEL" /\ r = "OK" => sess'[c.seid] = NoSession
       /\ Registry!RegNext \/ regOf' = regOf
  BY <1>2, <1>12, SessRunsEffect
<1>14. ASSUME txn[t].cb = "mod_cas_cb", r = "OK"
       PROVE  /\ Updated(txn[t].seid) /\ sess[txn[t].seid].ver = txn[t].ver
              /\ sess'[txn[t].seid].ctx.mods = txn[t].cmd.ctx.mods
  <2>1. PICK ctx : ctx = c.ctx
    OBVIOUS
  <2>2. c = v_sess_cas_write(txn[t].seid, txn[t].ver, ctx, FALSE) /\ txn[t].ver # 0
    BY <1>1, <1>14, <2>1 DEF HistoryInv, ModOK
  <2>3. c.op = "CAS" /\ c.seid = txn[t].seid /\ c.ver = txn[t].ver
    BY <2>2 DEF v_sess_cas_write
  <2> QED
    BY <1>1, <1>13, <1>14, <2>2, <2>3
<1>15. txn[t].cb = "del_delete_cb" /\ r = "OK" => sess'[txn[t].seid].ver = 0
  <2>1. txn[t].cb = "del_delete_cb" => c.op = "DEL" /\ c.seid = txn[t].seid
    BY <1>1, <1>3, IdleFacts DEF HistoryInv, TxnOK, DelCb, SessOp
  <2> QED
    BY <1>13, <2>1 DEF NoSession
<1>16. Answered(t)
  <2>1. txn[t].cmd # NoCmd
    BY <1>1, <1>3, IdleFacts DEF SessOp
  <2> QED
    BY <1>3, <1>6, <1>7, <1>14, <1>15, <2>1 DEF Answered
<1>17. Effect
  BY <1>3, <1>7, <1>13, <1>16 DEF Effect
<1> QED
  BY <1>13, <1>17

(* The registry stays when the records do and what is being created does.  *)
LEMMA RegistryKept ==
  ASSUME sess' = sess, seidUsed' = seidUsed,
         \A q \in Seid : BeingCreated(q)' <=> BeingCreated(q)
  PROVE  regOf' = regOf
<1>1. \A q \in Seid : Fresh(q)' <=> Fresh(q)
  BY DEF Fresh
<1> QED
  BY <1>1, EntryKept, RegistryUpdate

(* The VDP does not bring back the rule of a session the SMF knows.        *)
LEMMA VdpRuns ==
  ASSUME DurabilityInv, NEW c, c.op \in VdpOp,
         c.op = "VDP_CREATE" => c.seid \notin AcceptedSeids,
         vdp' = [vdp EXCEPT ![c.seid] = VdpEffect(@, c)]
  PROVE  /\ \A s \in AcceptedSeids : vdp[s] = NULL => vdp'[s] = NULL
         /\ c.op = "VDP_DELETE" /\ c.seid \in Seid => vdp'[c.seid] = NULL
<1>1. AcceptedSeids \subseteq Seid /\ vdp \in [Seid -> Ctx \cup {NULL}]
  BY DEF DurabilityInv, SeidOnce, TypeOK
<1>2. \A s \in Seid : vdp'[s] = IF s = c.seid THEN VdpEffect(vdp[s], c) ELSE vdp[s]
  BY <1>1
<1> QED
  BY <1>1, <1>2 DEF VdpEffect, VdpOp

(* VdpExec: the VDP decides on the command a transaction waits for.        *)
LEMMA VdpExecEffect ==
  ASSUME DurabilityInv, HistoryInv, NEW t \in Txn, VdpExec(t)
  PROVE  Effect /\ (Registry!RegNext \/ regOf' = regOf)
<1>1. PICK c : c = txn[t].cmd
  OBVIOUS
<1>2. /\ c.op \in VdpOp /\ txn[t].res = "none"
      /\ sess' = sess /\ bg' = bg /\ tx' = tx /\ seidUsed' = seidUsed
  BY <1>1 DEF VdpExec, redisVars, idVars
<1>3. PICK r \in {"ACCEPT", "REJECT"} :
        /\ txn' = [txn EXCEPT ![t] = [@ EXCEPT !.res = r]]
        /\ \/ vdp' = [vdp EXCEPT ![c.seid] = VdpEffect(@, c)]
           \/ vdp' = vdp /\ r = "REJECT"
  BY <1>1 DEF VdpExec, VdpAnswer
<1>4. r \in Result
  BY DEF Result
<1>5. /\ \A u \in Txn : u # t => txn'[u] = txn[u]
      /\ txn'[t].st = txn[t].st /\ txn'[t].cb = txn[t].cb /\ txn'[t].req = txn[t].req
      /\ txn'[t].seid = txn[t].seid /\ txn'[t].ver = txn[t].ver
      /\ txn'[t].impl = txn[t].impl /\ txn'[t].cmd = txn[t].cmd /\ txn'[t].res = r
  BY <1>3, <1>4, AnswerFields
<1>6. TxnOK(t) /\ Shape(txn[t]) /\ SeidOnce
  BY DEF HistoryInv, DurabilityInv, FlowShape
<1>7. c.op = "VDP_CREATE" => c.seid \notin AcceptedSeids
  BY <1>1, <1>6 DEF TxnOK, Shape, SeidOnce, Establishing, EstWait
<1>8. \A s \in AcceptedSeids : vdp[s] = NULL => vdp'[s] = NULL
  BY <1>2, <1>3, <1>7, VdpRuns
<1>9. txn[t].cmd # NoCmd
  BY <1>1, <1>2, IdleFacts DEF VdpOp
<1>10. ASSUME txn[t].cb = "del_vdp_cb", r = "ACCEPT" PROVE vdp'[txn[t].seid] = NULL
  <2>1. c.op = "VDP_DELETE" /\ c.seid = txn[t].seid /\ c.seid \in Seid
    BY <1>1, <1>6, <1>9, <1>10 DEF TxnOK, Shape, DelCb
  <2> QED
    BY <1>2, <1>3, <1>7, <1>10, <2>1, VdpRuns
<1>11. Answered(t)
  BY <1>2, <1>3, <1>5, <1>9, <1>10 DEF Answered
<1>12. Effect
  BY <1>2, <1>5, <1>8, <1>11 DEF Effect, Kept
<1>13. \A q \in Seid : BeingCreated(q)' <=> BeingCreated(q)
  <2>1. ~(c.op = "CAS")
    BY <1>2 DEF VdpOp
  <2>2. \A u \in Txn : txn'[u].cmd = txn[u].cmd /\ (u # t => txn'[u] = txn[u])
    BY <1>5
  <2>3. \A u \in Txn : \A q : (txn'[u].res = "none" /\ Creates(txn[u].cmd, q))
                              <=> (txn[u].res = "none" /\ Creates(txn[u].cmd, q))
    BY <1>1, <2>1, <2>2 DEF Creates
  <2> QED
    BY <1>2, <2>2, <2>3 DEF BeingCreated, Creates
<1> QED
  BY <1>2, <1>12, <1>13, RegistryKept

(* BgExec: a command that nobody waits for takes effect.                   *)
LEMMA BgExecEffect ==
  ASSUME DurabilityInv, HistoryInv, NEW c \in bg, BgExec(c)
  PROVE  Effect /\ (Registry!RegNext \/ regOf' = regOf)
<1>1. /\ bg' = bg \ {c} /\ txn' = txn /\ tx' = tx /\ seidUsed' = seidUsed
  BY DEF BgExec, idVars
<1>2. c \in Command /\ CommandOK(c) /\ LeftOK(c)
  BY DEF DurabilityInv, HistoryInv, TypeOK, CommandsOK
<1>3. ASSUME NEW q \in Seid, ~Creates(c, q) PROVE BeingCreated(q)' <=> BeingCreated(q)
  BY <1>1, <1>3 DEF BeingCreated, Creates
<1>4. CASE c.op \in SessOp /\ vdp' = vdp /\ SessRun(c)
  <2>1. c.op = "CAS" /\ c.ver = 0 => Creates(c, c.seid)
    BY DEF Creates
  <2>2. ASSUME c.op = "CAS" /\ c.ver = 0
        PROVE  /\ Creation(c, c.seid) /\ sess[c.seid].ver = 0
               /\ c.seid \in seidUsed /\ c.seid \notin AcceptedSeids
               /\ BeingCreated(c.seid) /\ ~BeingCreated(c.seid)'
    BY <1>1, <2>1, <2>2, LeftCreation
  <2>3. c.op = "CAS" /\ c.ver # 0 => UpdateOK(c)
    BY <1>2 DEF LeftOK
  <2>4. SessRuns(c)
    BY <1>1, <1>2, <1>3, <1>4, <2>2, <2>3 DEF SessRuns
  <2>5. /\ \A s \in Seid : Kept(s) \/ sess'[s] = NoSession \/ Created(s) \/ Updated(s)
        /\ Registry!RegNext \/ regOf' = regOf
    BY <2>4, SessRunsEffect
  <2> QED
    BY <1>1, <1>4, <2>5 DEF Effect
<1>5. CASE /\ c.op \in VdpOp /\ sess' = sess
           /\ vdp' = [vdp EXCEPT ![c.seid] = VdpEffect(@, c)]
  <2>1. c.op = "VDP_CREATE" => c.seid \notin AcceptedSeids
    BY <1>2 DEF LeftOK, Abandoned
  <2>2. \A s \in AcceptedSeids : vdp[s] = NULL => vdp'[s] = NULL
    BY <1>5, <2>1, VdpRuns
  <2>3. Effect
    BY <1>1, <1>5, <2>2 DEF Effect, Kept
  <2>4. \A q \in Seid : ~Creates(c, q)
    BY <1>5 DEF Creates, VdpOp
  <2> QED
    BY <1>1, <1>3, <1>5, <2>3, <2>4, RegistryKept
<1> QED
  BY <1>4, <1>5 DEF BgExec

(* BgLost: the loss of a write that would have created a session burns its *)
(* SEID.                                                                   *)
LEMMA BgLostEffect ==
  ASSUME DurabilityInv, HistoryInv, BgLost
  PROVE  Effect /\ (Registry!RegNext \/ regOf' = regOf)
<1>1. /\ txn' = txn /\ sess' = sess /\ vdp' = vdp /\ seidUsed' = seidUsed /\ tx' = tx
      /\ bg' \subseteq bg
  BY DEF BgLost, redisVars, idVars
<1>2. Effect
  BY <1>1 DEF Effect, Kept
<1>3. CASE bg' = bg
  <2>1. \A q \in Seid : BeingCreated(q)' <=> BeingCreated(q)
    BY <1>1, <1>3 DEF BeingCreated, Creates
  <2> QED
    BY <1>1, <1>2, <2>1, RegistryKept
<1>4. ASSUME NEW c \in bg, bg' = bg \ {c} PROVE Registry!RegNext \/ regOf' = regOf
  <2>1. ASSUME NEW q \in Seid, ~Creates(c, q) PROVE BeingCreated(q)' <=> BeingCreated(q)
    BY <1>1, <1>4, <2>1 DEF BeingCreated, Creates
  <2>2. CASE \A q \in Seid : ~Creates(c, q)
    BY <1>1, <2>1, <2>2, RegistryKept
  <2>3. ASSUME NEW s \in Seid, Creates(c, s) PROVE Registry!RegNext
    <3>1. /\ s \in seidUsed /\ sess[s].ver = 0 /\ BeingCreated(s) /\ ~BeingCreated(s)'
      BY <1>1, <1>4, <2>3, LeftCreation
    <3>2. \A q \in Seid : q # s => (Fresh(q)' <=> Fresh(q))
      BY <1>1, <2>1, <2>3 DEF Fresh, Creates
    <3>3. \A q \in Seid : q # s => regOf'[q] = regOf[q]
      BY <1>1, <3>2, EntryKept
    <3>4. regOf[s] = [phase |-> "fresh", mods |-> << >>]
      BY <3>1, RegistryOf DEF Fresh
    <3>5. regOf'[s] = [phase |-> "gone", mods |-> << >>]
      BY <1>1, <3>1, RegistryOfNext DEF Fresh
    <3>6. regOf' = [regOf EXCEPT ![s] = [phase |-> "gone", mods |-> << >>]]
      BY <3>3, <3>5, RegistryUpdate
    <3>7. Registry!Burn(s)
      BY <3>4, <3>6 DEF Registry!Burn, Registry!Become, Registry!Session
    <3> QED
      BY <3>7 DEF Registry!RegNext
  <2> QED
    BY <2>2, <2>3
<1> QED
  BY <1>2, <1>3, <1>4 DEF BgLost

(* PendingExpires: the TTL removes an unconfirmed session for good.        *)
LEMMA PendingExpiresEffect ==
  ASSUME DurabilityInv, HistoryInv, NEW s \in Seid, PendingExpires(s)
  PROVE  Effect /\ (Registry!RegNext \/ regOf' = regOf)
<1>1. /\ sess[s].ttl /\ sess' = [sess EXCEPT ![s] = NoSession]
      /\ txn' = txn /\ vdp' = vdp /\ bg' = bg /\ seidUsed' = seidUsed /\ tx' = tx
  BY DEF PendingExpires, idVars
<1>2. sess \in [Seid -> SessRecord] /\ AbsentIsEmpty
  BY DEF DurabilityInv, HistoryInv, TypeOK
<1>3. sess'[s] = NoSession /\ \A q \in Seid : q # s => sess'[q] = sess[q]
  BY <1>1, <1>2
<1>4. Effect
  BY <1>1, <1>3 DEF Effect, Kept
<1>5. sess[s].ver # 0
  BY <1>1, <1>2 DEF AbsentIsEmpty, NoSession
<1>6. \A q \in Seid : Fresh(q)' <=> Fresh(q)
  BY <1>1 DEF Fresh, BeingCreated, Creates
<1>7. ~Fresh(s)
  BY <1>2, <1>5, BeingCreatedAbsent DEF Fresh, AbsentIsEmpty
<1>8. regOf'[s] = [phase |-> "gone", mods |-> << >>]
  <2>1. sess'[s].ver = 0 /\ ~Fresh(s)'
    BY <1>3, <1>6, <1>7 DEF NoSession
  <2> QED
    BY <2>1, RegistryOfNext
<1>9. \A q \in Seid : q # s => regOf'[q] = regOf[q]
  BY <1>3, <1>6, EntryKept
<1>10. regOf' = [regOf EXCEPT ![s] = [phase |-> "gone", mods |-> << >>]]
  BY <1>8, <1>9, RegistryUpdate
<1>11. Registry!Exists(s)
  <2>1. regOf[s] = [phase |-> IF sess[s].ttl THEN "pending" ELSE "confirmed",
                    mods |-> sess[s].ctx.mods]
    BY <1>5, RegistryOf
  <2> QED
    BY <1>1, <2>1 DEF Registry!Exists
<1>12. Registry!Remove(s)
  BY <1>10, <1>11 DEF Registry!Remove, Registry!Become, Registry!Session
<1> QED
  BY <1>4, <1>12 DEF Registry!RegNext

(* The retransmit cache's steps, and no step at all, change none of this.  *)
LEMMA QuietEffect ==
  ASSUME UNCHANGED <<txn, sess, vdp, bg, seidUsed, tx>>
  PROVE  Effect /\ regOf' = regOf
<1>1. Effect
  BY DEF Effect, Kept
<1>2. \A q \in Seid : BeingCreated(q)' <=> BeingCreated(q)
  BY DEF BeingCreated, Creates
<1> QED
  BY <1>1, <1>2, RegistryKept

-----------------------------------------------------------------------------
(* The theorems.                                                           *)

(* Before the first request nothing was written or reported.               *)
LEMMA InitHasHistory == Init => HistoryInv /\ Registry!RegInit
<1> SUFFICES ASSUME Init PROVE HistoryInv /\ Registry!RegInit
  OBVIOUS
<1>1. /\ \A t \in Txn : txn[t] = Idle
      /\ \A s \in Seid : sess[s] = NoSession /\ s \notin seidUsed
      /\ bg = {} /\ tx = {}
  BY DEF Init
<1>2. NoSession.ver = 0
  BY DEF NoSession
<1>3. \A t \in Txn : TxnOK(t) /\ ModOK(t) /\ WriteOK(t)
  BY <1>1, IdleFacts DEF TxnOK, ModOK, WriteOK, ModCb, DelCb
<1>4. AbsentIsEmpty /\ ReportedApplied
  BY <1>1, <1>2 DEF AbsentIsEmpty, ReportedApplied
<1>5. AnswersKnown /\ DeletedIsGone /\ \A c \in bg : LeftOK(c)
  BY <1>1 DEF AnswersKnown, DeletedIsGone
<1>6. HistoryInv
  BY <1>3, <1>4, <1>5 DEF HistoryInv
<1>7. regOf = [s \in Seid |-> [phase |-> "fresh", mods |-> << >>]]
  BY <1>1, <1>2 DEF regOf
<1> QED
  BY <1>6, <1>7 DEF Registry!RegInit, Registry!Session

(* Every callback is a step of transactions.                               *)
LEMMA CallbackMoves ==
  ASSUME DurabilityInv, HistoryInv, NEW t \in Txn,
         EstCallback(t) \/ ModCallback(t) \/ DelCallback(t)
  PROVE  FlowMoves
<1>1. CASE EstCallback(t)
  BY <1>1, RetransLookupMoves, CasWriteMoves, VdpCreateMoves, ConfirmMoves DEF EstCallback
<1>2. CASE ModCallback(t)
  BY <1>2, LookupMoves, ModReadMoves, ModCasMoves, ModVdpMoves, ModCompensateMoves
  DEF ModCallback
<1>3. CASE DelCallback(t)
  BY <1>3, LookupMoves, DelReadMoves, DelVdpMoves, DelDeleteMoves DEF DelCallback
<1> QED
  BY <1>1, <1>2, <1>3

(* Every step is of one of the two sorts, and a step of the registry or    *)
(* none.                                                                   *)
LEMMA EveryStep ==
  ASSUME DurabilityInv, DurabilityInv', HistoryInv, [Next]_vars
  PROVE  HistoryInv' /\ (Registry!RegNext \/ regOf' = regOf)
<1>1. ASSUME FlowMoves PROVE HistoryInv' /\ (Registry!RegNext \/ regOf' = regOf)
  BY <1>1, MovesKeepHistory, MovesImplement
<1>2. Effect => HistoryInv'
  BY EffectKeepsHistory
<1>3. CASE \E p \in Pod, r \in Req : v_flow_handle_msg(p, r)
  BY <1>1, <1>3, HandleMsgMoves
<1>4. ASSUME NEW t \in Txn, Progress(t) \/ timeout_handler(t)
      PROVE  HistoryInv' /\ (Registry!RegNext \/ regOf' = regOf)
  <2>1. CASE EstCallback(t) \/ ModCallback(t) \/ DelCallback(t)
    BY <1>1, <2>1, CallbackMoves
  <2>2. CASE timeout_handler(t)
    BY <1>1, <2>2, TimeoutMoves
  <2>3. CASE SessExec(t) \/ VdpExec(t)
    BY <1>2, <2>3, SessExecEffect, VdpExecEffect
  <2> QED
    BY <1>4, <2>1, <2>2, <2>3 DEF Progress
<1>5. CASE \E c \in bg : BgExec(c)
  BY <1>2, <1>5, BgExecEffect
<1>6. CASE \E s \in Seid : PendingExpires(s)
  BY <1>2, <1>6, PendingExpiresEffect
<1>7. CASE \E p \in Pod : PodCrash(p)
  BY <1>1, <1>7, PodCrashMoves
<1>8. CASE BgLost
  BY <1>2, <1>8, BgLostEffect
<1>9. CASE \/ \E x \in stores : StoreExec(x)
           \/ \E r \in Req : CacheExpires(r)
           \/ UNCHANGED vars
  <2>1. UNCHANGED <<txn, sess, vdp, bg, seidUsed, tx>>
    BY <1>9 DEF StoreExec, CacheExpires, vars, idVars
  <2> QED
    BY <1>2, <2>1, QuietEffect
<1> QED
  BY <1>3, <1>4, <1>5, <1>6, <1>7, <1>8, <1>9 DEF Next

(* The inductive invariant of the session histories: in every reachable    *)
(* state each write that v_sess_cas_write() has under way appends to the   *)
(* record its transaction read, or takes that transaction's own            *)
(* modification back, whatever the other pods do and whatever fails.       *)
THEOREM HistoryHolds == Spec => []HistoryInv
<1>1. Init => HistoryInv
  BY InitHasHistory
<1>2. DurabilityInv /\ DurabilityInv' /\ HistoryInv /\ [Next]_vars => HistoryInv'
  BY EveryStep
<1> QED
  BY <1>1, <1>2, InvariantHolds, PTL DEF Spec

(* mod_cas_cb(), mod_vdp_cb() and compensate(): a modification answered    *)
(* with ACCEPTED is in the session's record for as long as there is one,   *)
(* for any number of concurrent modifications and write-backs.             *)
THEOREM ModificationsKept == Spec => []AcceptedModsApplied
<1>1. DurabilityInv /\ HistoryInv => AcceptedModsApplied
  <2> SUFFICES ASSUME DurabilityInv, HistoryInv, NEW x \in tx, x.cause = "ACCEPTED",
                      x.req \in ModReq, sess[x.seid].ver # 0
               PROVE  x.req \in ModsOf(x.seid)
    BY DEF AcceptedModsApplied
  <2>1. x.seid \in AcceptedSeids /\ x.seid \in Seid
    BY DEF HistoryInv, AnswersKnown, DurabilityInv, SeidOnce, TypeOK
  <2> DEFINE mods == sess[x.seid].ctx.mods
  <2>2. Contains(mods, x.req)
    BY <2>1 DEF HistoryInv, ReportedApplied, Reported
  <2>3. mods \in Seq(ModReq)
    BY <2>1 DEF DurabilityInv, RecordHasCtx, Ctx
  <2> HIDE DEF mods
  <2>4. \E i \in DOMAIN mods : mods[i] = x.req
    BY <2>2, <2>3 DEF Contains
  <2> QED
    BY <2>4 DEF ModsOf, mods
<1> QED
  BY <1>1, InvariantHolds, HistoryHolds, PTL

(* del_vdp_cb() and del_delete_cb(): after a deletion was answered with    *)
(* ACCEPTED neither a record nor a rule of the session ever comes back,    *)
(* not through a late command of a flow that timed out or a pod that died. *)
THEOREM DeletedStaysGone == Spec => []DeletedIsGone
<1>1. HistoryInv => DeletedIsGone
  BY DEF HistoryInv
<1> QED
  BY <1>1, HistoryHolds, PTL

(* The flows implement the session registry: for any number of pods,       *)
(* transactions, sessions and requests and under every failure modelled,   *)
(* what the scripts of v_sess_store.c leave in Redis is one history per    *)
(* session.                                                                *)
THEOREM FlowsImplementRegistry == Spec => ImplementsRegistry
<1>1. Init => Registry!RegInit
  BY InitHasHistory
<1>2. DurabilityInv /\ DurabilityInv' /\ HistoryInv /\ [Next]_vars
        => [Registry!RegNext]_regOf
  BY EveryStep
<1> QED
  BY <1>1, <1>2, InvariantHolds, HistoryHolds, PTL
  DEF Spec, ImplementsRegistry, Registry!RegSpec
=============================================================================
