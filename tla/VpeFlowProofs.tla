--------------------------- MODULE VpeFlowProofs ---------------------------
(***************************************************************************)
(* Proofs about VpeFlow for every value of its constants: type correctness *)
(* and PLAN.md's invariant that every session the SMF believes exists is   *)
(* in Redis.                                                               *)
(*                                                                         *)
(* The callbacks and the timeout handler change one transaction each, in   *)
(* one of a few ways; FlowStep states what all of them have in common, and *)
(* FlowStepKeepsInv shows once that this preserves the invariant.          *)
(***************************************************************************)
EXTENDS VpeFlow, TLAPS

(* A command that a callback of t may leave under way when its record      *)
(* becomes new.                                                            *)
IssuedOK(t, new, c) ==
  \/ c = txn[t].cmd
  \/ c \in Command /\ c.op = "PERSIST" /\ c.seid \in Seid
  \/ /\ c \in Command /\ c.op = "DEL" /\ c.seid \in Seid
     /\ \/ \E d \in DelReq : target[d] = c.seid
        \/ /\ new = Idle /\ c.seid = txn[t].seid
           /\ txn[t].cb \in {"cas_write_cb", "vdp_create_cb"}

(* A reply that a callback of t may send.                                  *)
ReplyOK(t, new, x) ==
  /\ x \in Reply
  /\ x.cause = "ACCEPTED" /\ x.req \in EstReq =>
       /\ new = Idle
       /\ txn[t].cb = "confirm_cb" /\ txn[t].res = "OK" /\ x.seid = txn[t].seid

(* The command of the call that transaction record new waits for.          *)
CallOK(new) ==
  /\ new.cmd.op \in SessOp => new.cmd.seid \in Seid
  /\ new.cmd.op = "CAS" => new.cmd.ctx \in Ctx /\ (new.cmd.ttl => new.cmd.ver = 0)
  /\ new.cmd.op = "DEL" => \E d \in DelReq : target[d] = new.cmd.seid

(* How an establishment comes to wait with record new.                     *)
EstCallOK(t, new) ==
  new.cb \in EstWait =>
    \/ new.cb = "cas_write_cb" /\ new.seid \notin seidUsed /\ new.seid \in seidUsed'
    \/ Establishing(t, new.seid) /\ sess[new.seid].ver # 0

(* What every step of transaction t does.                                  *)
FlowStep(t, new) ==
  /\ txn' = [txn EXCEPT ![t] = new]
  /\ new \in TxnRecord /\ Shape(new) /\ new.res = "none"
  /\ CallOK(new) /\ EstCallOK(t, new)
  /\ \A c \in bg' : c \in bg \/ IssuedOK(t, new, c)
  /\ tx \subseteq tx' /\ \A x \in tx' : x \in tx \/ ReplyOK(t, new, x)
  /\ stores' \subseteq stores \cup tx'
  /\ seidUsed \subseteq seidUsed' /\ seidUsed' \subseteq Seid
  /\ teidAvail' \in [Teid -> Nat] /\ ctxUse' \in [Pod -> Int]
  /\ xmit' = xmit /\ target' = target /\ sess' = sess /\ cache' = cache /\ vdp' = vdp
  /\ refused' = refused

-----------------------------------------------------------------------------
(* Facts about the definitions.                                            *)

(* A SEID is accepted when a positive establishment reply names it.        *)
LEMMA AcceptedIff ==
  \A s : s \in AcceptedSeids <=>
           \E x \in tx : x.cause = "ACCEPTED" /\ x.req \in EstReq /\ x.seid = s
BY DEF AcceptedSeids

(* The same in the next state.                                             *)
LEMMA AcceptedIffNext ==
  \A s : s \in AcceptedSeids' <=>
           \E x \in tx' : x.cause = "ACCEPTED" /\ x.req \in EstReq /\ x.seid = s
BY DEF AcceptedSeids

(* An idle transaction is well-typed and holds nothing.                    *)
LEMMA IdleFacts ==
  /\ NoCmd \in Command /\ Idle \in TxnRecord
  /\ Idle.cb = "none" /\ Idle.res = "none" /\ Idle.cmd = NoCmd /\ Idle.st = "FREE"
  /\ NoCmd.op = "NONE"
BY DEF Idle, NoCmd, TxnRecord, Command, State, Callback, Result

(* The parts of the invariant speak only of the transaction table and its  *)
(* entries; an entry other than t is as before, t's is new.                *)
LEMMA TxnAfter ==
  ASSUME TypeOK, NEW t \in Txn, NEW new \in TxnRecord,
         txn' = [txn EXCEPT ![t] = new]
  PROVE  /\ txn' \in [Txn -> TxnRecord]
         /\ txn'[t] = new
         /\ \A u \in Txn : u # t => txn'[u] = txn[u]
BY DEF TypeOK

-----------------------------------------------------------------------------
(* A step of one transaction preserves the invariant.                      *)

(* One conjunct of the invariant after the other.                          *)
LEMMA FlowStepKeepsInv ==
  ASSUME DurabilityInv, NEW t \in Txn, NEW new, FlowStep(t, new)
  PROVE  DurabilityInv'
<1> USE DEF FlowStep
<1>0. /\ TypeOK /\ CacheRepeats /\ SeidOnce /\ TargetKnown /\ FlowShape
      /\ CommandsOK /\ RecordHasCtx /\ EstRecord /\ AcceptedDurable
  BY DEF DurabilityInv
<1>1. /\ txn' \in [Txn -> TxnRecord]
      /\ txn'[t] = new
      /\ \A u \in Txn : u # t => txn'[u] = txn[u]
  BY <1>0, TxnAfter
<1>2. bg' \subseteq Command
  <2> SUFFICES ASSUME NEW c \in bg', c \notin bg PROVE c \in Command
    BY <1>0 DEF TypeOK
  <2>1. IssuedOK(t, new, c)
    OBVIOUS
  <2>2. txn[t].cmd \in Command
    BY <1>0 DEF TypeOK, TxnRecord
  <2> QED
    BY <2>1, <2>2 DEF IssuedOK
<1>3. tx' \subseteq Reply
  BY <1>0 DEF TypeOK, ReplyOK
<1>4. TypeOK'
  BY <1>0, <1>1, <1>2, <1>3 DEF TypeOK
<1>5. CacheRepeats'
  BY <1>0 DEF CacheRepeats
<1>6. \A s : s \in AcceptedSeids => s \in AcceptedSeids'
  BY AcceptedIff, AcceptedIffNext
<1>7. ASSUME NEW s, s \in AcceptedSeids', s \notin AcceptedSeids
      PROVE  new = Idle /\ txn[t].cb = "confirm_cb" /\ txn[t].res = "OK" /\ s = txn[t].seid
  BY <1>7, AcceptedIff, AcceptedIffNext DEF ReplyOK
<1>8. ASSUME NEW u \in Txn, NEW s, Establishing(u, s)', ~Establishing(u, s)
      PROVE  u = t /\ s \notin seidUsed /\ s \in seidUsed' /\ s = new.seid
  BY <1>8, <1>1 DEF Establishing, EstCallOK
<1>9. SeidOnce'
  <2>1. AcceptedSeids' \subseteq seidUsed'
    <3> SUFFICES ASSUME NEW s, s \in AcceptedSeids', s \notin AcceptedSeids
                 PROVE  s \in seidUsed'
      BY <1>0 DEF SeidOnce
    <3>1. Establishing(t, s) /\ s \in Seid
      BY <1>0, <1>7 DEF Establishing, EstWait, FlowShape, Shape
    <3> QED
      BY <1>0, <3>1 DEF SeidOnce
  <2>2. ASSUME NEW u \in Txn, NEW s \in Seid, Establishing(u, s)'
        PROVE  /\ s \in seidUsed' /\ s \notin AcceptedSeids'
               /\ \A v \in Txn : Establishing(v, s)' => v = u
    <3>1. CASE Establishing(u, s)
      <4>1. s \in seidUsed /\ s \notin AcceptedSeids
            /\ \A v \in Txn : Establishing(v, s) => v = u
        BY <1>0, <3>1 DEF SeidOnce
      <4>2. s \notin AcceptedSeids'
        <5> SUFFICES ASSUME s \in AcceptedSeids' PROVE FALSE
          OBVIOUS
        <5>1. new = Idle /\ Establishing(t, s)
          BY <1>7, <4>1 DEF Establishing, EstWait
        <5>2. u = t
          BY <4>1, <5>1
        <5> QED
          BY <5>1, <5>2, <2>2, <1>1, IdleFacts DEF Establishing, EstWait
      <4> QED
        BY <4>1, <4>2, <1>8
    <3>2. CASE ~Establishing(u, s)
      <4>1. u = t /\ s \notin seidUsed /\ s \in seidUsed'
        BY <1>8, <2>2, <3>2
      <4>2. \A v \in Txn : ~Establishing(v, s)
        BY <1>0, <4>1 DEF SeidOnce
      <4>3. s \notin AcceptedSeids'
        BY <1>0, <1>7, <4>1, <4>2 DEF SeidOnce, Establishing, EstWait
      <4> QED
        BY <4>1, <4>2, <4>3, <1>8
    <3> QED
      BY <3>1, <3>2
  <2> QED
    BY <2>1, <2>2 DEF SeidOnce
<1>10. TargetKnown'
  BY <1>0, <1>6 DEF TargetKnown
<1>11. FlowShape'
  <2>1. \A u \in Txn : Shape(txn'[u])
    BY <1>0, <1>1 DEF FlowShape
  <2> QED
    BY <2>1 DEF FlowShape, Shape
<1>12. ASSUME NEW s \in Seid, Deletable(s)
       PROVE  Deletable(s)'
  <2>1. CASE \E d \in DelReq : target[d] = s
    BY <2>1 DEF Deletable
  <2>2. CASE s \in seidUsed /\ s \notin AcceptedSeids /\ \A u \in Txn : ~Establishing(u, s)
    <3>1. s \in seidUsed'
      BY <2>2
    <3>2. s \notin AcceptedSeids'
      BY <1>7, <2>2 DEF Establishing, EstWait
    <3>3. \A u \in Txn : ~Establishing(u, s)'
      BY <1>8, <2>2
    <3> QED
      BY <3>1, <3>2, <3>3 DEF Deletable
  <2> QED
    BY <1>12, <2>1, <2>2 DEF Deletable
<1>13. ASSUME NEW c \in Command, CommandOK(c)
       PROVE  CommandOK(c)'
  BY <1>12, <1>13 DEF CommandOK, SessOp
<1>14. CommandsOK'
  <2>1. ASSUME NEW u \in Txn PROVE CommandOK(txn[u].cmd)'
    <3>1. CASE u = t
      BY <1>1, <3>1 DEF CallOK, CommandOK, Deletable
    <3>2. CASE u # t
      BY <1>0, <1>1, <1>13, <3>2 DEF CommandsOK, TypeOK, TxnRecord
    <3> QED
      BY <3>1, <3>2
  <2>2. ASSUME NEW c \in bg' PROVE CommandOK(c)'
    <3>1. CASE c \in bg
      BY <1>0, <1>13, <3>1 DEF CommandsOK, TypeOK
    <3>2. CASE c = txn[t].cmd
      BY <1>0, <1>13, <3>2 DEF CommandsOK, TypeOK, TxnRecord
    <3>3. CASE c \in Command /\ c.op = "PERSIST" /\ c.seid \in Seid
      BY <3>3 DEF CommandOK
    <3>4. CASE /\ c \in Command /\ c.op = "DEL" /\ c.seid \in Seid
               /\ \E d \in DelReq : target[d] = c.seid
      BY <3>4 DEF CommandOK, Deletable
    <3>5. CASE /\ c \in Command /\ c.op = "DEL" /\ c.seid \in Seid
               /\ new = Idle /\ c.seid = txn[t].seid
               /\ txn[t].cb \in {"cas_write_cb", "vdp_create_cb"}
      <4>1. Establishing(t, c.seid)
        BY <3>5 DEF Establishing, EstWait
      <4>2. c.seid \in seidUsed' /\ c.seid \notin AcceptedSeids
        BY <1>0, <3>5, <4>1 DEF SeidOnce
      <4>3. c.seid \notin AcceptedSeids'
        BY <1>7, <3>5, <4>2
      <4>4. \A u \in Txn : ~Establishing(u, c.seid)'
        <5> SUFFICES ASSUME NEW u \in Txn, Establishing(u, c.seid)' PROVE FALSE
          OBVIOUS
        <5>1. u # t
          BY <1>1, <3>5, IdleFacts DEF Establishing, EstWait
        <5>2. Establishing(u, c.seid)
          BY <1>1, <5>1 DEF Establishing
        <5> QED
          BY <1>0, <3>5, <4>1, <5>1, <5>2 DEF SeidOnce
      <4> QED
        BY <3>5, <4>2, <4>3, <4>4 DEF CommandOK, Deletable
    <3> QED
      BY <3>1, <3>2, <3>3, <3>4, <3>5 DEF IssuedOK
  <2> QED
    BY <2>1, <2>2 DEF CommandsOK
<1>15. RecordHasCtx'
  BY <1>0 DEF RecordHasCtx
<1>16. EstRecord'
  <2> SUFFICES ASSUME NEW u \in Txn
               PROVE  /\ \/ txn'[u].cb \in {"vdp_create_cb", "confirm_cb"}
                         \/ txn'[u].cb = "cas_write_cb" /\ txn'[u].res = "OK"
                         => sess[txn'[u].seid].ver # 0
                      /\ txn'[u].cb = "confirm_cb" /\ txn'[u].res = "OK"
                         => ~sess[txn'[u].seid].ttl \/ txn'[u].seid \in refused
    BY DEF EstRecord
  <2>1. CASE u = t
    BY <1>0, <1>1, <2>1 DEF EstCallOK, EstWait, SeidOnce
  <2>2. CASE u # t
    BY <1>0, <1>1, <2>2 DEF EstRecord
  <2> QED
    BY <2>1, <2>2
<1>17. AcceptedDurable'
  <2> SUFFICES ASSUME NEW s \in AcceptedSeids', s \notin refused
               PROVE  Confirmed(s)' \/ \E d \in DelReq : target'[d] = s
    BY DEF AcceptedDurable
  <2>1. CASE s \in AcceptedSeids
    BY <1>0, <2>1 DEF AcceptedDurable, Confirmed
  <2>2. CASE s \notin AcceptedSeids
    BY <1>0, <1>7, <2>2 DEF EstRecord, Confirmed
  <2> QED
    BY <2>1, <2>2
<1> QED
  BY <1>4, <1>5, <1>9, <1>10, <1>11, <1>14, <1>15, <1>16, <1>17 DEF DurabilityInv

-----------------------------------------------------------------------------
(* The callbacks and the timeout handler are such steps.                   *)

(* What the invariant says of the transaction that takes the step.         *)
LEMMA OwnFacts ==
  ASSUME DurabilityInv, NEW t \in Txn
  PROVE  /\ txn[t] \in TxnRecord /\ Shape(txn[t]) /\ CommandOK(txn[t].cmd)
         /\ t[1] \in Pod /\ ctxUse \in [Pod -> Int] /\ teidAvail \in [Teid -> Nat]
         /\ seidUsed \subseteq Seid /\ bg \subseteq Command /\ sess \in [Seid -> SessRecord]
BY DEF DurabilityInv, TypeOK, FlowShape, CommandsOK, Txn

(* A call under way when its caller stops waiting for it stays a command   *)
(* that t may leave behind.                                                *)
LEMMA LateOK ==
  ASSUME NEW t, NEW new, NEW c \in Late(t)
  PROVE  IssuedOK(t, new, c)
BY DEF Late, IssuedOK

(* An idle record holds nothing that FlowStep restricts.                   *)
LEMMA IdleStep ==
  ASSUME NEW t
  PROVE  Shape(Idle) /\ CallOK(Idle) /\ EstCallOK(t, Idle)
BY IdleFacts DEF Shape, CallOK, EstCallOK, EstWait, EstCb, ModCb, DelCb, SessOp

(* Contexts given back or taken leave the count an integer.                *)
LEMMA CtxFreeType ==
  ASSUME NEW t \in Txn, ctxUse \in [Pod -> Int], NEW n \in Int,
         CtxFree(t, n) \/ CtxTake(t, n)
  PROVE  ctxUse' \in [Pod -> Int]
BY DEF CtxFree, CtxTake

(* Giving a TEID back leaves the supply well-typed.                        *)
LEMMA TeidFreeType ==
  ASSUME teidAvail \in [Teid -> Nat], NEW d, v_teid_free(d)
  PROVE  teidAvail' \in [Teid -> Nat]
BY DEF v_teid_free

(* A context slot holds no object or one.                                  *)
LEMMA CtxHeldType == \A ptr : CtxHeld(ptr) \in Int
BY DEF CtxHeld

(* finish() is a step to the idle record.                                  *)
LEMMA FinishStep ==
  ASSUME DurabilityInv, NEW t \in Txn, NEW cause \in Cause, NEW freed \in Int, NEW issued,
         finish(t, cause, freed, issued),
         \A c \in issued : IssuedOK(t, Idle, c),
         txn[t].req \in Req,
         cause = "ACCEPTED" /\ txn[t].req \in EstReq =>
           txn[t].cb = "confirm_cb" /\ txn[t].res = "OK",
         seidUsed \subseteq seidUsed', seidUsed' \subseteq Seid,
         teidAvail' \in [Teid -> Nat],
         UNCHANGED <<smfVars, redisVars, vdp>>
  PROVE  FlowStep(t, Idle)
<1>1. ReplyOf(t, cause) \in Reply
  BY OwnFacts DEF ReplyOf, Reply, TxnRecord
<1>2. ReplyOK(t, Idle, ReplyOf(t, cause))
  BY <1>1 DEF ReplyOK, ReplyOf
<1>3. \A x \in tx' : x \in tx \/ ReplyOK(t, Idle, x)
  BY <1>2 DEF finish
<1>4. tx \subseteq tx' /\ stores' \subseteq stores \cup tx'
  BY DEF finish
<1>5. \A c \in bg' : c \in bg \/ IssuedOK(t, Idle, c)
  BY LateOK DEF finish
<1>6. ctxUse' \in [Pod -> Int]
  BY OwnFacts, CtxFreeType, CtxHeldType DEF finish
<1>7. txn' = [txn EXCEPT ![t] = Idle]
  BY DEF finish
<1> QED
  BY <1>3, <1>4, <1>5, <1>6, <1>7, IdleFacts, IdleStep
  DEF FlowStep, smfVars, redisVars

(* The same for a reply other than ACCEPTED that leaves no command behind. *)
LEMMA FailStep ==
  ASSUME DurabilityInv, NEW t \in Txn, NEW cause \in Cause, cause # "ACCEPTED",
         NEW freed \in Int, finish(t, cause, freed, {}),
         txn[t].req \in Req,
         seidUsed \subseteq seidUsed', seidUsed' \subseteq Seid,
         teidAvail' \in [Teid -> Nat],
         UNCHANGED <<smfVars, redisVars, vdp>>
  PROVE  FlowStep(t, Idle)
<1>1. \A c \in {} : IssuedOK(t, Idle, c)
  OBVIOUS
<1> QED
  BY <1>1, FinishStep

(* The failure causes are causes.                                          *)
LEMMA FailCauses ==
  \A cause \in {"REJECTED", "NOT_FOUND", "NO_RESOURCES", "SYSTEM_FAILURE"} :
    cause \in Cause /\ cause # "ACCEPTED"
BY DEF Cause

(* A retransmit-cache hit repeats a reply that was sent before.            *)
LEMMA CacheHitStep ==
  ASSUME DurabilityInv, NEW t \in Txn, txn[t].req \in Req, ReplyFromCache(t),
         UNCHANGED <<smfVars, redisVars, vdp>>
  PROVE  FlowStep(t, Idle)
<1>1. tx' = tx
  BY DEF ReplyFromCache, DurabilityInv, CacheRepeats
<1> QED
  BY <1>1, OwnFacts, IdleFacts, IdleStep
  DEF ReplyFromCache, FlowStep, smfVars, redisVars, idVars

(* The caller keeps the record's type whatever it waits for next.          *)
LEMMA AwaitType ==
  ASSUME NEW rec \in TxnRecord, NEW st \in State, NEW cb \in Callback, NEW cmd \in Command,
         NEW new, new = [rec EXCEPT !.st = st, !.cb = cb, !.cmd = cmd, !.res = "none"]
  PROVE  /\ new \in TxnRecord
         /\ new.st = st /\ new.cb = cb /\ new.cmd = cmd /\ new.res = "none"
         /\ new.req = rec.req /\ new.seid = rec.seid /\ new.ver = rec.ver
         /\ new.impl = rec.impl /\ new.ctx = rec.ctx
BY DEF TxnRecord, Result

(* Await is a step to the record that waits, if what it waits for is in    *)
(* order.                                                                  *)
LEMMA AwaitStep ==
  ASSUME DurabilityInv, NEW t \in Txn, NEW rec \in TxnRecord,
         NEW st \in State, NEW cb \in Callback, NEW cmd \in Command, NEW new,
         Await(t, rec, st, cb, cmd),
         new = [rec EXCEPT !.st = st, !.cb = cb, !.cmd = cmd, !.res = "none"],
         Shape(new), CallOK(new), EstCallOK(t, new),
         \A c \in bg' : c \in bg \/ IssuedOK(t, new, c),
         UNCHANGED <<tx, stores>>,
         seidUsed \subseteq seidUsed', seidUsed' \subseteq Seid,
         teidAvail' \in [Teid -> Nat], ctxUse' \in [Pod -> Int],
         UNCHANGED <<smfVars, redisVars, vdp>>
  PROVE  FlowStep(t, new)
<1>1. new \in TxnRecord /\ new.res = "none"
  BY DEF TxnRecord, Result
<1>2. txn' = [txn EXCEPT ![t] = new]
  BY DEF Await
<1> QED
  BY <1>1, <1>2 DEF FlowStep, smfVars, redisVars

(* The commands the flows issue are commands.                              *)
LEMMA CommandTypes ==
  /\ NoCmd \in Command
  /\ \A s \in Seid, v \in Nat, ctx \in Ctx, p \in BOOLEAN :
       /\ v_sess_cas_write(s, v, ctx, p) \in Command
       /\ v_sess_cas_write(s, v, ctx, p).op = "CAS"
       /\ v_sess_cas_write(s, v, ctx, p).seid = s
       /\ v_sess_cas_write(s, v, ctx, p).ver = v
       /\ v_sess_cas_write(s, v, ctx, p).ctx = ctx
       /\ v_sess_cas_write(s, v, ctx, p).ttl = p
  /\ \A s \in Seid :
       /\ v_sess_confirm(s) \in Command
       /\ v_sess_confirm(s).op = "PERSIST" /\ v_sess_confirm(s).seid = s
  /\ \A s \in Seid, v \in Nat :
       /\ v_sess_delete(s, v) \in Command
       /\ v_sess_delete(s, v).op = "DEL" /\ v_sess_delete(s, v).seid = s
  /\ \A op \in VdpOp, s \in Seid, ctx \in Ctx \cup {NULL} :
       VdpCmd(op, s, ctx) \in Command /\ VdpCmd(op, s, ctx).op = op
<1>1. NoCmd \in Command
  BY IdleFacts
<1>2. ASSUME NEW s \in Seid, NEW v \in Nat, NEW ctx \in Ctx, NEW p \in BOOLEAN
      PROVE  /\ v_sess_cas_write(s, v, ctx, p) \in Command
             /\ v_sess_cas_write(s, v, ctx, p).op = "CAS"
             /\ v_sess_cas_write(s, v, ctx, p).seid = s
             /\ v_sess_cas_write(s, v, ctx, p).ver = v
             /\ v_sess_cas_write(s, v, ctx, p).ctx = ctx
             /\ v_sess_cas_write(s, v, ctx, p).ttl = p
  BY DEF v_sess_cas_write, Command, SessOp
<1>3. ASSUME NEW s \in Seid
      PROVE  /\ v_sess_confirm(s) \in Command
             /\ v_sess_confirm(s).op = "PERSIST" /\ v_sess_confirm(s).seid = s
  BY DEF v_sess_confirm, NoCmd, Command, SessOp
<1>4. ASSUME NEW s \in Seid, NEW v \in Nat
      PROVE  /\ v_sess_delete(s, v) \in Command
             /\ v_sess_delete(s, v).op = "DEL" /\ v_sess_delete(s, v).seid = s
  BY DEF v_sess_delete, NoCmd, Command, SessOp
<1>5. ASSUME NEW op \in VdpOp, NEW s \in Seid, NEW ctx \in Ctx \cup {NULL}
      PROVE  VdpCmd(op, s, ctx) \in Command /\ VdpCmd(op, s, ctx).op = op
  BY DEF VdpCmd, NoCmd, Command
<1> QED
  BY <1>1, <1>2, <1>3, <1>4, <1>5

-----------------------------------------------------------------------------
(* Establishment.                                                          *)

(* What the invariant says of an establishment that waits in EstCb.        *)
LEMMA EstFacts ==
  ASSUME DurabilityInv, NEW t \in Txn, txn[t].cb \in EstCb
  PROVE  /\ txn[t] \in TxnRecord /\ txn[t].req \in EstReq /\ txn[t].req \in Req
         /\ txn[t].cb \in EstWait => txn[t].seid \in Seid
         /\ teidAvail \in [Teid -> Nat] /\ seidUsed \subseteq Seid
BY OwnFacts DEF Shape, Req

(* Taking a TEID on offer leaves the supply well-typed.                    *)
LEMMA TeidTakeType ==
  ASSUME teidAvail \in [Teid -> Nat], NEW d \in v_teid_alloc,
         d # NULL, teidAvail' = [teidAvail EXCEPT ![d] = @ - 1]
  PROVE  teidAvail' \in [Teid -> Nat]
<1>1. d \in Teid /\ teidAvail[d] > 0
  BY DEF v_teid_alloc
<1> QED
  BY <1>1

(* retrans_lookup_cb() is a flow step.                                     *)
LEMMA RetransLookupStep ==
  ASSUME DurabilityInv, NEW t \in Txn, retrans_lookup_cb(t)
  PROVE  \E new : FlowStep(t, new)
<1>0. UNCHANGED <<smfVars, redisVars, vdp>> /\ txn[t].cb = "retrans_lookup_cb"
  BY DEF retrans_lookup_cb
<1>1. /\ txn[t] \in TxnRecord /\ txn[t].req \in EstReq /\ txn[t].req \in Req
      /\ teidAvail \in [Teid -> Nat] /\ seidUsed \subseteq Seid
  BY <1>0, EstFacts DEF EstCb
<1>2. CASE ReplyFromCache(t)
  BY <1>0, <1>1, <1>2, CacheHitStep
<1>3. CASE ~ReplyFromCache(t)
  <2>1. PICK s \in v_seid_alloc, d \in v_teid_alloc :
          /\ seidUsed' = seidUsed \cup ({s} \ {NULL})
          /\ EstNoResources(t, s, d) \/ EstAbort(t, s, d) \/ EstWrite(t, s, d)
    BY <1>3 DEF retrans_lookup_cb
  <2>2. s = NULL \/ (s \in Seid /\ s \notin seidUsed)
    BY <2>1 DEF v_seid_alloc
  <2>3. seidUsed \subseteq seidUsed' /\ seidUsed' \subseteq Seid
    BY <1>1, <2>1, <2>2
  <2>4. CASE EstNoResources(t, s, d)
    <3>1. teidAvail' \in [Teid -> Nat]
      BY <1>1, <2>4, TeidTakeType DEF EstNoResources
    <3>2. finish(t, "NO_RESOURCES", 0, {})
      BY <2>4 DEF EstNoResources
    <3> QED
      BY <1>0, <1>1, <2>3, <3>1, <3>2, FailCauses, FailStep
  <2>5. CASE EstAbort(t, s, d)
    <3>1. teidAvail' \in [Teid -> Nat]
      BY <1>1, <2>5, TeidTakeType DEF EstAbort
    <3>2. finish(t, "SYSTEM_FAILURE", 0, {})
      BY <2>5 DEF EstAbort
    <3> QED
      BY <1>0, <1>1, <2>3, <3>1, <3>2, FailCauses, FailStep
  <2>6. CASE EstWrite(t, s, d)
    <3> DEFINE ctx == [teid |-> d, mods |-> << >>]
               rec == [txn[t] EXCEPT !.seid = s, !.teid = d, !.ctx = ctx]
               cmd == v_sess_cas_write(s, 0, ctx, TRUE)
               new == [rec EXCEPT !.st = "DB_WRITE_WAIT", !.cb = "cas_write_cb",
                                  !.cmd = cmd, !.res = "none"]
    <3>1. s \in Seid /\ s \notin seidUsed /\ s \in seidUsed' /\ d \in Teid
      BY <2>1, <2>2, <2>6 DEF EstWrite, v_teid_alloc
    <3>2. ctx \in Ctx
      BY <3>1 DEF Ctx
    <3>3. rec \in TxnRecord /\ rec.req \in EstReq /\ rec.seid = s
      BY <1>1, <3>1, <3>2 DEF TxnRecord
    <3>4. cmd \in Command /\ cmd.op = "CAS" /\ cmd.seid = s /\ cmd.ver = 0 /\ cmd.ctx = ctx
      <4> HIDE DEF ctx
      <4> QED
        BY <3>1, <3>2 DEF v_sess_cas_write, Command, SessOp
    <3>5. /\ new.st = "DB_WRITE_WAIT" /\ new.cb = "cas_write_cb" /\ new.cmd = cmd
          /\ new.seid = s /\ new.req \in EstReq
      BY <3>3 DEF TxnRecord
    <3>6. teidAvail' \in [Teid -> Nat] /\ ctxUse' \in [Pod -> Int]
      <4>1. d # NULL /\ teidAvail' = [teidAvail EXCEPT ![d] = @ - 1] /\ CtxTake(t, 1)
        BY <2>6 DEF EstWrite
      <4>2. ctxUse' \in [Pod -> Int]
        BY <4>1, OwnFacts, CtxFreeType
      <4> QED
        BY <1>1, <4>1, <4>2, TeidTakeType
    <3>7. Await(t, rec, "DB_WRITE_WAIT", "cas_write_cb", cmd) /\ UNCHANGED <<bg, stores, tx>>
      BY <2>6 DEF EstWrite
    <3>8. Shape(new) /\ CallOK(new) /\ EstCallOK(t, new)
      <4> HIDE DEF new, cmd, ctx, rec
      <4> QED
        BY <3>1, <3>2, <3>4, <3>5
        DEF Shape, CallOK, EstCallOK, EstWait, EstCb, ModCb, DelCb, SessOp
    <3>9. "DB_WRITE_WAIT" \in State /\ "cas_write_cb" \in Callback
      BY DEF State, Callback
    <3>10. FlowStep(t, new)
      <4> HIDE DEF cmd, ctx, rec
      <4> QED
        BY <1>0, <2>3, <3>3, <3>4, <3>6, <3>7, <3>8, <3>9, AwaitStep
    <3> QED
      BY <3>10
  <2> QED
    BY <2>1, <2>4, <2>5, <2>6
<1> QED
  BY <1>2, <1>3

(* cas_write_cb() is a flow step: a rollback deletes the record of a       *)
(* session nobody was told of.                                             *)
LEMMA CasWriteStep ==
  ASSUME DurabilityInv, NEW t \in Txn, cas_write_cb(t)
  PROVE  \E new : FlowStep(t, new)
<1>0. UNCHANGED <<smfVars, redisVars, vdp>> /\ txn[t].cb = "cas_write_cb" /\ seidUsed' = seidUsed
  BY DEF cas_write_cb
<1>1. /\ txn[t] \in TxnRecord /\ txn[t].req \in EstReq /\ txn[t].req \in Req
      /\ txn[t].seid \in Seid
      /\ teidAvail \in [Teid -> Nat] /\ seidUsed \subseteq Seid
  BY <1>0, EstFacts DEF EstCb, EstWait
<1>2. ASSUME v_teid_free(txn[t].teid) PROVE teidAvail' \in [Teid -> Nat]
  BY <1>1, <1>2, TeidFreeType
<1>3. CASE v_teid_free(txn[t].teid) /\ finish(t, "SYSTEM_FAILURE", 0, {})
  BY <1>0, <1>1, <1>2, <1>3, FailCauses, FailStep
<1>4. CASE /\ v_teid_free(txn[t].teid)
           /\ finish(t, "SYSTEM_FAILURE", 0, {v_sess_delete(txn[t].seid, 1)})
  <2>1. IssuedOK(t, Idle, v_sess_delete(txn[t].seid, 1))
    BY <1>0, <1>1, CommandTypes DEF IssuedOK
  <2>2. \A c \in {v_sess_delete(txn[t].seid, 1)} : IssuedOK(t, Idle, c)
    BY <2>1
  <2> QED
    BY <1>0, <1>1, <1>2, <1>4, <2>2, FailCauses, FinishStep
<1>5. CASE /\ Seen(t, "OK", "cas_err")
           /\ Await(t, [txn[t] EXCEPT !.ver = 1], "VDP_WAIT", "vdp_create_cb",
                    VdpCmd("VDP_CREATE", txn[t].seid, txn[t].ctx))
           /\ UNCHANGED <<bg, stores, tx, ctxUse, teidAvail>>
  <2> DEFINE rec == [txn[t] EXCEPT !.ver = 1]
             cmd == VdpCmd("VDP_CREATE", txn[t].seid, txn[t].ctx)
             new == [rec EXCEPT !.st = "VDP_WAIT", !.cb = "vdp_create_cb",
                                !.cmd = cmd, !.res = "none"]
  <2>1. rec \in TxnRecord
    BY <1>1 DEF TxnRecord
  <2>2. cmd \in Command /\ cmd.op = "VDP_CREATE"
    BY <1>1, CommandTypes DEF VdpOp, TxnRecord
  <2>3. /\ new.st = "VDP_WAIT" /\ new.cb = "vdp_create_cb" /\ new.cmd = cmd
        /\ new.seid = txn[t].seid /\ new.req = txn[t].req
    BY <1>1 DEF TxnRecord
  <2>4. txn[t].res = "OK"
    BY <1>5 DEF Seen
  <2>5. Establishing(t, txn[t].seid) /\ sess[txn[t].seid].ver # 0
    BY <1>0, <2>4 DEF DurabilityInv, EstRecord, Establishing, EstWait
  <2>6. Shape(new) /\ CallOK(new) /\ EstCallOK(t, new)
    <3> HIDE DEF new, cmd, rec
    <3> QED
      BY <1>1, <2>2, <2>3, <2>5
      DEF Shape, CallOK, EstCallOK, EstWait, EstCb, ModCb, DelCb, SessOp
  <2>7. "VDP_WAIT" \in State /\ "vdp_create_cb" \in Callback
    BY DEF State, Callback
  <2>8. Await(t, rec, "VDP_WAIT", "vdp_create_cb", cmd)
    BY <1>5
  <2>9. FlowStep(t, new)
    <3> HIDE DEF cmd, rec
    <3> QED
      BY <1>0, <1>1, <1>5, <2>1, <2>2, <2>6, <2>7, <2>8, OwnFacts, AwaitStep
  <2> QED
    BY <2>9
<1> QED
  BY <1>3, <1>4, <1>5 DEF cas_write_cb

(* vdp_create_cb() is a flow step.                                         *)
LEMMA VdpCreateStep ==
  ASSUME DurabilityInv, NEW t \in Txn, vdp_create_cb(t)
  PROVE  \E new : FlowStep(t, new)
<1>0. UNCHANGED <<smfVars, redisVars, vdp>> /\ txn[t].cb = "vdp_create_cb" /\ seidUsed' = seidUsed
  BY DEF vdp_create_cb
<1>1. /\ txn[t] \in TxnRecord /\ txn[t].req \in EstReq /\ txn[t].req \in Req
      /\ txn[t].seid \in Seid /\ txn[t].ver \in Nat
      /\ teidAvail \in [Teid -> Nat] /\ seidUsed \subseteq Seid
  BY <1>0, EstFacts DEF EstCb, EstWait, TxnRecord
<1>2. CASE /\ v_teid_free(txn[t].teid)
           /\ finish(t, "REJECTED", 0, {v_sess_delete(txn[t].seid, txn[t].ver)})
  <2>1. teidAvail' \in [Teid -> Nat]
    BY <1>1, <1>2, TeidFreeType
  <2>2. \A c \in {v_sess_delete(txn[t].seid, txn[t].ver)} : IssuedOK(t, Idle, c)
    BY <1>0, <1>1, CommandTypes DEF IssuedOK
  <2> QED
    BY <1>0, <1>1, <1>2, <2>1, <2>2, FailCauses, FinishStep
<1>3. CASE finish(t, "SYSTEM_FAILURE", 0, {}) /\ UNCHANGED teidAvail
  BY <1>0, <1>1, <1>3, FailCauses, FailStep
<1>4. CASE /\ Await(t, txn[t], "DB_CONFIRM_WAIT", "confirm_cb", v_sess_confirm(txn[t].seid))
           /\ UNCHANGED <<bg, stores, tx, ctxUse, teidAvail>>
  <2> DEFINE cmd == v_sess_confirm(txn[t].seid)
             new == [txn[t] EXCEPT !.st = "DB_CONFIRM_WAIT", !.cb = "confirm_cb",
                                   !.cmd = cmd, !.res = "none"]
  <2>1. cmd \in Command /\ cmd.op = "PERSIST" /\ cmd.seid = txn[t].seid
    BY <1>1, CommandTypes
  <2>2. /\ new.st = "DB_CONFIRM_WAIT" /\ new.cb = "confirm_cb" /\ new.cmd = cmd
        /\ new.seid = txn[t].seid /\ new.req = txn[t].req
    BY <1>1 DEF TxnRecord
  <2>3. Establishing(t, txn[t].seid) /\ sess[txn[t].seid].ver # 0
    BY <1>0 DEF DurabilityInv, EstRecord, Establishing, EstWait
  <2>4. Shape(new) /\ CallOK(new) /\ EstCallOK(t, new)
    <3> HIDE DEF new, cmd
    <3> QED
      BY <1>1, <2>1, <2>2, <2>3
      DEF Shape, CallOK, EstCallOK, EstWait, EstCb, ModCb, DelCb, SessOp
  <2>5. "DB_CONFIRM_WAIT" \in State /\ "confirm_cb" \in Callback
    BY DEF State, Callback
  <2>6. Await(t, txn[t], "DB_CONFIRM_WAIT", "confirm_cb", cmd)
    BY <1>4
  <2>7. FlowStep(t, new)
    <3> HIDE DEF cmd
    <3> QED
      BY <1>0, <1>1, <1>4, <2>1, <2>4, <2>5, <2>6, OwnFacts, AwaitStep
  <2> QED
    BY <2>7
<1> QED
  BY <1>2, <1>3, <1>4 DEF vdp_create_cb

(* confirm_cb() is a flow step: the only one that tells the SMF of a       *)
(* session, and it does so after PERSIST was acknowledged.                 *)
LEMMA ConfirmStep ==
  ASSUME DurabilityInv, NEW t \in Txn, confirm_cb(t)
  PROVE  \E new : FlowStep(t, new)
<1>0. UNCHANGED <<smfVars, redisVars, vdp, idVars>> /\ txn[t].cb = "confirm_cb"
  BY DEF confirm_cb
<1>1. /\ txn[t] \in TxnRecord /\ txn[t].req \in EstReq /\ txn[t].req \in Req
      /\ teidAvail' \in [Teid -> Nat] /\ seidUsed' = seidUsed /\ seidUsed \subseteq Seid
  BY <1>0, EstFacts DEF EstCb, EstWait, idVars
<1>2. CASE Seen(t, "OK", "confirm_err") /\ finish(t, "ACCEPTED", 0, {})
  <2>1. txn[t].res = "OK" /\ "ACCEPTED" \in Cause
    BY <1>2 DEF Seen, Cause
  <2>2. \A c \in {} : IssuedOK(t, Idle, c)
    OBVIOUS
  <2> QED
    BY <1>0, <1>1, <1>2, <2>1, <2>2, FinishStep
<1>3. CASE finish(t, "SYSTEM_FAILURE", 0, {})
  BY <1>0, <1>1, <1>3, FailCauses, FailStep
<1> QED
  BY <1>2, <1>3 DEF confirm_cb

-----------------------------------------------------------------------------
(* Modification and deletion.                                              *)

(* What the invariant says of a modification or a deletion under way.      *)
LEMMA ModDelFacts ==
  ASSUME DurabilityInv, NEW t \in Txn, txn[t].cb \in ModCb \cup DelCb
  PROVE  /\ txn[t] \in TxnRecord /\ txn[t].req \in Req /\ txn[t].req \notin EstReq
         /\ txn[t].seid \in Seid
         /\ teidAvail \in [Teid -> Nat] /\ seidUsed \subseteq Seid
         /\ txn[t].cb \in DelCb =>
              txn[t].req \in DelReq /\ target[txn[t].req] = txn[t].seid
         /\ txn[t].cb \in ModCb => txn[t].req \in ModReq
BY OwnFacts, RequestAssumption DEF Shape, Req

(* A modification or deletion may answer ACCEPTED whenever it likes.       *)
LEMMA AnswerStep ==
  ASSUME DurabilityInv, NEW t \in Txn, txn[t].cb \in ModCb \cup DelCb,
         NEW cause \in Cause, NEW freed \in Int, finish(t, cause, freed, {}),
         seidUsed' = seidUsed, teidAvail' \in [Teid -> Nat],
         UNCHANGED <<smfVars, redisVars, vdp>>
  PROVE  FlowStep(t, Idle)
<1>1. \A c \in {} : IssuedOK(t, Idle, c)
  OBVIOUS
<1> QED
  BY <1>1, ModDelFacts, FinishStep

(* All causes are causes.                                                  *)
LEMMA Causes ==
  /\ "ACCEPTED" \in Cause /\ "REJECTED" \in Cause /\ "NOT_FOUND" \in Cause
  /\ "NO_RESOURCES" \in Cause /\ "SYSTEM_FAILURE" \in Cause
BY DEF Cause

(* A record that waits for no establishment's callback and for no command  *)
(* with an obligation satisfies FlowStep's demands on calls.               *)
LEMMA PlainCall ==
  ASSUME NEW t, NEW new, new.cb \notin EstWait, new.cmd.op \notin SessOp
  PROVE  CallOK(new) /\ EstCallOK(t, new)
BY DEF CallOK, EstCallOK, SessOp

(* mod_start_read() and del_start_read() are flow steps.                   *)
LEMMA StartReadStep ==
  ASSUME DurabilityInv, NEW t \in Txn, NEW rec \in TxnRecord, NEW cb, NEW freed \in Int,
         \/ cb = "mod_read_cb" /\ txn[t].cb \in ModCb
         \/ cb = "del_read_cb" /\ txn[t].cb \in DelCb,
         rec.req = txn[t].req, rec.seid = txn[t].seid,
         StartRead(t, rec, cb, freed),
         seidUsed' = seidUsed, teidAvail' \in [Teid -> Nat],
         UNCHANGED <<smfVars, redisVars, vdp>>
  PROVE  \E new : FlowStep(t, new)
<1>1. CASE /\ Await(t, rec, "DB_READ_WAIT", cb, NoCmd) /\ CtxFree(t, freed)
           /\ UNCHANGED <<bg, stores, tx>>
  <2> DEFINE new == [rec EXCEPT !.st = "DB_READ_WAIT", !.cb = cb, !.cmd = NoCmd, !.res = "none"]
  <2>1. /\ new.st = "DB_READ_WAIT" /\ new.cb = cb /\ new.cmd = NoCmd
        /\ new.seid = rec.seid /\ new.req = rec.req
    BY DEF TxnRecord
  <2>2. "DB_READ_WAIT" \in State /\ cb \in Callback
    BY DEF State, Callback
  <2>3. CallOK(new) /\ EstCallOK(t, new)
    <3>1. new.cb \notin EstWait /\ new.cmd.op \notin SessOp
      BY <2>1, IdleFacts DEF EstWait, SessOp
    <3> QED
      BY <3>1, PlainCall
  <2>4. Shape(new)
    <3> HIDE DEF new
    <3> QED
      BY <2>1, ModDelFacts DEF Shape, EstCb, EstWait, ModCb, DelCb
  <2>5. ctxUse' \in [Pod -> Int]
    BY <1>1, OwnFacts, CtxFreeType
  <2>6. FlowStep(t, new)
    BY <1>1, <2>2, <2>3, <2>4, <2>5, IdleFacts, OwnFacts, AwaitStep
  <2> QED
    BY <2>6
<1>2. CASE finish(t, "SYSTEM_FAILURE", freed + CtxHeld(rec.ctx) - CtxHeld(txn[t].ctx), {})
  <2>1. freed + CtxHeld(rec.ctx) - CtxHeld(txn[t].ctx) \in Int
    BY CtxHeldType
  <2> QED
    BY <1>2, <2>1, Causes, AnswerStep
<1> QED
  BY <1>1, <1>2 DEF StartRead

(* The two lookup callbacks are flow steps.                                *)
LEMMA LookupStep ==
  ASSUME DurabilityInv, NEW t \in Txn,
         \/ mod_retrans_lookup_cb(t)
         \/ del_retrans_lookup_cb(t)
  PROVE  \E new : FlowStep(t, new)
<1>1. PICK cb : /\ LookupThenRead(t, cb)
                /\ \/ cb = "mod_read_cb" /\ txn[t].cb \in ModCb
                   \/ cb = "del_read_cb" /\ txn[t].cb \in DelCb
  BY DEF mod_retrans_lookup_cb, del_retrans_lookup_cb, ModCb, DelCb
<1>2. UNCHANGED <<smfVars, redisVars, vdp>>
  BY <1>1 DEF LookupThenRead
<1>3. CASE ReplyFromCache(t)
  BY <1>1, <1>2, <1>3, ModDelFacts, CacheHitStep
<1>4. CASE ~CtxAvail(t) /\ finish(t, "SYSTEM_FAILURE", 0, {}) /\ UNCHANGED idVars
  BY <1>1, <1>2, <1>4, ModDelFacts, Causes, AnswerStep DEF idVars
<1>5. CASE /\ StartRead(t, [txn[t] EXCEPT !.ctx = EmptyCtx], cb, -1) /\ UNCHANGED idVars
  <2> DEFINE rec == [txn[t] EXCEPT !.ctx = EmptyCtx]
  <2>1. EmptyCtx \in Ctx
    BY DEF EmptyCtx, Ctx
  <2>2. rec \in TxnRecord /\ rec.req = txn[t].req /\ rec.seid = txn[t].seid
    BY <2>1, OwnFacts DEF TxnRecord
  <2>3. seidUsed' = seidUsed /\ teidAvail' \in [Teid -> Nat]
    BY <1>5, OwnFacts DEF idVars
  <2>4. StartRead(t, rec, cb, -1)
    BY <1>5
  <2> HIDE DEF rec
  <2> QED
    BY <1>1, <1>2, <2>2, <2>3, <2>4, StartReadStep
<1> QED
  BY <1>1, <1>3, <1>4, <1>5 DEF LookupThenRead

(* mod_read_cb() is a flow step.                                           *)
LEMMA ModReadStep ==
  ASSUME DurabilityInv, NEW t \in Txn, mod_read_cb(t)
  PROVE  \E new : FlowStep(t, new)
<1>0. UNCHANGED <<smfVars, redisVars, vdp, idVars>> /\ txn[t].cb = "mod_read_cb"
  BY DEF mod_read_cb
<1>1. txn[t].cb \in ModCb /\ seidUsed' = seidUsed /\ teidAvail' \in [Teid -> Nat]
  BY <1>0, OwnFacts DEF ModCb, idVars
<1>2. CASE finish(t, "SYSTEM_FAILURE", 0, {}) \/ finish(t, "NOT_FOUND", 0, {})
  BY <1>0, <1>1, <1>2, Causes, AnswerStep
<1>3. CASE sess[txn[t].seid].ver # 0 /\ ModWrite(t)
  <2> DEFINE old == sess[txn[t].seid]
             next == [old.ctx EXCEPT !.mods = Append(@, txn[t].req)]
             rec == [txn[t] EXCEPT !.ver = old.ver, !.impl = old.ctx, !.ctx = next]
             cmd == v_sess_cas_write(txn[t].seid, old.ver, next, FALSE)
             new == [rec EXCEPT !.st = "DB_WRITE_WAIT", !.cb = "mod_cas_cb",
                                !.cmd = cmd, !.res = "none"]
  <2>1. txn[t] \in TxnRecord /\ txn[t].req \in ModReq /\ txn[t].seid \in Seid
    BY <1>1, ModDelFacts
  <2>2. old \in SessRecord /\ old.ver \in Nat /\ old.ctx \in Ctx
    BY <1>3, <2>1 DEF DurabilityInv, TypeOK, RecordHasCtx, SessRecord
  <2> HIDE DEF old
  <2>3. next \in Ctx
    <3>1. old.ctx.mods \in Seq(ModReq)
      BY <2>2 DEF Ctx
    <3>2. Append(old.ctx.mods, txn[t].req) \in Seq(ModReq)
      BY <2>1, <3>1
    <3> QED
      BY <2>2, <3>2 DEF Ctx
  <2> HIDE DEF next
  <2>4. rec \in TxnRecord /\ rec.req = txn[t].req /\ rec.seid = txn[t].seid /\ rec.impl = old.ctx
    BY <2>1, <2>2, <2>3 DEF TxnRecord
  <2>5. /\ cmd \in Command /\ cmd.op = "CAS" /\ cmd.seid \in Seid
        /\ cmd.ctx \in Ctx /\ cmd.ttl = FALSE
    BY <2>1, <2>2, <2>3 DEF v_sess_cas_write, Command, SessOp
  <2> HIDE DEF rec, cmd
  <2>6. /\ new.st = "DB_WRITE_WAIT" /\ new.cb = "mod_cas_cb" /\ new.cmd = cmd
        /\ new.seid = rec.seid /\ new.req = rec.req /\ new.impl = rec.impl
    BY <2>4 DEF TxnRecord
  <2>7. Shape(new) /\ CallOK(new) /\ EstCallOK(t, new)
    <3> HIDE DEF new
    <3> QED
      BY <2>1, <2>2, <2>4, <2>5, <2>6
      DEF Shape, CallOK, EstCallOK, EstWait, EstCb, ModCb, DelCb, SessOp
  <2>8. "DB_WRITE_WAIT" \in State /\ "mod_cas_cb" \in Callback
    BY DEF State, Callback
  <2>9. /\ Await(t, rec, "DB_WRITE_WAIT", "mod_cas_cb", cmd) /\ CtxTake(t, 1)
        /\ UNCHANGED <<bg, stores, tx>>
    BY <1>3 DEF ModWrite, rec, cmd, old, next
  <2>10. ctxUse' \in [Pod -> Int]
    BY <2>9, OwnFacts, CtxFreeType
  <2>11. FlowStep(t, new)
    BY <1>0, <1>1, <2>4, <2>5, <2>7, <2>8, <2>9, <2>10, OwnFacts, AwaitStep
  <2> QED
    BY <2>11
<1> QED
  BY <1>2, <1>3 DEF mod_read_cb, ModAbort

(* mod_cas_cb() is a flow step.                                            *)
LEMMA ModCasStep ==
  ASSUME DurabilityInv, NEW t \in Txn, mod_cas_cb(t)
  PROVE  \E new : FlowStep(t, new)
<1> DEFINE impl == CtxHeld(txn[t].impl)
           again == [txn[t] EXCEPT !.impl = NULL, !.retry = @ + 1, !.ctx = EmptyCtx]
           next == [txn[t] EXCEPT !.ver = @ + 1]
           cmd == VdpCmd("VDP_MODIFY", txn[t].seid, txn[t].ctx)
<1>0. UNCHANGED <<smfVars, redisVars, vdp, idVars>> /\ txn[t].cb = "mod_cas_cb"
  BY DEF mod_cas_cb
<1>1. txn[t].cb \in ModCb /\ seidUsed' = seidUsed /\ teidAvail' \in [Teid -> Nat]
  BY <1>0, OwnFacts DEF ModCb, idVars
<1>2. impl \in Int
  BY CtxHeldType
<1>3. CASE \E cause \in Cause : finish(t, cause, impl, {})
  <2> HIDE DEF impl
  <2> QED
    BY <1>0, <1>1, <1>2, <1>3, AnswerStep
<1>4. CASE StartRead(t, again, "mod_read_cb", impl)
  <2>1. EmptyCtx \in Ctx
    BY DEF EmptyCtx, Ctx
  <2>2. again \in TxnRecord /\ again.req = txn[t].req /\ again.seid = txn[t].seid
    <3>1. txn[t] \in TxnRecord
      BY OwnFacts
    <3>2. txn[t].retry + 1 \in Nat
      BY <3>1 DEF TxnRecord
    <3> QED
      BY <2>1, <3>1, <3>2 DEF TxnRecord
  <2> HIDE DEF again, impl
  <2> QED
    BY <1>0, <1>1, <1>2, <1>4, <2>2, StartReadStep
<1>5. CASE /\ Await(t, next, "VDP_WAIT", "mod_vdp_cb", cmd)
           /\ UNCHANGED <<bg, stores, tx, ctxUse>>
  <2> DEFINE new == [next EXCEPT !.st = "VDP_WAIT", !.cb = "mod_vdp_cb",
                                 !.cmd = cmd, !.res = "none"]
  <2>1. /\ txn[t] \in TxnRecord /\ txn[t].req \in ModReq /\ txn[t].seid \in Seid
        /\ txn[t].impl \in Ctx
    BY <1>0, <1>1, ModDelFacts, OwnFacts DEF Shape
  <2>2. /\ next \in TxnRecord /\ next.req = txn[t].req /\ next.seid = txn[t].seid
        /\ next.impl = txn[t].impl /\ next.ver # 0
    BY <2>1 DEF TxnRecord
  <2>3. cmd \in Command /\ cmd.op = "VDP_MODIFY"
    BY <2>1, CommandTypes DEF VdpOp, TxnRecord
  <2> HIDE DEF next, cmd
  <2>4. /\ new.st = "VDP_WAIT" /\ new.cb = "mod_vdp_cb" /\ new.cmd = cmd /\ new.ver = next.ver
        /\ new.seid = next.seid /\ new.req = next.req /\ new.impl = next.impl
    BY <2>2 DEF TxnRecord
  <2>5. Shape(new) /\ CallOK(new) /\ EstCallOK(t, new)
    <3> HIDE DEF new
    <3> QED
      BY <2>1, <2>2, <2>3, <2>4
      DEF Shape, CallOK, EstCallOK, EstWait, EstCb, ModCb, DelCb, SessOp
  <2>6. "VDP_WAIT" \in State /\ "mod_vdp_cb" \in Callback
    BY DEF State, Callback
  <2>7. FlowStep(t, new)
    BY <1>0, <1>1, <1>5, <2>2, <2>3, <2>5, <2>6, OwnFacts, AwaitStep
  <2> QED
    BY <2>7
<1> QED
  BY <1>3, <1>4, <1>5, Causes DEF mod_cas_cb

(* mod_vdp_cb() is a flow step: the write-back carries the snapshot.       *)
LEMMA ModVdpStep ==
  ASSUME DurabilityInv, NEW t \in Txn, mod_vdp_cb(t)
  PROVE  \E new : FlowStep(t, new)
<1> DEFINE rec == [txn[t] EXCEPT !.impl = NULL]
           cmd == v_sess_cas_write(txn[t].seid, txn[t].ver, txn[t].impl, FALSE)
<1>0. UNCHANGED <<smfVars, redisVars, vdp, idVars>> /\ txn[t].cb = "mod_vdp_cb"
  BY DEF mod_vdp_cb
<1>1. txn[t].cb \in ModCb /\ seidUsed' = seidUsed /\ teidAvail' \in [Teid -> Nat]
  BY <1>0, OwnFacts DEF ModCb, idVars
<1>2. CASE \/ finish(t, "SYSTEM_FAILURE", 1, {})
           \/ finish(t, "ACCEPTED", CtxHeld(txn[t].impl), {})
  BY <1>0, <1>1, <1>2, Causes, CtxHeldType, AnswerStep
<1>3. CASE /\ Await(t, rec, "VDP_WAIT", "mod_compensate_write_cb", cmd)
           /\ CtxFree(t, 1) /\ bg' = bg \cup Late(t) /\ UNCHANGED <<stores, tx>>
  <2> DEFINE new == [rec EXCEPT !.st = "VDP_WAIT", !.cb = "mod_compensate_write_cb",
                                !.cmd = cmd, !.res = "none"]
  <2>1. /\ txn[t] \in TxnRecord /\ txn[t].req \in ModReq /\ txn[t].seid \in Seid
        /\ txn[t].impl \in Ctx /\ txn[t].ver # 0 /\ txn[t].ver \in Nat
    BY <1>0, <1>1, ModDelFacts, OwnFacts DEF Shape, TxnRecord
  <2>2. /\ rec \in TxnRecord /\ rec.req = txn[t].req /\ rec.seid = txn[t].seid
        /\ rec.ver = txn[t].ver
    BY <2>1 DEF TxnRecord
  <2>3. /\ cmd \in Command /\ cmd.op = "CAS" /\ cmd.seid \in Seid
        /\ cmd.ctx \in Ctx /\ cmd.ttl = FALSE
    BY <2>1 DEF v_sess_cas_write, Command, SessOp
  <2> HIDE DEF rec, cmd
  <2>4. /\ new.st = "VDP_WAIT" /\ new.cb = "mod_compensate_write_cb" /\ new.cmd = cmd
        /\ new.seid = rec.seid /\ new.req = rec.req /\ new.ver = rec.ver
    BY <2>2 DEF TxnRecord
  <2>5. Shape(new) /\ CallOK(new) /\ EstCallOK(t, new)
    <3> HIDE DEF new
    <3> QED
      BY <2>1, <2>2, <2>3, <2>4
      DEF Shape, CallOK, EstCallOK, EstWait, EstCb, ModCb, DelCb, SessOp
  <2>6. "VDP_WAIT" \in State /\ "mod_compensate_write_cb" \in Callback
    BY DEF State, Callback
  <2>7. \A c \in bg' : c \in bg \/ IssuedOK(t, new, c)
    <3> HIDE DEF new
    <3> QED
      BY <1>3, LateOK
  <2>8. ctxUse' \in [Pod -> Int]
    BY <1>3, OwnFacts, CtxFreeType
  <2>9. FlowStep(t, new)
    BY <1>0, <1>1, <1>3, <2>2, <2>3, <2>5, <2>6, <2>7, <2>8, OwnFacts, AwaitStep
  <2> QED
    BY <2>9
<1> QED
  BY <1>2, <1>3 DEF mod_vdp_cb

(* mod_compensate_write_cb() is a flow step.                               *)
LEMMA ModCompensateStep ==
  ASSUME DurabilityInv, NEW t \in Txn, mod_compensate_write_cb(t)
  PROVE  \E new : FlowStep(t, new)
<1>1. /\ UNCHANGED <<smfVars, redisVars, vdp, idVars>> /\ txn[t].cb = "mod_compensate_write_cb"
      /\ finish(t, "REJECTED", 0, {})
  BY DEF mod_compensate_write_cb
<1>2. txn[t].cb \in ModCb /\ seidUsed' = seidUsed /\ teidAvail' \in [Teid -> Nat]
  BY <1>1, OwnFacts DEF ModCb, idVars
<1> QED
  BY <1>1, <1>2, Causes, AnswerStep

(* del_read_cb() is a flow step.                                           *)
LEMMA DelReadStep ==
  ASSUME DurabilityInv, NEW t \in Txn, del_read_cb(t)
  PROVE  \E new : FlowStep(t, new)
<1> DEFINE old == sess[txn[t].seid]
           rec == [txn[t] EXCEPT !.ver = old.ver, !.ctx = old.ctx]
           cmd == VdpCmd("VDP_DELETE", txn[t].seid, NULL)
<1>0. UNCHANGED <<smfVars, redisVars, vdp, idVars>> /\ txn[t].cb = "del_read_cb"
  BY DEF del_read_cb
<1>1. txn[t].cb \in DelCb /\ seidUsed' = seidUsed /\ teidAvail' \in [Teid -> Nat]
  BY <1>0, OwnFacts DEF DelCb, idVars
<1>2. CASE \E cause \in Cause : finish(t, cause, 0, {})
  BY <1>0, <1>1, <1>2, AnswerStep
<1>3. CASE /\ Await(t, rec, "VDP_WAIT", "del_vdp_cb", cmd)
           /\ UNCHANGED <<bg, stores, tx, ctxUse>>
  <2> DEFINE new == [rec EXCEPT !.st = "VDP_WAIT", !.cb = "del_vdp_cb",
                                !.cmd = cmd, !.res = "none"]
  <2>1. /\ txn[t] \in TxnRecord /\ txn[t].req \in DelReq /\ txn[t].seid \in Seid
        /\ target[txn[t].req] = txn[t].seid
    BY <1>1, ModDelFacts
  <2>2. old.ver \in Nat /\ old.ctx \in Ctx \cup {NULL}
    BY <2>1, OwnFacts DEF SessRecord
  <2> HIDE DEF old
  <2>3. rec \in TxnRecord /\ rec.req = txn[t].req /\ rec.seid = txn[t].seid
    BY <2>1, <2>2 DEF TxnRecord
  <2>4. cmd \in Command /\ cmd.op = "VDP_DELETE"
    BY <2>1, CommandTypes DEF VdpOp
  <2> HIDE DEF rec, cmd
  <2>5. /\ new.st = "VDP_WAIT" /\ new.cb = "del_vdp_cb" /\ new.cmd = cmd
        /\ new.seid = rec.seid /\ new.req = rec.req
    BY <2>3 DEF TxnRecord
  <2>6. Shape(new) /\ CallOK(new) /\ EstCallOK(t, new)
    <3> HIDE DEF new
    <3> QED
      BY <2>1, <2>3, <2>4, <2>5
      DEF Shape, CallOK, EstCallOK, EstWait, EstCb, ModCb, DelCb, SessOp
  <2>7. "VDP_WAIT" \in State /\ "del_vdp_cb" \in Callback
    BY DEF State, Callback
  <2>8. FlowStep(t, new)
    BY <1>0, <1>1, <1>3, <2>3, <2>4, <2>6, <2>7, OwnFacts, AwaitStep
  <2> QED
    BY <2>8
<1> QED
  BY <1>2, <1>3, Causes DEF del_read_cb

(* del_vdp_cb() is a flow step: it deletes what the SMF asked to delete.   *)
LEMMA DelVdpStep ==
  ASSUME DurabilityInv, NEW t \in Txn, del_vdp_cb(t)
  PROVE  \E new : FlowStep(t, new)
<1> DEFINE cmd == v_sess_delete(txn[t].seid, txn[t].ver)
<1>0. UNCHANGED <<smfVars, redisVars, vdp, idVars>> /\ txn[t].cb = "del_vdp_cb"
  BY DEF del_vdp_cb
<1>1. txn[t].cb \in DelCb /\ seidUsed' = seidUsed /\ teidAvail' \in [Teid -> Nat]
  BY <1>0, OwnFacts DEF DelCb, idVars
<1>2. CASE \E cause \in Cause : finish(t, cause, 0, {})
  BY <1>0, <1>1, <1>2, AnswerStep
<1>3. CASE /\ Await(t, txn[t], "DB_WRITE_WAIT", "del_delete_cb", cmd)
           /\ UNCHANGED <<bg, stores, tx, ctxUse>>
  <2> DEFINE new == [txn[t] EXCEPT !.st = "DB_WRITE_WAIT", !.cb = "del_delete_cb",
                                   !.cmd = cmd, !.res = "none"]
  <2>1. /\ txn[t] \in TxnRecord /\ txn[t].req \in DelReq /\ txn[t].seid \in Seid
        /\ target[txn[t].req] = txn[t].seid /\ txn[t].ver \in Nat
    BY <1>1, ModDelFacts DEF TxnRecord
  <2>2. cmd \in Command /\ cmd.op = "DEL" /\ cmd.seid = txn[t].seid
    BY <2>1, CommandTypes
  <2> HIDE DEF cmd
  <2>3. /\ new.st = "DB_WRITE_WAIT" /\ new.cb = "del_delete_cb" /\ new.cmd = cmd
        /\ new.seid = txn[t].seid /\ new.req = txn[t].req
    BY <2>1 DEF TxnRecord
  <2>4. Shape(new) /\ CallOK(new) /\ EstCallOK(t, new)
    <3> HIDE DEF new
    <3> QED
      BY <2>1, <2>2, <2>3
      DEF Shape, CallOK, EstCallOK, EstWait, EstCb, ModCb, DelCb, SessOp
  <2>5. "DB_WRITE_WAIT" \in State /\ "del_delete_cb" \in Callback
    BY DEF State, Callback
  <2>6. FlowStep(t, new)
    BY <1>0, <1>1, <1>3, <2>1, <2>2, <2>4, <2>5, OwnFacts, AwaitStep
  <2> QED
    BY <2>6
<1> QED
  BY <1>2, <1>3, Causes DEF del_vdp_cb

(* del_delete_cb() is a flow step.                                         *)
LEMMA DelDeleteStep ==
  ASSUME DurabilityInv, NEW t \in Txn, del_delete_cb(t)
  PROVE  \E new : FlowStep(t, new)
<1> DEFINE again == [txn[t] EXCEPT !.retry = @ + 1, !.ctx = EmptyCtx]
<1>0. UNCHANGED <<smfVars, redisVars, vdp>> /\ txn[t].cb = "del_delete_cb" /\ seidUsed' = seidUsed
  BY DEF del_delete_cb
<1>1. txn[t].cb \in DelCb
  BY <1>0 DEF DelCb
<1>2. teidAvail' \in [Teid -> Nat]
  BY OwnFacts, TeidFreeType DEF del_delete_cb
<1>3. CASE \E cause \in Cause : finish(t, cause, 0, {})
  BY <1>0, <1>1, <1>2, <1>3, AnswerStep
<1>4. CASE StartRead(t, again, "del_read_cb", 0)
  <2>1. EmptyCtx \in Ctx
    BY DEF EmptyCtx, Ctx
  <2>2. again \in TxnRecord /\ again.req = txn[t].req /\ again.seid = txn[t].seid
    <3>1. txn[t] \in TxnRecord
      BY OwnFacts
    <3>2. txn[t].retry + 1 \in Nat
      BY <3>1 DEF TxnRecord
    <3> QED
      BY <2>1, <3>1, <3>2 DEF TxnRecord
  <2> HIDE DEF again
  <2> QED
    BY <1>0, <1>1, <1>2, <1>4, <2>2, StartReadStep
<1> QED
  BY <1>3, <1>4, Causes DEF del_delete_cb

(* timeout_handler() is a flow step: what it deletes is a session being    *)
(* established or one being deleted.                                       *)
LEMMA TimeoutStep ==
  ASSUME DurabilityInv, NEW t \in Txn, timeout_handler(t)
  PROVE  \E new : FlowStep(t, new)
<1>1. /\ txn' = [txn EXCEPT ![t] = Idle] /\ bg' = bg \cup TimeoutCommands(txn[t]) \cup Late(t)
      /\ CtxFree(t, CtxHeld(txn[t].ctx))
      /\ UNCHANGED <<smfVars, redisVars, vdp, stores, idVars, tx>>
  BY DEF timeout_handler
<1>2. ASSUME NEW c \in TimeoutCommands(txn[t]) PROVE IssuedOK(t, Idle, c)
  <2>1. CASE txn[t].st = "VDP_WAIT" /\ txn[t].ver = 0
    <3>1. c = v_sess_delete(txn[t].seid, 1)
      BY <1>2, <2>1 DEF TimeoutCommands
    <3>2. txn[t].cb = "vdp_create_cb" \/ txn[t].cb = "del_vdp_cb"
      BY <2>1, OwnFacts DEF Shape
    <3>3. CASE txn[t].cb = "vdp_create_cb"
      BY <3>1, <3>3, OwnFacts, CommandTypes DEF Shape, EstWait, IssuedOK
    <3>4. CASE txn[t].cb = "del_vdp_cb"
      BY <3>1, <3>4, OwnFacts, CommandTypes DEF Shape, DelCb, IssuedOK
    <3> QED
      BY <3>2, <3>3, <3>4
  <2>2. CASE txn[t].st = "DB_CONFIRM_WAIT"
    <3>1. c = v_sess_confirm(txn[t].seid)
      BY <1>2, <2>2 DEF TimeoutCommands
    <3>2. txn[t].seid \in Seid
      BY <2>2, OwnFacts DEF Shape, EstWait
    <3> QED
      BY <3>1, <3>2, CommandTypes DEF IssuedOK
  <2> QED
    BY <1>2, <2>1, <2>2 DEF TimeoutCommands
<1>3. \A c \in bg' : c \in bg \/ IssuedOK(t, Idle, c)
  BY <1>1, <1>2, LateOK
<1>4. ctxUse' \in [Pod -> Int]
  BY <1>1, OwnFacts, CtxFreeType, CtxHeldType
<1>5. FlowStep(t, Idle)
  BY <1>1, <1>3, <1>4, IdleFacts, IdleStep, OwnFacts
  DEF FlowStep, smfVars, redisVars, idVars
<1> QED
  BY <1>5

(* Every callback and the timeout handler preserve the invariant.          *)
LEMMA FlowKeepsInv ==
  ASSUME DurabilityInv, NEW t \in Txn,
         EstCallback(t) \/ ModCallback(t) \/ DelCallback(t) \/ timeout_handler(t)
  PROVE  DurabilityInv'
<1>1. \E new : FlowStep(t, new)
  BY RetransLookupStep, CasWriteStep, VdpCreateStep, ConfirmStep, LookupStep, ModReadStep,
     ModCasStep, ModVdpStep, ModCompensateStep, DelReadStep, DelVdpStep, DelDeleteStep,
     TimeoutStep
  DEF EstCallback, ModCallback, DelCallback
<1> QED
  BY <1>1, FlowStepKeepsInv

-----------------------------------------------------------------------------
(* Steps of the SMF, of Redis, of the VDP and of time.                     *)

(* Whatever tells no SEID, hands out none, starts waiting for none and     *)
(* takes no request back, keeps every SEID's owner and every deletable     *)
(* session deletable.                                                      *)
LEMMA OwnershipKept ==
  ASSUME DurabilityInv, AcceptedSeids' = AcceptedSeids, seidUsed' = seidUsed,
         \A u \in Txn : \A s : Establishing(u, s)' => Establishing(u, s),
         \A r \in ModReq \cup DelReq : target[r] # NULL => target'[r] = target[r]
  PROVE  /\ SeidOnce'
         /\ \A s \in Seid : Deletable(s) => Deletable(s)'
         /\ \A c \in Command : CommandOK(c) => CommandOK(c)'
<1>1. SeidOnce'
  BY DEF DurabilityInv, SeidOnce
<1>2. ASSUME NEW s \in Seid, Deletable(s) PROVE Deletable(s)'
  BY <1>2, NullAssumption DEF Deletable
<1>3. ASSUME NEW c \in Command, CommandOK(c) PROVE CommandOK(c)'
  BY <1>2, <1>3 DEF CommandOK, SessOp
<1> QED
  BY <1>1, <1>2, <1>3

(* What Redis makes of the record rec when it executes command c.          *)
LEMMA EffectFacts ==
  ASSUME NEW rec \in SessRecord, rec.ver # 0 => rec.ctx \in Ctx,
         NEW c \in Command, c.op \in SessOp, CommandOK(c)
  PROVE  /\ SessEffect(rec, c) \in SessRecord
         /\ SessEffect(rec, c).ver # 0 => SessEffect(rec, c).ctx \in Ctx
         /\ SessResult(rec, c) \in {"OK", "CONFLICT", "GONE"}
         /\ rec.ver # 0 /\ c.op # "DEL" => SessEffect(rec, c).ver # 0
         /\ rec.ver # 0 /\ ~rec.ttl => ~SessEffect(rec, c).ttl
         /\ c.op = "CAS" /\ SessResult(rec, c) = "OK" => SessEffect(rec, c).ver # 0
         /\ c.op = "PERSIST" => ~SessEffect(rec, c).ttl
<1>0. rec.ver \in Nat /\ c.ver \in Nat /\ rec.ttl \in BOOLEAN /\ c.ttl \in BOOLEAN
  BY DEF SessRecord, Command
<1>1. CASE c.op = "CAS"
  <2>1. SessEffect(rec, c) = CasRecord(rec, c) /\ SessResult(rec, c) = CasResult(rec, c)
    BY <1>1 DEF SessEffect, SessResult
  <2>2. c.ctx \in Ctx /\ (c.ttl => c.ver = 0)
    BY <1>1 DEF CommandOK
  <2>3. CASE rec.ver = c.ver
    <3>1. CasResult(rec, c) = "OK"
      BY <2>3 DEF CasResult
    <3>2. CasRecord(rec, c) = [ver |-> c.ver + 1, ctx |-> c.ctx, ttl |-> rec.ttl \/ c.ttl]
      BY <3>1 DEF CasRecord
    <3>3. (rec.ttl \/ c.ttl) \in BOOLEAN /\ c.ver + 1 \in Nat /\ c.ver + 1 # 0
      BY <1>0
    <3> QED
      BY <1>0, <1>1, <2>1, <2>2, <2>3, <3>1, <3>2, <3>3 DEF SessRecord
  <2>4. CASE rec.ver # c.ver
    <3>1. CasResult(rec, c) \in {"CONFLICT", "GONE"} /\ CasRecord(rec, c) = rec
      BY <2>4 DEF CasResult, CasRecord
    <3> QED
      BY <1>1, <2>1, <3>1
  <2> QED
    BY <2>3, <2>4
<1>2. CASE c.op = "DEL"
  <2>1. SessEffect(rec, c) = DelRecord(rec, c) /\ SessResult(rec, c) = DelResult(rec, c)
    BY <1>2 DEF SessEffect, SessResult
  <2>2. DelRecord(rec, c) = rec \/ DelRecord(rec, c) = NoSession
    BY DEF DelRecord
  <2>3. DelResult(rec, c) \in {"OK", "CONFLICT", "GONE"}
    BY DEF DelResult
  <2>4. NoSession \in SessRecord /\ NoSession.ver = 0 /\ NoSession.ttl = FALSE
    BY DEF NoSession, SessRecord
  <2> QED
    BY <1>2, <2>1, <2>2, <2>3, <2>4
<1>3. CASE c.op = "PERSIST"
  <2>1. SessEffect(rec, c) = [rec EXCEPT !.ttl = FALSE] /\ SessResult(rec, c) = "OK"
    BY <1>3 DEF SessEffect, SessResult, PersistRecord
  <2> QED
    BY <1>3, <2>1 DEF SessRecord
<1> QED
  BY <1>1, <1>2, <1>3 DEF SessOp

(* A command that takes effect in Redis, for a transaction or for nobody,  *)
(* takes neither the record from an establishment nor a session from the   *)
(* SMF.                                                                    *)
LEMMA EffectKeepsRecords ==
  ASSUME DurabilityInv, NEW c \in Command, c.op \in SessOp, CommandOK(c),
         sess' = [sess EXCEPT ![c.seid] = SessEffect(@, c)],
         tx' = tx, target' = target, refused' = refused
  PROVE  /\ sess' \in [Seid -> SessRecord] /\ RecordHasCtx' /\ AcceptedDurable'
         /\ sess'[c.seid] = SessEffect(sess[c.seid], c)
         /\ \A u \in Txn, s \in Seid :
              Establishing(u, s) /\ sess[s].ver # 0 =>
                /\ sess'[s].ver # 0
                /\ ~sess[s].ttl => ~sess'[s].ttl
<1>0. /\ TypeOK /\ SeidOnce /\ TargetKnown /\ RecordHasCtx /\ AcceptedDurable
  BY DEF DurabilityInv
<1>1. c.seid \in Seid /\ sess \in [Seid -> SessRecord]
  BY <1>0 DEF CommandOK, TypeOK
<1> DEFINE old == sess[c.seid]
           new == SessEffect(old, c)
<1>2. old \in SessRecord /\ (old.ver # 0 => old.ctx \in Ctx)
  BY <1>0, <1>1 DEF RecordHasCtx
<1>3. /\ new \in SessRecord
      /\ new.ver # 0 => new.ctx \in Ctx
      /\ old.ver # 0 /\ c.op # "DEL" => new.ver # 0
      /\ old.ver # 0 /\ ~old.ttl => ~new.ttl
  <2> HIDE DEF old
  <2> QED
    BY <1>2, EffectFacts
<1>4. sess' = [sess EXCEPT ![c.seid] = new]
  OBVIOUS
<1> HIDE DEF new
<1>5. /\ sess' \in [Seid -> SessRecord]
      /\ sess'[c.seid] = new
      /\ \A s \in Seid : s # c.seid => sess'[s] = sess[s]
  BY <1>1, <1>3, <1>4
<1>6. RecordHasCtx'
  BY <1>0, <1>3, <1>5 DEF RecordHasCtx
<1>7. AcceptedSeids' = AcceptedSeids
  BY DEF AcceptedSeids
<1>8. ASSUME NEW s \in AcceptedSeids, Confirmed(s)
      PROVE  Confirmed(s)' \/ \E d \in DelReq : target[d] = s
  <2>0. s \in Seid
    BY <1>0 DEF SeidOnce, TypeOK
  <2>1. CASE s # c.seid
    BY <1>5, <1>8, <2>0, <2>1 DEF Confirmed
  <2>2. CASE s = c.seid /\ c.op # "DEL"
    BY <1>3, <1>5, <1>8, <2>2 DEF Confirmed
  <2>3. CASE s = c.seid /\ c.op = "DEL"
    BY <2>3 DEF CommandOK, Deletable
  <2> QED
    BY <2>1, <2>2, <2>3
<1>9. AcceptedDurable'
  BY <1>0, <1>7, <1>8 DEF AcceptedDurable
<1>10. ASSUME NEW u \in Txn, NEW s \in Seid, Establishing(u, s), sess[s].ver # 0
       PROVE  sess'[s].ver # 0 /\ (~sess[s].ttl => ~sess'[s].ttl)
  <2>1. s \notin AcceptedSeids
    BY <1>0, <1>10 DEF SeidOnce
  <2>2. ~Deletable(s)
    BY <1>0, <1>10, <2>1, NullAssumption DEF Deletable, TargetKnown
  <2>3. CASE s = c.seid
    <3>1. c.op # "DEL"
      BY <2>2, <2>3 DEF CommandOK
    <3> QED
      BY <1>3, <1>5, <1>10, <2>3, <3>1
  <2>4. CASE s # c.seid
    BY <1>5, <1>10, <2>4
  <2> QED
    BY <2>3, <2>4
<1> QED
  BY <1>5, <1>6, <1>9, <1>10 DEF new

(* Neither does one that Redis refuses: it changes no record, and notes    *)
(* the session whose PERSIST it was.                                       *)
LEMMA CommandKeepsRecords ==
  ASSUME DurabilityInv, NEW c \in Command, c.op \in SessOp, CommandOK(c),
         SessRun(c), tx' = tx, target' = target
  PROVE  /\ sess' \in [Seid -> SessRecord] /\ RecordHasCtx' /\ AcceptedDurable'
         /\ refused \subseteq refused' /\ refused' \subseteq Seid
         /\ \/ sess'[c.seid] = SessEffect(sess[c.seid], c)
            \/ c.op = "PERSIST" /\ sess' = sess /\ c.seid \in refused'
         /\ \A u \in Txn, s \in Seid :
              Establishing(u, s) /\ sess[s].ver # 0 =>
                /\ sess'[s].ver # 0
                /\ ~sess[s].ttl => ~sess'[s].ttl
<1>0. TypeOK /\ RecordHasCtx /\ AcceptedDurable
  BY DEF DurabilityInv
<1>1. CASE sess' = [sess EXCEPT ![c.seid] = SessEffect(@, c)] /\ refused' = refused
  <2>1. refused \subseteq refused' /\ refused' \subseteq Seid
    BY <1>0, <1>1 DEF TypeOK
  <2> QED
    BY <1>1, <2>1, EffectKeepsRecords
<1>2. CASE /\ c.op = "PERSIST"
           /\ refused' = refused \cup {c.seid}
           /\ sess' = sess
  <2>1. c.seid \in Seid
    BY DEF CommandOK
  <2>2. AcceptedSeids' = AcceptedSeids
    BY DEF AcceptedSeids
  <2>3. AcceptedDurable'
    BY <1>0, <1>2, <2>2 DEF AcceptedDurable, Confirmed
  <2>4. sess' \in [Seid -> SessRecord] /\ RecordHasCtx' /\ refused' \subseteq Seid
    BY <1>0, <1>2, <2>1 DEF TypeOK, RecordHasCtx
  <2> QED
    BY <1>2, <2>3, <2>4
<1> QED
  BY <1>1, <1>2 DEF SessRun

(* The parts of the invariant that only the SMF's and the flows' steps can *)
(* disturb survive a step that changes neither.                            *)
LEMMA ReplyPartsKept ==
  ASSUME DurabilityInv, UNCHANGED <<tx, stores, cache, target>>
  PROVE  CacheRepeats' /\ TargetKnown' /\ AcceptedSeids' = AcceptedSeids
<1>1. AcceptedSeids' = AcceptedSeids
  BY DEF AcceptedSeids
<1> QED
  BY <1>1 DEF DurabilityInv, CacheRepeats, TargetKnown

(* A transaction gets the answer to its call.                              *)
LEMMA AnswerKeeps ==
  ASSUME DurabilityInv, NEW t \in Txn, NEW r \in Result,
         txn' = [txn EXCEPT ![t] = [@ EXCEPT !.res = r]],
         UNCHANGED <<tx, stores, cache, target, seidUsed, bg>>
  PROVE  /\ txn' \in [Txn -> TxnRecord]
         /\ \A u \in Txn : u # t => txn'[u] = txn[u]
         /\ txn'[t].res = r /\ txn'[t].cb = txn[t].cb /\ txn'[t].seid = txn[t].seid
         /\ txn'[t].cmd = txn[t].cmd
         /\ SeidOnce' /\ FlowShape' /\ CommandsOK' /\ CacheRepeats' /\ TargetKnown'
<1> DEFINE new == [txn[t] EXCEPT !.res = r]
<1>0. TypeOK /\ FlowShape /\ CommandsOK
  BY DEF DurabilityInv
<1>1. txn[t] \in TxnRecord
  BY <1>0 DEF TypeOK
<1>2. /\ new \in TxnRecord
      /\ new.st = txn[t].st /\ new.cb = txn[t].cb /\ new.req = txn[t].req
      /\ new.seid = txn[t].seid /\ new.ver = txn[t].ver /\ new.impl = txn[t].impl
      /\ new.cmd = txn[t].cmd /\ new.res = r
  BY <1>1 DEF TxnRecord
<1>3. txn' = [txn EXCEPT ![t] = new]
  OBVIOUS
<1> HIDE DEF new
<1>4. /\ txn' \in [Txn -> TxnRecord] /\ txn'[t] = new
      /\ \A u \in Txn : u # t => txn'[u] = txn[u]
  BY <1>0, <1>2, <1>3, TxnAfter
<1>5. CacheRepeats' /\ TargetKnown' /\ AcceptedSeids' = AcceptedSeids
  BY ReplyPartsKept
<1>6. ASSUME NEW u \in Txn, NEW s, Establishing(u, s)' PROVE Establishing(u, s)
  BY <1>2, <1>4, <1>6 DEF Establishing
<1>7. SeidOnce' /\ \A c \in Command : CommandOK(c) => CommandOK(c)'
  BY <1>5, <1>6, OwnershipKept
<1>8. CommandsOK'
  <2>1. ASSUME NEW u \in Txn PROVE CommandOK(txn[u].cmd)'
    <3>1. txn'[u].cmd = txn[u].cmd
      BY <1>2, <1>4
    <3>2. txn[u].cmd \in Command /\ CommandOK(txn[u].cmd)
      BY <1>0 DEF TypeOK, TxnRecord, CommandsOK
    <3>3. ASSUME NEW c, c = txn[u].cmd PROVE CommandOK(c)'
      BY <1>7, <3>2, <3>3
    <3> QED
      BY <3>1, <3>3 DEF CommandOK, Deletable
  <2>2. ASSUME NEW c \in bg' PROVE CommandOK(c)'
    BY <1>0, <1>7 DEF TypeOK, CommandsOK
  <2> QED
    BY <2>1, <2>2 DEF CommandsOK
<1>9. FlowShape'
  <2>1. \A u \in Txn : Shape(txn'[u])
    BY <1>0, <1>2, <1>4 DEF FlowShape, Shape
  <2> QED
    BY <2>1 DEF FlowShape, Shape
<1> QED
  BY <1>2, <1>4, <1>5, <1>7, <1>8, <1>9

(* Redis's execution of an awaited command preserves the invariant.        *)
LEMMA SessExecKeepsInv ==
  ASSUME DurabilityInv, NEW t \in Txn, SessExec(t)
  PROVE  DurabilityInv'
<1> DEFINE c == txn[t].cmd
           r == SessResult(sess[c.seid], c)
<1>0. /\ TypeOK /\ EstRecord /\ FlowShape /\ RecordHasCtx
  BY DEF DurabilityInv
<1>1. /\ c.op \in SessOp
      /\ SessRun(c)
      /\ txn' = [txn EXCEPT ![t] = [@ EXCEPT !.res = r]]
      /\ UNCHANGED <<smfVars, cache, vdp, bg, stores, idVars, tx, ctxUse>>
  BY DEF SessExec
<1>2. /\ txn[t] \in TxnRecord /\ Shape(txn[t]) /\ c \in Command /\ CommandOK(c)
  BY OwnFacts DEF TxnRecord
<1>3. c.seid \in Seid /\ sess[c.seid] \in SessRecord
      /\ (sess[c.seid].ver # 0 => sess[c.seid].ctx \in Ctx)
  BY <1>0, <1>1, <1>2 DEF CommandOK, TypeOK, RecordHasCtx
<1> HIDE DEF c
<1>4. /\ r \in {"OK", "CONFLICT", "GONE"}
      /\ c.op = "CAS" /\ r = "OK" => SessEffect(sess[c.seid], c).ver # 0
      /\ c.op = "PERSIST" => ~SessEffect(sess[c.seid], c).ttl
  BY <1>1, <1>2, <1>3, EffectFacts
<1> HIDE DEF r
<1>5. /\ sess' \in [Seid -> SessRecord] /\ RecordHasCtx' /\ AcceptedDurable'
      /\ refused \subseteq refused' /\ refused' \subseteq Seid
      /\ \/ sess'[c.seid] = SessEffect(sess[c.seid], c)
         \/ c.op = "PERSIST" /\ sess' = sess /\ c.seid \in refused'
      /\ \A u \in Txn, s \in Seid :
           Establishing(u, s) /\ sess[s].ver # 0 =>
             /\ sess'[s].ver # 0
             /\ ~sess[s].ttl => ~sess'[s].ttl
  BY <1>1, <1>2, CommandKeepsRecords DEF smfVars
<1>6. r \in Result
  BY <1>4 DEF Result
<1>7. /\ txn' \in [Txn -> TxnRecord]
      /\ \A u \in Txn : u # t => txn'[u] = txn[u]
      /\ txn'[t].res = r /\ txn'[t].cb = txn[t].cb /\ txn'[t].seid = txn[t].seid
      /\ SeidOnce' /\ FlowShape' /\ CommandsOK' /\ CacheRepeats' /\ TargetKnown'
  BY <1>1, <1>6, AnswerKeeps DEF smfVars, idVars
<1>8. TypeOK'
  BY <1>0, <1>1, <1>5, <1>7 DEF TypeOK, smfVars, idVars
<1>9. EstRecord'
  <2> SUFFICES ASSUME NEW u \in Txn
               PROVE  /\ \/ txn'[u].cb \in {"vdp_create_cb", "confirm_cb"}
                         \/ txn'[u].cb = "cas_write_cb" /\ txn'[u].res = "OK"
                         => sess'[txn'[u].seid].ver # 0
                      /\ txn'[u].cb = "confirm_cb" /\ txn'[u].res = "OK"
                         => ~sess'[txn'[u].seid].ttl \/ txn'[u].seid \in refused'
    BY DEF EstRecord
  <2>1. txn'[u].cb = txn[u].cb /\ txn'[u].seid = txn[u].seid /\ (u # t => txn'[u] = txn[u])
    BY <1>7
  <2>2. txn[u].cb \in EstWait => txn[u].seid \in Seid /\ Establishing(u, txn[u].seid)
    BY <1>0 DEF FlowShape, Shape, Establishing
  <2>3. CASE u # t
    BY <1>0, <1>5, <2>1, <2>2, <2>3 DEF EstRecord, EstWait
  <2>4. CASE u = t
    <3>1. CASE txn[t].cb = "cas_write_cb"
      BY <1>2, <1>4, <1>5, <1>7, <2>1, <2>4, <3>1 DEF Shape, c
    <3>2. CASE txn[t].cb = "confirm_cb"
      <4>1. c.op = "PERSIST" /\ c.seid = txn[t].seid
        BY <1>2, <3>2 DEF Shape, c
      <4>2. sess[txn[t].seid].ver # 0
        BY <1>0, <3>2 DEF EstRecord
      <4> QED
        BY <1>4, <1>5, <2>1, <2>2, <2>4, <3>2, <4>1, <4>2 DEF EstWait
    <3>3. CASE txn[t].cb = "vdp_create_cb"
      BY <1>0, <1>5, <2>1, <2>2, <2>4, <3>3 DEF EstRecord, EstWait
    <3> QED
      BY <2>1, <2>4, <3>1, <3>2, <3>3
  <2> QED
    BY <2>3, <2>4
<1> QED
  BY <1>5, <1>7, <1>8, <1>9 DEF DurabilityInv

(* The VDP's decision on an awaited command preserves the invariant.       *)
LEMMA VdpExecKeepsInv ==
  ASSUME DurabilityInv, NEW t \in Txn, VdpExec(t)
  PROVE  DurabilityInv'
<1> DEFINE c == txn[t].cmd
<1>0. /\ TypeOK /\ EstRecord /\ FlowShape /\ RecordHasCtx /\ AcceptedDurable
  BY DEF DurabilityInv
<1>1. /\ vdp' = [vdp EXCEPT ![c.seid] = VdpEffect(@, c)] \/ vdp' = vdp
      /\ UNCHANGED <<smfVars, redisVars, bg, stores, idVars, tx, ctxUse>>
  BY DEF VdpExec
<1>2. PICK r \in {"ACCEPT", "REJECT"} : txn' = [txn EXCEPT ![t] = [@ EXCEPT !.res = r]]
  BY DEF VdpExec, VdpAnswer
<1>3. c \in Command
  BY OwnFacts DEF TxnRecord
<1>4. \A rule \in Ctx \cup {NULL} : VdpEffect(rule, c) \in Ctx \cup {NULL}
  BY <1>3 DEF VdpEffect, Command
<1>5. vdp' \in [Seid -> Ctx \cup {NULL}]
  <2> HIDE DEF c
  <2> QED
    BY <1>0, <1>1, <1>4 DEF TypeOK
<1>6. r \in Result
  BY DEF Result
<1>7. /\ txn' \in [Txn -> TxnRecord]
      /\ \A u \in Txn : u # t => txn'[u] = txn[u]
      /\ txn'[t].res = r /\ txn'[t].cb = txn[t].cb /\ txn'[t].seid = txn[t].seid
      /\ SeidOnce' /\ FlowShape' /\ CommandsOK' /\ CacheRepeats' /\ TargetKnown'
  BY <1>1, <1>2, <1>6, AnswerKeeps DEF smfVars, idVars, redisVars
<1>8. TypeOK'
  BY <1>0, <1>1, <1>5, <1>7 DEF TypeOK, smfVars, redisVars, idVars
<1>9. EstRecord'
  <2> SUFFICES ASSUME NEW u \in Txn
               PROVE  /\ \/ txn'[u].cb \in {"vdp_create_cb", "confirm_cb"}
                         \/ txn'[u].cb = "cas_write_cb" /\ txn'[u].res = "OK"
                         => sess[txn'[u].seid].ver # 0
                      /\ txn'[u].cb = "confirm_cb" /\ txn'[u].res = "OK"
                         => ~sess[txn'[u].seid].ttl \/ txn'[u].seid \in refused
    BY <1>1 DEF EstRecord, redisVars
  <2> QED
    BY <1>0, <1>2, <1>7 DEF EstRecord
<1>10. RecordHasCtx' /\ AcceptedDurable'
  BY <1>0, <1>1 DEF RecordHasCtx, AcceptedDurable, Confirmed, AcceptedSeids, redisVars, smfVars
<1> QED
  BY <1>7, <1>8, <1>9, <1>10 DEF DurabilityInv

(* When no transaction, reply, SEID or request changes, the invariant's    *)
(* parts about them survive, if the commands under way only get fewer.     *)
LEMMA QuietParts ==
  ASSUME DurabilityInv, UNCHANGED <<txn, target, tx, seidUsed>>, bg' \subseteq bg
  PROVE  /\ SeidOnce' /\ TargetKnown' /\ FlowShape' /\ CommandsOK'
         /\ AcceptedSeids' = AcceptedSeids
<1>0. SeidOnce /\ TargetKnown /\ FlowShape /\ CommandsOK /\ TypeOK
  BY DEF DurabilityInv
<1>1. AcceptedSeids' = AcceptedSeids
  BY DEF AcceptedSeids
<1>2. \A u \in Txn : \A s : Establishing(u, s)' => Establishing(u, s)
  BY DEF Establishing
<1>3. SeidOnce' /\ \A c \in Command : CommandOK(c) => CommandOK(c)'
  BY <1>1, <1>2, OwnershipKept
<1>4. CommandsOK'
  BY <1>0, <1>3 DEF CommandsOK, TypeOK, TxnRecord
<1>5. FlowShape'
  BY <1>0 DEF FlowShape, Shape
<1>6. TargetKnown'
  BY <1>0, <1>1 DEF TargetKnown
<1> QED
  BY <1>1, <1>3, <1>4, <1>5, <1>6

(* A command nobody waits for takes effect: the invariant holds of it too. *)
LEMMA BgExecKeepsInv ==
  ASSUME DurabilityInv, NEW c \in bg, BgExec(c)
  PROVE  DurabilityInv'
<1>0. TypeOK /\ CacheRepeats /\ EstRecord /\ FlowShape /\ RecordHasCtx /\ AcceptedDurable
  BY DEF DurabilityInv
<1>1. /\ bg' \subseteq bg
      /\ UNCHANGED <<smfVars, cache, txn, stores, idVars, tx, ctxUse>>
  BY DEF BgExec
<1>2. c \in Command /\ CommandOK(c)
  BY DEF DurabilityInv, TypeOK, CommandsOK
<1>3. SeidOnce' /\ TargetKnown' /\ FlowShape' /\ CommandsOK' /\ AcceptedSeids' = AcceptedSeids
  BY <1>1, QuietParts DEF smfVars, idVars
<1>4. CacheRepeats'
  BY <1>0, <1>1 DEF CacheRepeats
<1>5. CASE c.op \in SessOp /\ SessRun(c) /\ vdp' = vdp
  <2>1. /\ sess' \in [Seid -> SessRecord] /\ RecordHasCtx' /\ AcceptedDurable'
        /\ refused \subseteq refused' /\ refused' \subseteq Seid
        /\ \A u \in Txn, s \in Seid :
             Establishing(u, s) /\ sess[s].ver # 0 =>
               /\ sess'[s].ver # 0
               /\ ~sess[s].ttl => ~sess'[s].ttl
    BY <1>1, <1>2, <1>5, CommandKeepsRecords DEF smfVars
  <2>2. TypeOK'
    BY <1>0, <1>1, <1>5, <2>1 DEF TypeOK, smfVars, idVars
  <2>3. \A u \in Txn : txn[u].cb \in EstWait =>
          txn[u].seid \in Seid /\ Establishing(u, txn[u].seid)
    BY <1>0 DEF FlowShape, Shape, Establishing
  <2>4. EstRecord'
    BY <1>0, <1>1, <2>1, <2>3 DEF EstRecord, EstWait
  <2> QED
    BY <1>3, <1>4, <2>1, <2>2, <2>4 DEF DurabilityInv
<1>6. CASE /\ vdp' = [vdp EXCEPT ![c.seid] = VdpEffect(@, c)]
           /\ sess' = sess /\ refused' = refused
  <2>1. \A rule \in Ctx \cup {NULL} : VdpEffect(rule, c) \in Ctx \cup {NULL}
    BY <1>2 DEF VdpEffect, Command
  <2>2. vdp' \in [Seid -> Ctx \cup {NULL}]
    BY <1>0, <1>6, <2>1 DEF TypeOK
  <2>3. TypeOK'
    BY <1>0, <1>1, <1>6, <2>2 DEF TypeOK, smfVars, idVars
  <2>4. EstRecord' /\ RecordHasCtx' /\ AcceptedDurable'
    BY <1>0, <1>1, <1>3, <1>6 DEF EstRecord, RecordHasCtx, AcceptedDurable, Confirmed, smfVars
  <2> QED
    BY <1>3, <1>4, <2>3, <2>4 DEF DurabilityInv
<1> QED
  BY <1>5, <1>6 DEF BgExec

(* The retransmit cache's traffic and lost commands preserve the           *)
(* invariant.                                                              *)
LEMMA CacheStepsKeepInv ==
  ASSUME DurabilityInv,
         \/ \E x \in stores : StoreExec(x)
         \/ \E r \in Req : CacheExpires(r)
         \/ BgLost
  PROVE  DurabilityInv'
<1>0. TypeOK /\ CacheRepeats /\ EstRecord /\ RecordHasCtx /\ AcceptedDurable
  BY DEF DurabilityInv
<1>1. /\ bg' \subseteq bg /\ stores' \subseteq stores
      /\ UNCHANGED <<smfVars, txn, sess, refused, vdp, idVars, tx, ctxUse>>
  BY DEF StoreExec, CacheExpires, BgLost, redisVars
<1>2. SeidOnce' /\ TargetKnown' /\ FlowShape' /\ CommandsOK' /\ AcceptedSeids' = AcceptedSeids
  BY <1>1, QuietParts DEF smfVars, idVars
<1>3. EstRecord' /\ RecordHasCtx' /\ AcceptedDurable'
  BY <1>0, <1>1, <1>2 DEF EstRecord, RecordHasCtx, AcceptedDurable, Confirmed, smfVars
<1>4. cache' \in [Req -> Reply \cup {NULL}] /\ \A r \in Req : cache'[r] = NULL \/ cache'[r] \in tx
  <2>1. CASE \E x \in stores : StoreExec(x)
    <3>1. PICK x \in stores : StoreExec(x)
      BY <2>1
    <3>2. cache' = [cache EXCEPT ![x.req] = x]
      BY <3>1 DEF StoreExec
    <3> QED
      BY <1>0, <3>1, <3>2 DEF TypeOK, CacheRepeats
  <2>2. CASE \E r \in Req : CacheExpires(r)
    <3>1. PICK r \in Req : CacheExpires(r)
      BY <2>2
    <3>2. cache' = [cache EXCEPT ![r] = NULL]
      BY <3>1 DEF CacheExpires
    <3> QED
      BY <1>0, <3>2 DEF TypeOK, CacheRepeats
  <2>3. CASE BgLost
    BY <1>0, <2>3 DEF BgLost, redisVars, TypeOK, CacheRepeats
  <2> QED
    BY <2>1, <2>2, <2>3
<1>5. CacheRepeats'
  BY <1>0, <1>1, <1>4 DEF CacheRepeats
<1>6. TypeOK'
  BY <1>0, <1>1, <1>4 DEF TypeOK, smfVars, idVars
<1> QED
  BY <1>2, <1>3, <1>5, <1>6 DEF DurabilityInv

(* A pending record that expires is neither an establishment's in progress *)
(* nor confirmed.                                                          *)
LEMMA PendingExpiresKeepsInv ==
  ASSUME DurabilityInv, NEW s \in Seid, PendingExpires(s)
  PROVE  DurabilityInv'
<1>0. TypeOK /\ CacheRepeats /\ FlowShape /\ EstRecord /\ RecordHasCtx /\ AcceptedDurable
  BY DEF DurabilityInv
<1>1. /\ sess[s].ttl
      /\ \A t \in Txn : ~(txn[t].seid = s /\ txn[t].req \in EstReq)
      /\ sess' = [sess EXCEPT ![s] = NoSession]
      /\ UNCHANGED <<smfVars, txn, cache, refused, vdp, bg, stores, idVars, tx, ctxUse>>
  BY DEF PendingExpires
<1>2. NoSession \in SessRecord /\ NoSession.ver = 0
  BY DEF NoSession, SessRecord
<1>3. /\ sess' \in [Seid -> SessRecord] /\ sess'[s].ver = 0
      /\ \A q \in Seid : q # s => sess'[q] = sess[q]
  BY <1>0, <1>1, <1>2 DEF TypeOK
<1>4. SeidOnce' /\ TargetKnown' /\ FlowShape' /\ CommandsOK' /\ AcceptedSeids' = AcceptedSeids
  BY <1>1, QuietParts DEF smfVars, idVars
<1>5. EstRecord'
  <2> SUFFICES ASSUME NEW u \in Txn
               PROVE  /\ \/ txn[u].cb \in {"vdp_create_cb", "confirm_cb"}
                         \/ txn[u].cb = "cas_write_cb" /\ txn[u].res = "OK"
                         => sess'[txn[u].seid].ver # 0
                      /\ txn[u].cb = "confirm_cb" /\ txn[u].res = "OK"
                         => ~sess'[txn[u].seid].ttl \/ txn[u].seid \in refused
    BY <1>1 DEF EstRecord
  <2>1. txn[u].cb \in EstWait => txn[u].seid \in Seid /\ txn[u].seid # s
    BY <1>0, <1>1 DEF FlowShape, Shape, EstCb
  <2> QED
    BY <1>0, <1>3, <2>1 DEF EstRecord, EstWait
<1>6. RecordHasCtx' /\ CacheRepeats'
  BY <1>0, <1>1, <1>3 DEF RecordHasCtx, CacheRepeats
<1>7. AcceptedDurable'
  <2> SUFFICES ASSUME NEW q \in AcceptedSeids, q \notin refused
               PROVE  Confirmed(q)' \/ \E d \in DelReq : target[d] = q
    BY <1>1, <1>4 DEF AcceptedDurable, smfVars
  <2>1. q \in Seid
    BY DEF DurabilityInv, SeidOnce, TypeOK
  <2> QED
    BY <1>0, <1>1, <1>3, <2>1 DEF AcceptedDurable, Confirmed
<1>8. TypeOK'
  BY <1>0, <1>1, <1>3 DEF TypeOK, smfVars, idVars
<1> QED
  BY <1>4, <1>5, <1>6, <1>7, <1>8 DEF DurabilityInv

(* A pod that dies leaves its commands under way and nothing it promised   *)
(* undone.                                                                 *)
LEMMA PodCrashKeepsInv ==
  ASSUME DurabilityInv, NEW p \in Pod, PodCrash(p)
  PROVE  DurabilityInv'
<1>0. /\ TypeOK /\ CacheRepeats /\ SeidOnce /\ TargetKnown /\ FlowShape
      /\ CommandsOK /\ RecordHasCtx /\ EstRecord /\ AcceptedDurable
  BY DEF DurabilityInv
<1>1. /\ bg' = bg \cup UNION {Late(<<p, i>>) : i \in Slot}
      /\ txn' = [t \in Txn |-> IF t[1] = p THEN Idle ELSE txn[t]]
      /\ ctxUse' = [ctxUse EXCEPT ![p] = 0]
      /\ UNCHANGED <<smfVars, redisVars, vdp, stores, idVars, tx>>
  BY DEF PodCrash
<1>2. \A u \in Txn : txn'[u] = Idle \/ txn'[u] = txn[u]
  BY <1>1
<1>3. txn' \in [Txn -> TxnRecord]
  BY <1>0, <1>1, IdleFacts DEF TypeOK
<1>4. CacheRepeats' /\ TargetKnown' /\ AcceptedSeids' = AcceptedSeids
  BY <1>1, ReplyPartsKept DEF smfVars, redisVars
<1>5. \A u \in Txn : \A s : Establishing(u, s)' => Establishing(u, s)
  BY <1>2, IdleFacts DEF Establishing, EstWait
<1>6. SeidOnce' /\ \A c \in Command : CommandOK(c) => CommandOK(c)'
  BY <1>1, <1>4, <1>5, OwnershipKept DEF smfVars, idVars
<1>7. ASSUME NEW c \in bg' PROVE c \in Command /\ CommandOK(c)
  <2>1. CASE c \in bg
    BY <1>0, <2>1 DEF TypeOK, CommandsOK
  <2>2. CASE c \notin bg
    <3>1. PICK i \in Slot : c \in Late(<<p, i>>)
      BY <1>1, <2>2
    <3>2. <<p, i>> \in Txn
      BY DEF Txn
    <3>3. c = txn[<<p, i>>].cmd
      BY <3>1 DEF Late
    <3> QED
      BY <1>0, <3>2, <3>3 DEF TypeOK, TxnRecord, CommandsOK
  <2> QED
    BY <2>1, <2>2
<1>8. CommandsOK'
  <2>1. ASSUME NEW u \in Txn PROVE CommandOK(txn[u].cmd)'
    <3>1. ASSUME NEW c, c = txn[u].cmd PROVE CommandOK(c)'
      BY <1>0, <1>6, <3>1 DEF CommandsOK, TypeOK, TxnRecord
    <3>2. CASE txn'[u] = txn[u]
      BY <3>1, <3>2 DEF CommandOK, Deletable
    <3>3. CASE txn'[u] = Idle
      BY <3>3, IdleFacts DEF CommandOK, SessOp
    <3> QED
      BY <1>2, <3>2, <3>3
  <2> QED
    BY <1>6, <1>7, <2>1 DEF CommandsOK
<1>9. FlowShape'
  <2>1. \A u \in Txn : Shape(txn'[u])
    BY <1>0, <1>2, IdleStep DEF FlowShape
  <2> QED
    BY <1>1, <2>1 DEF FlowShape, Shape, smfVars
<1>10. EstRecord'
  BY <1>0, <1>1, <1>2, IdleFacts DEF EstRecord, redisVars
<1>11. RecordHasCtx' /\ AcceptedDurable'
  BY <1>0, <1>1, <1>4 DEF RecordHasCtx, AcceptedDurable, Confirmed, redisVars, smfVars
<1>12. TypeOK'
  BY <1>0, <1>1, <1>3, <1>7 DEF TypeOK, smfVars, redisVars, idVars
<1> QED
  BY <1>4, <1>6, <1>8, <1>9, <1>10, <1>11, <1>12 DEF DurabilityInv

(* A request that arrives is dropped, refused or starts a transaction; a   *)
(* deletion makes its session deletable, nothing takes that back.          *)
LEMMA HandleMsgKeepsInv ==
  ASSUME DurabilityInv, NEW p \in Pod, NEW r \in Req, v_flow_handle_msg(p, r)
  PROVE  DurabilityInv'
<1>0. /\ TypeOK /\ CacheRepeats /\ SeidOnce /\ TargetKnown /\ FlowShape
      /\ CommandsOK /\ RecordHasCtx /\ EstRecord /\ AcceptedDurable
  BY DEF DurabilityInv
<1>1. PICK s \in Targets(r) :
        /\ target' = IF r \in EstReq THEN target ELSE [target EXCEPT ![r] = s]
        /\ reply_ctx_not_found(r) \/ Dropped(p, r) \/ Started(p, r, s)
  BY DEF v_flow_handle_msg
<1>2. /\ xmit' = [xmit EXCEPT ![r] = @ + 1]
      /\ UNCHANGED <<redisVars, vdp, bg, stores, idVars, ctxUse>>
  BY DEF v_flow_handle_msg
<1>3. AcceptedSeids \subseteq Seid
  BY <1>0 DEF SeidOnce, TypeOK
<1>4. /\ r \in EstReq => s = NULL
      /\ r \in BadReq => s = NULL
      /\ r \notin EstReq \cup BadReq => s \in AcceptedSeids /\ s \in Seid
      /\ r \notin EstReq => target[r] = NULL \/ target[r] = s
  BY <1>0, <1>1, <1>3 DEF Targets, TargetKnown, Req
<1>5. /\ target' \in [ModReq \cup DelReq -> Seid \cup {NULL}]
      /\ \A q \in ModReq \cup DelReq : target[q] # NULL => target'[q] = target[q]
      /\ \A q \in ModReq \cup DelReq : target'[q] = target[q] \/ (q = r /\ target'[q] = s)
  BY <1>0, <1>1, <1>4 DEF TypeOK, Req
<1>6. /\ tx \subseteq tx' /\ tx' \subseteq Reply
      /\ \A x \in tx' : x \in tx \/ x.cause = "NOT_FOUND"
  BY <1>0, <1>1 DEF reply_ctx_not_found, Dropped, Started, TypeOK, Reply, Cause
<1>7. AcceptedSeids' = AcceptedSeids
  <2>1. \A q : q \in AcceptedSeids' <=> q \in AcceptedSeids
    BY <1>6, AcceptedIff, AcceptedIffNext
  <2> QED
    BY <2>1
<1>8. ASSUME NEW i \in Slot,
             Await(<<p, i>>, [Idle EXCEPT !.req = r, !.seid = s], "RECV", Entry(r), NoCmd),
             r \notin BadReq
      PROVE  \E t \in Txn, new \in TxnRecord :
               /\ txn' = [txn EXCEPT ![t] = new]
               /\ new.cb = Entry(r) /\ new.cmd = NoCmd /\ new.st = "RECV" /\ new.req = r
               /\ new.seid = s
  <2> DEFINE rec == [Idle EXCEPT !.req = r, !.seid = s]
             new == [rec EXCEPT !.st = "RECV", !.cb = Entry(r), !.cmd = NoCmd, !.res = "none"]
  <2>1. rec \in TxnRecord /\ rec.req = r /\ rec.seid = s
    BY <1>4, <1>8, IdleFacts DEF TxnRecord
  <2>2. "RECV" \in State /\ Entry(r) \in Callback
    BY DEF State, Callback, Entry
  <2>3. txn' = [txn EXCEPT ![<<p, i>>] = new]
    BY <1>8 DEF Await
  <2> HIDE DEF rec
  <2>4. /\ new \in TxnRecord /\ new.st = "RECV" /\ new.cb = Entry(r) /\ new.cmd = NoCmd
        /\ new.req = r /\ new.seid = s
    BY <2>1, <2>2, IdleFacts DEF TxnRecord, Result
  <2>5. <<p, i>> \in Txn
    BY DEF Txn
  <2> QED
    BY <2>3, <2>4, <2>5
<1>9. \/ txn' = txn
      \/ /\ r \notin BadReq
         /\ \E t \in Txn, new \in TxnRecord :
              /\ txn' = [txn EXCEPT ![t] = new]
              /\ new.cb = Entry(r) /\ new.cmd = NoCmd /\ new.st = "RECV" /\ new.req = r
              /\ new.seid = s
  BY <1>1, <1>8 DEF reply_ctx_not_found, Dropped, Started
<1>10. txn' \in [Txn -> TxnRecord]
  BY <1>0, <1>9 DEF TypeOK
<1>11. ASSUME NEW u \in Txn
       PROVE  \/ txn'[u] = txn[u]
              \/ /\ r \notin BadReq
                 /\ txn'[u].cb = Entry(r) /\ txn'[u].cmd = NoCmd /\ txn'[u].st = "RECV"
                 /\ txn'[u].req = r /\ txn'[u].seid = s
  BY <1>0, <1>9 DEF TypeOK
<1>12. Entry(r) \notin EstWait
  BY DEF Entry, EstWait
<1>13. \A u \in Txn : \A q : Establishing(u, q)' => Establishing(u, q)
  BY <1>11, <1>12 DEF Establishing
<1>14. SeidOnce' /\ \A c \in Command : CommandOK(c) => CommandOK(c)'
  BY <1>2, <1>5, <1>7, <1>13, OwnershipKept DEF idVars
<1>15. CommandsOK'
  <2>1. ASSUME NEW u \in Txn PROVE CommandOK(txn[u].cmd)'
    <3>1. ASSUME NEW c, c = txn[u].cmd PROVE CommandOK(c)'
      BY <1>0, <1>14, <3>1 DEF CommandsOK, TypeOK, TxnRecord
    <3>2. CASE txn'[u] = txn[u]
      BY <3>1, <3>2 DEF CommandOK, Deletable
    <3>3. CASE txn'[u].cmd = NoCmd
      BY <3>3, IdleFacts DEF CommandOK, SessOp
    <3> QED
      BY <1>11, <3>2, <3>3
  <2>2. ASSUME NEW c \in bg' PROVE CommandOK(c)'
    BY <1>0, <1>2, <1>14 DEF CommandsOK, TypeOK
  <2> QED
    BY <2>1, <2>2 DEF CommandsOK
<1>16. FlowShape'
  <2> SUFFICES ASSUME NEW u \in Txn PROVE Shape(txn[u])'
    BY DEF FlowShape
  <2>1. CASE txn'[u] = txn[u]
    <3>1. Shape(txn[u])
      BY <1>0 DEF FlowShape
    <3>2. ASSUME txn[u].cb \in DelCb PROVE target'[txn[u].req] = txn[u].seid
      BY <1>5, <3>1, <3>2, NullAssumption DEF Shape
    <3> QED
      BY <2>1, <3>1, <3>2 DEF Shape
  <2>2. CASE /\ r \notin BadReq
             /\ txn'[u].cb = Entry(r) /\ txn'[u].st = "RECV"
             /\ txn'[u].req = r /\ txn'[u].seid = s
    <3>1. CASE r \in EstReq
      BY <2>2, <3>1 DEF Shape, Entry, EstCb, EstWait, ModCb, DelCb
    <3>2. CASE r \in ModReq
      BY <1>4, <2>2, <3>2, RequestAssumption DEF Shape, Entry, EstCb, EstWait, ModCb, DelCb
    <3>3. CASE r \in DelReq
      <4>1. r \notin EstReq /\ r \notin ModReq
        BY <3>3, RequestAssumption
      <4>2. target'[r] = s
        BY <1>0, <1>1, <3>3, <4>1 DEF TypeOK
      <4> QED
        BY <1>4, <2>2, <3>3, <4>1, <4>2 DEF Shape, Entry, EstCb, EstWait, ModCb, DelCb
    <3> QED
      BY <3>1, <3>2, <3>3 DEF Req
  <2> QED
    BY <1>11, <2>1, <2>2
<1>17. EstRecord'
  <2> SUFFICES ASSUME NEW u \in Txn
               PROVE  /\ \/ txn'[u].cb \in {"vdp_create_cb", "confirm_cb"}
                         \/ txn'[u].cb = "cas_write_cb" /\ txn'[u].res = "OK"
                         => sess[txn'[u].seid].ver # 0
                      /\ txn'[u].cb = "confirm_cb" /\ txn'[u].res = "OK"
                         => ~sess[txn'[u].seid].ttl \/ txn'[u].seid \in refused
    BY <1>2 DEF EstRecord, redisVars
  <2> QED
    BY <1>0, <1>11, <1>12 DEF EstRecord, EstWait
<1>18. CacheRepeats' /\ RecordHasCtx'
  BY <1>0, <1>2, <1>6 DEF CacheRepeats, RecordHasCtx, redisVars
<1>19. TargetKnown'
  BY <1>0, <1>4, <1>5, <1>7, RequestAssumption DEF TargetKnown, Req
<1>20. AcceptedDurable'
  <2> SUFFICES ASSUME NEW q \in AcceptedSeids, q \notin refused
               PROVE  Confirmed(q) \/ \E d \in DelReq : target'[d] = q
    BY <1>2, <1>7 DEF AcceptedDurable, Confirmed, redisVars
  <2>1. q # NULL
    BY <1>3, NullAssumption
  <2> QED
    BY <1>0, <1>5, <2>1 DEF AcceptedDurable
<1>21. TypeOK'
  <2>1. xmit' \in [Req -> Nat]
    BY <1>0, <1>2 DEF TypeOK
  <2> QED
    BY <1>0, <1>2, <1>5, <1>6, <1>10, <2>1 DEF TypeOK, redisVars, idVars
<1> QED
  BY <1>14, <1>15, <1>16, <1>17, <1>18, <1>19, <1>20, <1>21 DEF DurabilityInv

-----------------------------------------------------------------------------
(* The theorems.                                                           *)

(* The system starts in the invariant.                                     *)
LEMMA InitHasInv == Init => DurabilityInv
<1> SUFFICES ASSUME Init PROVE DurabilityInv
  OBVIOUS
<1> USE DEF Init
<1>1. AcceptedSeids = {}
  BY DEF AcceptedSeids
<1>2. \A t \in Txn : txn[t] = Idle
  OBVIOUS
<1>3. NoSession \in SessRecord /\ NoSession.ver = 0
  BY DEF NoSession, SessRecord
<1>4. TypeOK
  BY <1>3, IdleFacts DEF TypeOK
<1>5. SeidOnce
  BY <1>1, <1>2, IdleFacts DEF SeidOnce, Establishing, EstWait
<1>6. FlowShape
  BY <1>2, IdleStep DEF FlowShape
<1>7. CommandsOK
  BY <1>2, IdleFacts DEF CommandsOK, CommandOK, SessOp
<1>8. EstRecord
  BY <1>2, IdleFacts DEF EstRecord
<1>9. CacheRepeats /\ TargetKnown /\ RecordHasCtx /\ AcceptedDurable
  BY <1>1, <1>3, RequestAssumption DEF CacheRepeats, TargetKnown, RecordHasCtx, AcceptedDurable
<1> QED
  BY <1>4, <1>5, <1>6, <1>7, <1>8, <1>9 DEF DurabilityInv

(* Every step preserves the invariant.                                     *)
LEMMA StepKeepsInv == DurabilityInv /\ [Next]_vars => DurabilityInv'
<1> SUFFICES ASSUME DurabilityInv, [Next]_vars PROVE DurabilityInv'
  OBVIOUS
<1>1. CASE \E p \in Pod, r \in Req : v_flow_handle_msg(p, r)
  BY <1>1, HandleMsgKeepsInv
<1>2. ASSUME NEW t \in Txn, Progress(t) \/ timeout_handler(t)
      PROVE  DurabilityInv'
  BY <1>2, FlowKeepsInv, SessExecKeepsInv, VdpExecKeepsInv DEF Progress
<1>3. CASE \E c \in bg : BgExec(c)
  BY <1>3, BgExecKeepsInv
<1>4. CASE \/ \E x \in stores : StoreExec(x)
           \/ \E r \in Req : CacheExpires(r)
           \/ BgLost
  BY <1>4, CacheStepsKeepInv
<1>5. CASE \E s \in Seid : PendingExpires(s)
  BY <1>5, PendingExpiresKeepsInv
<1>6. CASE \E p \in Pod : PodCrash(p)
  BY <1>6, PodCrashKeepsInv
<1>7. CASE UNCHANGED vars
  <2>1. UNCHANGED <<txn, target, tx, seidUsed>> /\ bg' \subseteq bg
    BY <1>7 DEF vars
  <2>2. SeidOnce' /\ TargetKnown' /\ FlowShape' /\ CommandsOK' /\ AcceptedSeids' = AcceptedSeids
    BY <2>1, QuietParts
  <2>3. TypeOK' /\ CacheRepeats' /\ RecordHasCtx' /\ EstRecord' /\ AcceptedDurable'
    BY <1>7, <2>2 DEF vars, DurabilityInv, TypeOK, CacheRepeats, RecordHasCtx, EstRecord,
                      AcceptedDurable, Confirmed
  <2> QED
    BY <2>2, <2>3 DEF DurabilityInv
<1> QED
  BY <1>1, <1>2, <1>3, <1>4, <1>5, <1>6, <1>7 DEF Next

(* The inductive invariant: in every reachable state the transactions of   *)
(* all pods, the commands under way, Redis and the retransmit cache agree, *)
(* whatever fails.                                                         *)
THEOREM InvariantHolds == Spec => []DurabilityInv
BY InitHasInv, StepKeepsInv, PTL DEF Spec

(* Type correctness: no callback, script or timeout of v_flow.c,           *)
(* v_sess_store.c and v_txn.c leaves a transaction, a record or a command  *)
(* ill-formed; in particular the TEID supply never goes negative.          *)
THEOREM TypeCorrect == Spec => []TypeOK
<1>1. DurabilityInv => TypeOK
  BY DEF DurabilityInv
<1> QED
  BY <1>1, InvariantHolds, PTL

(* v_flow.c's two-phase establishment: a session whose establishment was   *)
(* answered with ACCEPTED is in Redis, without a TTL, until the SMF asks   *)
(* for its deletion, for any number of pods, requests and retries and      *)
(* under every failure modelled, unless Redis refused its PERSIST.         *)
THEOREM AcceptedSessionsDurable == Spec => []AcceptedDurable
<1>1. DurabilityInv => AcceptedDurable
  BY DEF DurabilityInv
<1> QED
  BY <1>1, InvariantHolds, PTL

(* Only a Redis that refuses PERSIST makes a session an exception.         *)
LEMMA NothingRefused ==
  ASSUME "persist_refused" \notin Faults
  PROVE  Spec => [](refused = {})
<1>1. Init => refused = {}
  BY DEF Init
<1>2. refused = {} /\ [Next]_vars => (refused = {})'
  <2> SUFFICES ASSUME refused = {}, [Next]_vars PROVE refused' = {}
    OBVIOUS
  <2> USE DEF redisVars
  <2>1. CASE \E p \in Pod, r \in Req : v_flow_handle_msg(p, r)
    BY <2>1 DEF v_flow_handle_msg
  <2>2. ASSUME NEW t \in Txn, Progress(t) PROVE refused' = {}
    <3>1. CASE EstCallback(t)
      BY <3>1 DEF EstCallback, retrans_lookup_cb, cas_write_cb, vdp_create_cb, confirm_cb
    <3>2. CASE ModCallback(t)
      BY <3>2 DEF ModCallback, mod_retrans_lookup_cb, LookupThenRead, mod_read_cb, mod_cas_cb,
                  mod_vdp_cb, mod_compensate_write_cb
    <3>3. CASE DelCallback(t)
      BY <3>3 DEF DelCallback, del_retrans_lookup_cb, LookupThenRead, del_read_cb, del_vdp_cb,
                  del_delete_cb
    <3>4. CASE SessExec(t) \/ VdpExec(t)
      BY <3>4 DEF SessExec, SessRun, CanFail, VdpExec
    <3> QED
      BY <2>2, <3>1, <3>2, <3>3, <3>4 DEF Progress
  <2>3. ASSUME NEW t \in Txn, timeout_handler(t) PROVE refused' = {}
    BY <2>3 DEF timeout_handler
  <2>4. CASE \E c \in bg : BgExec(c)
    BY <2>4 DEF BgExec, SessRun, CanFail
  <2>5. CASE \/ \E x \in stores : StoreExec(x)
             \/ \E r \in Req : CacheExpires(r)
             \/ BgLost
    BY <2>5 DEF StoreExec, CacheExpires, BgLost
  <2>6. CASE \E s \in Seid : PendingExpires(s)
    BY <2>6 DEF PendingExpires
  <2>7. CASE \E p \in Pod : PodCrash(p)
    BY <2>7 DEF PodCrash
  <2>8. CASE UNCHANGED vars
    BY <2>8 DEF vars
  <2> QED
    BY <2>1, <2>2, <2>3, <2>4, <2>5, <2>6, <2>7, <2>8 DEF Next
<1> QED
  BY <1>1, <1>2, PTL DEF Spec

(* PLAN.md Change 1 as it is written: as long as Redis does not refuse     *)
(* PERSIST, every session the SMF believes exists is in Redis for good,    *)
(* whatever else fails.                                                    *)
THEOREM BelievedSessionsDurable ==
  ASSUME "persist_refused" \notin Faults
  PROVE  Spec => [](\A s \in AcceptedSeids : Confirmed(s) \/ \E d \in DelReq : target[d] = s)
<1>1. DurabilityInv /\ refused = {} =>
        \A s \in AcceptedSeids : Confirmed(s) \/ \E d \in DelReq : target[d] = s
  BY DEF DurabilityInv, AcceptedDurable
<1> QED
  BY <1>1, InvariantHolds, NothingRefused, PTL

=============================================================================
