------------------------- MODULE VpeFlowFaultProofs -------------------------
(***************************************************************************)
(* Proofs about VpeFlow's resources and answers, each for the failures it  *)
(* can stand: who holds a TEID, which record a forwarding rule belongs to, *)
(* what a retransmitted request is answered, and which contexts are taken  *)
(* from a pod's pool.                                                      *)
(*                                                                         *)
(* Turn(t, new) states what a callback of transaction t does to all of     *)
(* them, once per callback; the invariants are then preserved by turns,    *)
(* and by the steps of Redis, the VDP, time and crashes.                   *)
(***************************************************************************)
EXTENDS VpeFlowHistoryProofs, FiniteSetTheorems

Lookup == {"retrans_lookup_cb", "mod_retrans_lookup_cb", "del_retrans_lookup_cb"}
Modifying == {"mod_cas_cb", "mod_vdp_cb"}

-----------------------------------------------------------------------------
(* The invariants.                                                         *)

(* What every transaction knows of its session's record and rule, under    *)
(* any failure: an establishment that has not been accepted by the VDP has *)
(* no rule, one that was not confirmed has a TTL, and only one deletion    *)
(* removes a record.                                                       *)
SessionOK(t) ==
  /\ txn[t].cmd.op = "PERSIST" => txn[t].cb = "confirm_cb"
  /\ txn[t].cmd.op = "DEL" => txn[t].cb = "del_delete_cb"
  /\ txn[t].cb \in {"cas_write_cb", "vdp_create_cb"} /\ sess[txn[t].seid].ver # 0 =>
       sess[txn[t].seid].ttl
  /\ txn[t].cb = "cas_write_cb" => vdp[txn[t].seid] = NULL
  /\ txn[t].cb = "vdp_create_cb" =>
       txn[t].cmd.op = "VDP_CREATE" /\ (txn[t].res # "ACCEPT" => vdp[txn[t].seid] = NULL)

(* The deletion t removed the record and is about to give the TEID back.   *)
Removed(t) == txn[t].cb = "del_delete_cb" /\ txn[t].res = "OK"

SessionInv ==
  /\ \A t \in Txn : SessionOK(t)
  /\ \A t, u \in Txn : Removed(t) /\ Removed(u) /\ txn[t].seid = txn[u].seid => t = u
  /\ \A s \in Seid : /\ s \notin seidUsed => vdp[s] = NULL
                     /\ s \in AcceptedSeids => ~sess[s].ttl \/ s \in refused
  /\ \A c \in bg : c.op = "PERSIST" => Abandoned(c.seid)

(* Where the TEID d of session s is written down: in a transaction, in a   *)
(* command, in the record or in the rule.                                  *)
Names(rec, s, d) ==
  /\ rec.seid = s
  /\ \/ rec.cb \in EstWait /\ (rec.teid = d \/ rec.ctx.teid = d)
     \/ rec.cb \in Modifying /\ (rec.ctx.teid = d \/ rec.impl.teid = d)
     \/ rec.cb \in {"del_vdp_cb", "del_delete_cb"} /\ rec.ctx.teid = d

Carries(c, s, d) ==
  c.op \in {"CAS", "VDP_CREATE", "VDP_MODIFY"} /\ c.seid = s /\ c.ctx.teid = d

InRecord(s, d) == sess[s].ver # 0 /\ sess[s].ctx.teid = d
InRule(s, d) == vdp[s] # NULL /\ vdp[s].teid = d

Says(s, d) ==
  \/ InRecord(s, d) \/ InRule(s, d)
  \/ \E t \in Txn : Names(txn[t], s, d) \/ Carries(txn[t].cmd, s, d)
  \/ \E c \in bg : Carries(c, s, d)

(* Session s has a claim to its TEID: it is being established, has a       *)
(* record that is confirmed or accepted, or is about to be confirmed; or   *)
(* its deletion is about to give the TEID back; or, as long as the VDP's   *)
(* verdicts are known, it has a rule or may get one.                       *)
RuleClaim(s) ==
  /\ "vdp_timeout" \notin Faults
  /\ vdp[s] # NULL \/ \E c \in bg : c.op = "VDP_CREATE" /\ c.seid = s

Claims(s) ==
  \/ \E t \in Txn : Establishing(t, s)
  \/ sess[s].ver # 0 /\ (~sess[s].ttl \/ s \in AcceptedSeids)
  \/ \E c \in bg : c.op = "PERSIST" /\ c.seid = s
  \/ \E t \in Txn : Removed(t) /\ txn[t].seid = s
  \/ RuleClaim(s)

(* A session has one TEID, an unused SEID none; a TEID is on offer at most *)
(* once, not at all while a session claims it, and at most one does.       *)
TeidInv ==
  /\ \A s \in Seid : \A d, e : Says(s, d) /\ Says(s, e) => d = e
  /\ \A s \in Seid : \A d : Says(s, d) => s \in seidUsed /\ d \in Teid
  /\ \A d \in Teid : teidAvail[d] <= 1
  /\ \A s \in Seid : \A d \in Teid : Claims(s) /\ Says(s, d) => teidAvail[d] = 0
  /\ \A s, q \in Seid : \A d : Claims(s) /\ Says(s, d) /\ Claims(q) /\ Says(q, d) => s = q

(* Without failures that end an establishment between its rule and its     *)
(* confirmation, or leave the confirmation without effect: a rule has its  *)
(* record, one whose record is pending is of an establishment in progress, *)
(* and what is being deleted has no rule.                                  *)
RecordFaults == {"dispatch", "confirm_err", "persist_refused", "vdp_timeout", "hard_timeout",
                 "crash"}

RuleInv ==
  /\ RuleHasRecord /\ refused = {}
  /\ \A s \in Seid : vdp[s] # NULL /\ sess[s].ttl => \E t \in Txn : Establishing(t, s)
  /\ \A c \in bg : /\ c.op # "VDP_CREATE"
                   /\ c.op = "DEL" => vdp[c.seid] = NULL

(* Without overlap, and with a cache that keeps what it is given: one flow *)
(* at a time works on a request, one that is past the cache has no answer  *)
(* yet, and every answer is in the cache or on its way there.              *)
AnswerFaults == {"lookup_err", "store_lost", "cache_expiry"}

AnswerInv ==
  /\ \A t, u \in Txn : txn[t].req = txn[u].req /\ txn[t].req # NULL => t = u
  /\ \A t \in Txn : txn[t].req # NULL =>
       /\ txn[t].req \notin BadReq
       /\ \A x \in stores : x.req # txn[t].req
       /\ txn[t].cb \notin Lookup => \A x \in tx : x.req # txn[t].req
  /\ \A x \in tx : IF x.req \in BadReq THEN x.cause = "NOT_FOUND" /\ x.seid = NULL
                   ELSE x \in stores \/ cache[x.req] = x
  /\ SameAnswer

(* Without hard timeouts, whose handler forgets the snapshot: which        *)
(* contexts a transaction holds follows from the callback it waits for.    *)
CtxShape(rec) ==
  /\ rec.cb \in Lookup \cup {"none"} <=> rec.ctx = NULL
  /\ rec.cb \in Modifying <=> rec.impl # NULL

CtxInv == CtxBaseline /\ \A t \in Txn : CtxShape(txn[t])

-----------------------------------------------------------------------------
(* Turns: what a callback of transaction t does when its record becomes    *)
(* new.                                                                    *)

(* It answers from the cache, goes on past the cache, answers what it has  *)
(* found out itself, or ends without an answer.                            *)
AnswerTurn(t, new) ==
  \/ new = Idle /\ tx' = tx /\ stores' = stores
  \/ new = Idle /\ cache[txn[t].req] # NULL /\ tx' = tx \cup {cache[txn[t].req]} /\ stores' = stores
  \/ /\ txn[t].cb \in Lookup => CacheMiss(t)
     /\ \/ new = Idle /\ \E x : x.req = txn[t].req /\ tx' = tx \cup {x} /\ stores' = stores \cup {x}
        \/ /\ new.req = txn[t].req /\ new.cb \notin Lookup /\ txn[t].req # NULL
           /\ tx' = tx /\ stores' = stores

(* The contexts it takes or gives back are those it then holds or no       *)
(* longer holds.                                                           *)
Held(rec) == CtxHeld(rec.ctx) + CtxHeld(rec.impl)

CtxTurn(t, new) ==
  CtxShape(txn[t]) => CtxShape(new) /\ CtxFree(t, Held(txn[t]) - Held(new))

(* It takes a TEID on offer for a SEID nobody had, or passes on the one it *)
(* has or has read; it gives one back only when it unmade its session.     *)
Taken(s, d) ==
  /\ s \in Seid \ seidUsed /\ seidUsed' = seidUsed \cup {s}
  /\ d \in Teid /\ teidAvail[d] > 0 /\ teidAvail' = [teidAvail EXCEPT ![d] = @ - 1]

Refused(t) ==
  \/ txn[t].cb = "cas_write_cb"
  \/ txn[t].cb = "vdp_create_cb" /\ (txn[t].res = "REJECT" \/ CanFail("vdp_timeout"))

Freed(t, d) ==
  \/ Refused(t) /\ d = txn[t].teid
  \/ Removed(t) /\ d = txn[t].ctx.teid

Supply(t, new) ==
  \/ teidAvail' = teidAvail
  \/ \E d \in Teid : teidAvail[d] > 0 /\ teidAvail' = [teidAvail EXCEPT ![d] = @ - 1]
  \/ new = Idle /\ \E d : Freed(t, d) /\ teidAvail' = [teidAvail EXCEPT ![d] = @ + 1]

Passes(t, new) ==
  \A s, d : Names(new, s, d) \/ Carries(new.cmd, s, d) =>
    Names(txn[t], s, d) \/ Carries(txn[t].cmd, s, d) \/ InRecord(s, d) \/ Taken(s, d)

(* A confirmation is left behind only by the establishment it is of, which *)
(* then gives no positive answer.                                          *)
PersistTurn(t, new) ==
  \A c \in bg' \ bg : c.op = "PERSIST" =>
    /\ txn[t].cb = "confirm_cb" /\ c.seid = txn[t].seid /\ new = Idle
    /\ \A x \in tx' \ tx : x.cause # "ACCEPTED"

(* Without the failures of RecordFaults an establishment ends before the   *)
(* VDP accepts or after the confirmation, and deletes only in the former   *)
(* case.                                                                   *)
RuleTurn(t, new) ==
  Faults \cap RecordFaults = {} =>
    /\ txn[t].cb = "vdp_create_cb" /\ new = Idle => txn[t].res = "REJECT"
    /\ txn[t].cb = "confirm_cb" /\ new = Idle => txn[t].res = "OK"
    /\ \A c \in bg' \ bg : c.op = "DEL" =>
         c = txn[t].cmd \/ (c.seid = txn[t].seid /\ Refused(t))

Turn(t, new) ==
  /\ txn' = [txn EXCEPT ![t] = new] /\ new \in TxnRecord
  /\ AnswerTurn(t, new) /\ CtxTurn(t, new) /\ Supply(t, new) /\ Passes(t, new)
  /\ PersistTurn(t, new) /\ RuleTurn(t, new)
  /\ xmit' = xmit /\ target' = target /\ sess' = sess /\ cache' = cache /\ vdp' = vdp

-----------------------------------------------------------------------------
(* The ways a turn ends.                                                   *)

(* An idle transaction holds no context and names no TEID.                 *)
LEMMA IdleHolds ==
  /\ CtxShape(Idle) /\ Held(Idle) = 0
  /\ \A s, d : ~Names(Idle, s, d) /\ ~Carries(Idle.cmd, s, d)
BY DEF CtxShape, Idle, NoCmd, Lookup, Modifying, Held, CtxHeld, Names, Carries, EstWait

(* Held is a number of contexts.                                           *)
LEMMA HeldType == \A rec : Held(rec) \in Int /\ CtxHeld(rec.ctx) \in Int /\ CtxHeld(rec.impl) \in Int
BY DEF Held, CtxHeld

(* A command t leaves behind is its own, without an answer.                *)
LEMMA LateFacts ==
  ASSUME NEW t, NEW c \in Late(t)
  PROVE  c = txn[t].cmd /\ txn[t].res = "none" /\ c # NoCmd
BY DEF Late

(* finish().                                                               *)
LEMMA FinishTurn ==
  ASSUME DurabilityInv, SessionInv, NEW t \in Txn, NEW cause, NEW freed, NEW issued,
         finish(t, cause, freed, issued),
         txn[t].cb \in Lookup => CacheMiss(t),
         CtxShape(txn[t]) => freed = CtxHeld(txn[t].impl),
         \A c \in issued : c.op = "DEL" /\ c.seid = txn[t].seid /\ Refused(t),
         cause = "ACCEPTED" => txn[t].res # "none",
         Supply(t, Idle), 
         Faults \cap RecordFaults = {} =>
           /\ txn[t].cb = "vdp_create_cb" => txn[t].res = "REJECT"
           /\ txn[t].cb = "confirm_cb" => txn[t].res = "OK",
         UNCHANGED <<smfVars, redisVars, vdp>>
  PROVE  Turn(t, Idle)
<1>1. txn' = [txn EXCEPT ![t] = Idle] /\ Idle \in TxnRecord
  BY IdleFacts DEF finish
<1>2. AnswerTurn(t, Idle)
  <2>1. ReplyOf(t, cause).req = txn[t].req
    BY DEF ReplyOf
  <2> QED
    BY <2>1 DEF finish, AnswerTurn
<1>3. CtxTurn(t, Idle)
  <2> SUFFICES ASSUME CtxShape(txn[t]) PROVE CtxFree(t, Held(txn[t]) - Held(Idle))
    BY IdleHolds DEF CtxTurn
  <2>1. freed + CtxHeld(txn[t].ctx) = Held(txn[t]) - Held(Idle)
    BY IdleHolds, HeldType DEF Held
  <2>2. CtxFree(t, freed + CtxHeld(txn[t].ctx))
    BY DEF finish
  <2> QED
    BY <2>1, <2>2
<1>4. Passes(t, Idle)
  BY IdleHolds DEF Passes
<1>5. ASSUME NEW c \in bg' \ bg, c \notin issued PROVE c = txn[t].cmd /\ txn[t].res = "none"
  BY <1>5, LateFacts DEF finish
<1>6. PersistTurn(t, Idle)
  <2> SUFFICES ASSUME NEW c \in bg' \ bg, c.op = "PERSIST"
               PROVE  /\ txn[t].cb = "confirm_cb" /\ c.seid = txn[t].seid
                      /\ \A x \in tx' \ tx : x.cause # "ACCEPTED"
    BY DEF PersistTurn
  <2>1. c = txn[t].cmd /\ txn[t].res = "none"
    BY <1>5
  <2>2. txn[t].cb = "confirm_cb" /\ c.seid = txn[t].seid
    BY <2>1, OwnFacts DEF SessionInv, SessionOK, Shape
  <2>3. \A x \in tx' \ tx : x = ReplyOf(t, cause)
    BY DEF finish
  <2> QED
    BY <2>1, <2>2, <2>3 DEF ReplyOf
<1>7. RuleTurn(t, Idle)
  BY <1>5 DEF RuleTurn
<1> QED
  BY <1>1, <1>2, <1>3, <1>4, <1>6, <1>7 DEF Turn, smfVars, redisVars

(* The same when no command is issued.                                     *)
LEMMA FailTurn ==
  ASSUME DurabilityInv, SessionInv, NEW t \in Txn, NEW cause, NEW freed,
         finish(t, cause, freed, {}),
         txn[t].cb \in Lookup => CacheMiss(t),
         CtxShape(txn[t]) => freed = CtxHeld(txn[t].impl),
         cause = "ACCEPTED" => txn[t].res # "none",
         Supply(t, Idle),
         Faults \cap RecordFaults = {} =>
           /\ txn[t].cb = "vdp_create_cb" => txn[t].res = "REJECT"
           /\ txn[t].cb = "confirm_cb" => txn[t].res = "OK",
         UNCHANGED <<smfVars, redisVars, vdp>>
  PROVE  Turn(t, Idle)
<1>1. \A c \in {} : c.op = "DEL" /\ c.seid = txn[t].seid /\ Refused(t)
  OBVIOUS
<1> QED
  BY <1>1, FinishTurn

(* ReplyFromCache().                                                       *)
LEMMA CacheHitTurn ==
  ASSUME DurabilityInv, NEW t \in Txn, txn[t].cb \in Lookup, ReplyFromCache(t),
         UNCHANGED <<smfVars, redisVars, vdp>>
  PROVE  Turn(t, Idle)
<1>1. /\ txn' = [txn EXCEPT ![t] = Idle] /\ Idle \in TxnRecord /\ AnswerTurn(t, Idle)
      /\ bg' = bg /\ teidAvail' = teidAvail /\ ctxUse' = ctxUse
  BY IdleFacts DEF ReplyFromCache, AnswerTurn, idVars
<1>2. CtxTurn(t, Idle)
  <2> SUFFICES ASSUME CtxShape(txn[t]) PROVE CtxFree(t, Held(txn[t]) - Held(Idle))
    BY IdleHolds DEF CtxTurn
  <2>1. txn[t].ctx = NULL /\ txn[t].impl = NULL
    BY DEF CtxShape, Lookup, Modifying
  <2>2. Held(txn[t]) - Held(Idle) = 0
    BY <2>1, IdleHolds DEF Held, CtxHeld
  <2>3. ctxUse \in [Pod -> Int] /\ t[1] \in Pod
    BY OwnFacts
  <2>4. ctxUse = [ctxUse EXCEPT ![t[1]] = @ - 0]
    BY <2>3
  <2> QED
    BY <1>1, <2>2, <2>4 DEF CtxFree
<1>3. Supply(t, Idle) /\ Passes(t, Idle) /\ PersistTurn(t, Idle)
  BY <1>1, IdleHolds DEF Supply, Passes, PersistTurn
<1>4. RuleTurn(t, Idle)
  BY <1>1 DEF RuleTurn, Lookup
<1> QED
  BY <1>1, <1>2, <1>3, <1>4 DEF Turn, smfVars, redisVars

(* Await: the transaction goes on to its next call; the command it waited  *)
(* for may stay behind when the VDP did not answer.                        *)
LEMMA AwaitTurn ==
  ASSUME DurabilityInv, SessionInv, NEW t \in Txn, NEW rec, NEW st, NEW cb, NEW cmd, NEW new,
         Await(t, rec, st, cb, cmd),
         new = [rec EXCEPT !.st = st, !.cb = cb, !.cmd = cmd, !.res = "none"],
         new \in TxnRecord, new.req = txn[t].req, txn[t].req # NULL, new.cb \notin Lookup,
         txn[t].cb \in Lookup => CacheMiss(t), new.cb # "none",
         bg' = bg \/ (bg' = bg \cup Late(t) /\ txn[t].cb = "mod_vdp_cb"),
         CtxTurn(t, new), Supply(t, new), Passes(t, new),
         UNCHANGED <<stores, tx>>, UNCHANGED <<smfVars, redisVars, vdp>>
  PROVE  Turn(t, new)
<1>1. txn' = [txn EXCEPT ![t] = new]
  BY DEF Await
<1>2. AnswerTurn(t, new)
  BY DEF AnswerTurn
<1>3. new # Idle
  BY IdleFacts
<1>4. ASSUME NEW c \in bg' \ bg PROVE c = txn[t].cmd /\ txn[t].cb = "mod_vdp_cb"
  BY <1>4, LateFacts
<1>5. PersistTurn(t, new)
  BY <1>4 DEF PersistTurn, SessionInv, SessionOK
<1>6. RuleTurn(t, new)
  BY <1>3, <1>4 DEF RuleTurn
<1> QED
  BY <1>1, <1>2, <1>5, <1>6 DEF Turn, smfVars, redisVars

-----------------------------------------------------------------------------
(* Every callback is a turn.                                               *)

(* What a transaction past the entry points has.                           *)
LEMMA TurnFacts ==
  ASSUME DurabilityInv, NEW t \in Txn, txn[t].cb \in EstCb \cup ModCb \cup DelCb
  PROVE  /\ txn[t] \in TxnRecord /\ txn[t].req # NULL /\ txn[t].req \in Req
         /\ txn[t].ctx \in Ctx \cup {NULL} /\ txn[t].impl \in Ctx \cup {NULL}
         /\ txn[t].ver \in Nat /\ txn[t].retry \in Nat
         /\ t[1] \in Pod /\ ctxUse \in [Pod -> Int]
<1>1. txn[t].req \in Req
  BY EstFacts, ModDelFacts
<1> QED
  BY <1>1, OwnFacts, NullAssumption DEF TxnRecord

(* A turn that takes and gives back no context.                            *)
LEMMA SameCtxTurn ==
  ASSUME DurabilityInv, NEW t \in Txn, NEW new, ctxUse' = ctxUse,
         CtxShape(txn[t]) => CtxShape(new) /\ Held(new) = Held(txn[t])
  PROVE  CtxTurn(t, new)
<1>1. ctxUse \in [Pod -> Int] /\ t[1] \in Pod
  BY OwnFacts
<1>2. ctxUse = [ctxUse EXCEPT ![t[1]] = @ - 0]
  BY <1>1
<1>3. CASE CtxShape(txn[t])
  <2>1. Held(txn[t]) - Held(new) = 0
    BY <1>3, HeldType
  <2> QED
    BY <1>2, <1>3, <2>1 DEF CtxTurn, CtxFree
<1> QED
  BY <1>3 DEF CtxTurn

(* Taking a context is giving back one less than none.                     *)
LEMMA TakeIsFree ==
  ASSUME DurabilityInv, NEW t \in Txn, CtxTake(t, 1)
  PROVE  CtxFree(t, -1)
<1>1. ctxUse \in [Pod -> Int] /\ t[1] \in Pod
  BY OwnFacts
<1>2. ctxUse[t[1]] + 1 = ctxUse[t[1]] - (-1)
  BY <1>1
<1> QED
  BY <1>1, <1>2 DEF CtxTake, CtxFree

(* Giving back the TEID of a session that was unmade.                      *)
LEMMA TeidFreeSupply ==
  ASSUME NEW t, NEW d, Freed(t, d), v_teid_free(d)
  PROVE  Supply(t, Idle)
BY DEF Supply, v_teid_free

(* retrans_lookup_cb().                                                    *)
LEMMA RetransLookupTurn ==
  ASSUME DurabilityInv, SessionInv, NEW t \in Txn, retrans_lookup_cb(t)
  PROVE  \E new : Turn(t, new)
<1>0. /\ UNCHANGED <<smfVars, redisVars, vdp>> /\ txn[t].cb = "retrans_lookup_cb"
      /\ txn[t].cb \in Lookup /\ txn[t].cb \in EstCb
  BY DEF retrans_lookup_cb, Lookup, EstCb
<1>1. /\ txn[t] \in TxnRecord /\ txn[t].req \in Req /\ txn[t].req # NULL
      /\ CtxShape(txn[t]) => txn[t].ctx = NULL /\ txn[t].impl = NULL
  BY <1>0, TurnFacts DEF CtxShape, Modifying
<1>2. CASE ReplyFromCache(t)
  BY <1>0, <1>2, CacheHitTurn
<1>3. CASE ~ReplyFromCache(t)
  <2>1. PICK s \in v_seid_alloc, d \in v_teid_alloc :
          /\ seidUsed' = seidUsed \cup ({s} \ {NULL})
          /\ EstNoResources(t, s, d) \/ EstAbort(t, s, d) \/ EstWrite(t, s, d)
    BY <1>3 DEF retrans_lookup_cb
  <2>2. /\ CacheMiss(t) /\ (s = NULL \/ (s \in Seid \ seidUsed /\ s # NULL))
        /\ d = NULL \/ (d \in Teid /\ teidAvail[d] > 0 /\ d # NULL)
    BY <1>3, <2>1, NullAssumption DEF v_seid_alloc, v_teid_alloc, retrans_lookup_cb
  <2>3. CASE EstNoResources(t, s, d) \/ EstAbort(t, s, d)
    <3>1. finish(t, "NO_RESOURCES", 0, {}) \/ finish(t, "SYSTEM_FAILURE", 0, {})
      BY <2>3 DEF EstNoResources, EstAbort
    <3>2. Supply(t, Idle)
      BY <2>2, <2>3 DEF EstNoResources, EstAbort, Supply
    <3>3. CtxShape(txn[t]) => 0 = CtxHeld(txn[t].impl)
      BY <1>1 DEF CtxHeld
    <3>4. Turn(t, Idle)
      BY <1>0, <2>2, <3>1, <3>2, <3>3, FailTurn
    <3> QED
      BY <3>4
  <2>4. CASE EstWrite(t, s, d)
    <3> DEFINE ctx == [teid |-> d, mods |-> << >>]
               rec == [txn[t] EXCEPT !.seid = s, !.teid = d, !.ctx = ctx]
               cmd == v_sess_cas_write(s, 0, ctx, TRUE)
               new == [rec EXCEPT !.st = "DB_WRITE_WAIT", !.cb = "cas_write_cb",
                                  !.cmd = cmd, !.res = "none"]
    <3>1. /\ s \in Seid \ seidUsed /\ d \in Teid /\ seidUsed' = seidUsed \cup {s}
          /\ teidAvail[d] > 0
      BY <2>1, <2>2, <2>4 DEF EstWrite
    <3>2. ctx \in Ctx /\ ctx.teid = d /\ ctx # NULL
      <4>1. ctx \in Ctx /\ ctx.teid = d
        BY <3>1 DEF Ctx
      <4> HIDE DEF ctx
      <4> QED
        BY <4>1, NullAssumption
    <3>3. /\ Await(t, rec, "DB_WRITE_WAIT", "cas_write_cb", cmd) /\ CtxTake(t, 1)
          /\ UNCHANGED <<bg, stores, tx>> /\ teidAvail' = [teidAvail EXCEPT ![d] = @ - 1]
      BY <2>4 DEF EstWrite
    <3> HIDE DEF ctx
    <3>4. /\ rec \in TxnRecord /\ rec.seid = s /\ rec.teid = d /\ rec.ctx = ctx
          /\ rec.req = txn[t].req /\ rec.impl = txn[t].impl
      BY <1>1, <3>1, <3>2 DEF TxnRecord
    <3>5. cmd \in Command /\ cmd.seid = s /\ cmd.ctx = ctx
      BY <3>1, <3>2 DEF v_sess_cas_write, Command, SessOp
    <3> HIDE DEF rec, cmd
    <3>6. "DB_WRITE_WAIT" \in State /\ "cas_write_cb" \in Callback
      BY DEF State, Callback
    <3>7. new = [rec EXCEPT !.st = "DB_WRITE_WAIT", !.cb = "cas_write_cb",
                            !.cmd = cmd, !.res = "none"]
      OBVIOUS
    <3> HIDE DEF new
    <3>8. /\ new \in TxnRecord /\ new.cb = "cas_write_cb" /\ new.cmd = cmd
          /\ new.seid = s /\ new.teid = d /\ new.ctx = ctx /\ new.impl = txn[t].impl
          /\ new.req = txn[t].req
      BY <3>4, <3>5, <3>6, <3>7 DEF TxnRecord, Result
    <3>9. CtxTurn(t, new)
      <4>1. ASSUME CtxShape(txn[t]) PROVE CtxShape(new) /\ CtxFree(t, Held(txn[t]) - Held(new))
        <5>1. CtxShape(new)
          BY <1>1, <3>2, <3>8, <4>1 DEF CtxShape, Lookup, Modifying
        <5>2. Held(txn[t]) - Held(new) = -1
          BY <1>1, <3>2, <3>8, <4>1 DEF Held, CtxHeld
        <5>3. CtxFree(t, -1)
          BY <3>3, TakeIsFree
        <5> QED
          BY <5>1, <5>2, <5>3
      <4> QED
        BY <4>1 DEF CtxTurn
    <3>10. Supply(t, new) /\ Taken(s, d)
      BY <3>1, <3>3 DEF Supply, Taken
    <3>11. Passes(t, new)
      <4> SUFFICES ASSUME NEW z, NEW e, Names(new, z, e) \/ Carries(new.cmd, z, e)
                   PROVE  Taken(z, e)
        BY DEF Passes
      <4>1. z = s /\ e = d
        BY <3>2, <3>5, <3>8 DEF Names, Carries, EstWait, Modifying
      <4> QED
        BY <3>10, <4>1
    <3>12. new.cb \notin Lookup /\ new.cb # "none"
      BY <3>8 DEF Lookup
    <3>13. Turn(t, new)
      BY <1>0, <1>1, <2>2, <3>3, <3>7, <3>8, <3>9, <3>10, <3>11, <3>12, AwaitTurn
    <3> QED
      BY <3>13
  <2> QED
    BY <2>1, <2>3, <2>4
<1> QED
  BY <1>2, <1>3

(* cas_write_cb(): a write that was not acknowledged ends the flow, and    *)
(* the TEID goes back.                                                     *)
LEMMA CasWriteTurn ==
  ASSUME DurabilityInv, SessionInv, NEW t \in Txn, cas_write_cb(t)
  PROVE  \E new : Turn(t, new)
<1>0. /\ UNCHANGED <<smfVars, redisVars, vdp>> /\ txn[t].cb = "cas_write_cb"
      /\ txn[t].cb \notin Lookup /\ txn[t].cb \in EstCb /\ txn[t].cb \in EstWait
  BY DEF cas_write_cb, Lookup, EstCb, EstWait
<1>1. /\ txn[t] \in TxnRecord /\ txn[t].req # NULL /\ txn[t].seid \in Seid
      /\ txn[t].ctx \in Ctx \cup {NULL}
      /\ CtxShape(txn[t]) => txn[t].ctx # NULL /\ txn[t].impl = NULL
  BY <1>0, TurnFacts, EstFacts DEF CtxShape, Modifying, Lookup
<1>2. /\ CtxShape(txn[t]) => 0 = CtxHeld(txn[t].impl)
      /\ v_teid_free(txn[t].teid) => Supply(t, Idle)
      /\ Refused(t)
  BY <1>0, <1>1, TeidFreeSupply DEF CtxHeld, Freed, Refused
<1>3. CASE v_teid_free(txn[t].teid) /\ finish(t, "SYSTEM_FAILURE", 0, {})
  <2>1. Turn(t, Idle)
    BY <1>0, <1>2, <1>3, FailTurn
  <2> QED
    BY <2>1
<1>4. CASE /\ v_teid_free(txn[t].teid)
           /\ finish(t, "SYSTEM_FAILURE", 0, {v_sess_delete(txn[t].seid, 1)})
  <2>1. \A c \in {v_sess_delete(txn[t].seid, 1)} :
          c.op = "DEL" /\ c.seid = txn[t].seid /\ Refused(t)
    BY <1>1, <1>2, CommandTypes
  <2>2. Turn(t, Idle)
    BY <1>0, <1>2, <1>4, <2>1, FinishTurn
  <2> QED
    BY <2>2
<1>5. CASE /\ Seen(t, "OK", "cas_err")
           /\ Await(t, [txn[t] EXCEPT !.ver = 1], "VDP_WAIT", "vdp_create_cb",
                    VdpCmd("VDP_CREATE", txn[t].seid, txn[t].ctx))
           /\ UNCHANGED <<bg, stores, tx, ctxUse, teidAvail>>
  <2> DEFINE rec == [txn[t] EXCEPT !.ver = 1]
             cmd == VdpCmd("VDP_CREATE", txn[t].seid, txn[t].ctx)
             new == [rec EXCEPT !.st = "VDP_WAIT", !.cb = "vdp_create_cb",
                                !.cmd = cmd, !.res = "none"]
  <2>1. /\ rec \in TxnRecord /\ rec.seid = txn[t].seid /\ rec.teid = txn[t].teid
        /\ rec.ctx = txn[t].ctx /\ rec.impl = txn[t].impl /\ rec.req = txn[t].req
    BY <1>1 DEF TxnRecord
  <2>2. cmd \in Command /\ cmd.seid = txn[t].seid /\ cmd.ctx = txn[t].ctx
    BY <1>1, CommandTypes DEF VdpOp, VdpCmd, NoCmd
  <2>3. Await(t, rec, "VDP_WAIT", "vdp_create_cb", cmd)
    BY <1>5
  <2> HIDE DEF rec, cmd
  <2>4. new = [rec EXCEPT !.st = "VDP_WAIT", !.cb = "vdp_create_cb",
                          !.cmd = cmd, !.res = "none"]
    OBVIOUS
  <2>5. "VDP_WAIT" \in State /\ "vdp_create_cb" \in Callback
    BY DEF State, Callback
  <2> HIDE DEF new
  <2>6. /\ new \in TxnRecord /\ new.cb = "vdp_create_cb" /\ new.cmd = cmd
        /\ new.seid = txn[t].seid /\ new.teid = txn[t].teid /\ new.ctx = txn[t].ctx
        /\ new.impl = txn[t].impl /\ new.req = txn[t].req
    BY <2>1, <2>2, <2>4, <2>5 DEF TxnRecord, Result
  <2>7. CtxShape(txn[t]) => CtxShape(new) /\ Held(new) = Held(txn[t])
    BY <1>1, <2>6 DEF CtxShape, Held, Lookup, Modifying
  <2>8. CtxTurn(t, new) /\ Supply(t, new)
    BY <1>5, <2>7, SameCtxTurn DEF Supply
  <2>9. Passes(t, new)
    BY <1>0, <2>2, <2>6 DEF Passes, Names, Carries, EstWait, Modifying
  <2>10. new.cb \notin Lookup /\ new.cb # "none"
    BY <2>6 DEF Lookup
  <2>11. Turn(t, new)
    BY <1>0, <1>1, <1>5, <2>3, <2>4, <2>6, <2>8, <2>9, <2>10, AwaitTurn
  <2> QED
    BY <2>11
<1> QED
  BY <1>3, <1>4, <1>5 DEF cas_write_cb

(* vdp_create_cb(): without RecordFaults it ends the flow only when the    *)
(* VDP refused.                                                            *)
LEMMA VdpCreateTurn ==
  ASSUME DurabilityInv, SessionInv, NEW t \in Txn, vdp_create_cb(t)
  PROVE  \E new : Turn(t, new)
<1>0. /\ UNCHANGED <<smfVars, redisVars, vdp>> /\ txn[t].cb = "vdp_create_cb"
      /\ txn[t].cb \notin Lookup /\ txn[t].cb \in EstCb /\ txn[t].cb \in EstWait
  BY DEF vdp_create_cb, Lookup, EstCb, EstWait
<1>1. /\ txn[t] \in TxnRecord /\ txn[t].req # NULL /\ txn[t].seid \in Seid
      /\ txn[t].ctx \in Ctx \cup {NULL} /\ txn[t].ver \in Nat
      /\ CtxShape(txn[t]) => txn[t].ctx # NULL /\ txn[t].impl = NULL
  BY <1>0, TurnFacts, EstFacts DEF CtxShape, Modifying, Lookup
<1>2. CtxShape(txn[t]) => 0 = CtxHeld(txn[t].impl)
  BY <1>1 DEF CtxHeld
<1>3. CASE /\ Seen(t, "ACCEPT", "vdp_timeout") /\ CanFail("dispatch")
           /\ finish(t, "SYSTEM_FAILURE", 0, {}) /\ UNCHANGED teidAvail
  <2>1. Faults \cap RecordFaults # {} /\ Supply(t, Idle)
    BY <1>3 DEF CanFail, RecordFaults, Supply
  <2>2. Turn(t, Idle)
    BY <1>0, <1>2, <1>3, <2>1, FailTurn
  <2> QED
    BY <2>2
<1>4. CASE /\ VdpRefused(t) /\ v_teid_free(txn[t].teid)
           /\ finish(t, "REJECTED", 0, {v_sess_delete(txn[t].seid, txn[t].ver)})
  <2>1. Refused(t) /\ (Faults \cap RecordFaults = {} => txn[t].res = "REJECT")
    BY <1>0, <1>1, <1>4
    DEF VdpRefused, Seen, CanFail, RecordFaults, Refused, TxnRecord, Result
  <2>2. \A c \in {v_sess_delete(txn[t].seid, txn[t].ver)} :
          c.op = "DEL" /\ c.seid = txn[t].seid /\ Refused(t)
    BY <1>1, <2>1, CommandTypes
  <2>3. Supply(t, Idle)
    BY <1>4, <2>1, TeidFreeSupply DEF Freed
  <2>4. Turn(t, Idle)
    BY <1>0, <1>2, <1>4, <2>1, <2>2, <2>3, FinishTurn
  <2> QED
    BY <2>4
<1>5. CASE /\ Seen(t, "ACCEPT", "vdp_timeout")
           /\ Await(t, txn[t], "DB_CONFIRM_WAIT", "confirm_cb", v_sess_confirm(txn[t].seid))
           /\ UNCHANGED <<bg, stores, tx, ctxUse, teidAvail>>
  <2> DEFINE cmd == v_sess_confirm(txn[t].seid)
             new == [txn[t] EXCEPT !.st = "DB_CONFIRM_WAIT", !.cb = "confirm_cb",
                                   !.cmd = cmd, !.res = "none"]
  <2>1. cmd \in Command /\ cmd.op = "PERSIST"
    BY <1>1, CommandTypes
  <2>2. Await(t, txn[t], "DB_CONFIRM_WAIT", "confirm_cb", cmd)
    BY <1>5
  <2> HIDE DEF cmd
  <2>3. new = [txn[t] EXCEPT !.st = "DB_CONFIRM_WAIT", !.cb = "confirm_cb",
                             !.cmd = cmd, !.res = "none"]
    OBVIOUS
  <2>4. "DB_CONFIRM_WAIT" \in State /\ "confirm_cb" \in Callback
    BY DEF State, Callback
  <2> HIDE DEF new
  <2>5. /\ new \in TxnRecord /\ new.cb = "confirm_cb" /\ new.cmd = cmd
        /\ new.seid = txn[t].seid /\ new.teid = txn[t].teid /\ new.ctx = txn[t].ctx
        /\ new.impl = txn[t].impl /\ new.req = txn[t].req
    BY <1>1, <2>1, <2>3, <2>4 DEF TxnRecord, Result
  <2>6. CtxShape(txn[t]) => CtxShape(new) /\ Held(new) = Held(txn[t])
    BY <1>1, <2>5 DEF CtxShape, Held, Lookup, Modifying
  <2>7. CtxTurn(t, new) /\ Supply(t, new)
    BY <1>5, <2>6, SameCtxTurn DEF Supply
  <2>8. Passes(t, new)
    BY <1>0, <2>1, <2>5 DEF Passes, Names, Carries, EstWait, Modifying
  <2>9. new.cb \notin Lookup /\ new.cb # "none"
    BY <2>5 DEF Lookup
  <2>10. Turn(t, new)
    BY <1>0, <1>1, <1>5, <2>2, <2>3, <2>5, <2>7, <2>8, <2>9, AwaitTurn
  <2> QED
    BY <2>10
<1> QED
  BY <1>3, <1>4, <1>5 DEF vdp_create_cb

(* confirm_cb(): without RecordFaults the confirmation was acknowledged.   *)
LEMMA ConfirmTurn ==
  ASSUME DurabilityInv, SessionInv, NEW t \in Txn, confirm_cb(t)
  PROVE  \E new : Turn(t, new)
<1>0. /\ UNCHANGED <<smfVars, redisVars, vdp>> /\ txn[t].cb = "confirm_cb"
      /\ txn[t].cb \notin Lookup /\ Supply(t, Idle)
      /\ CtxShape(txn[t]) => 0 = CtxHeld(txn[t].impl)
  BY DEF confirm_cb, Lookup, Supply, idVars, CtxShape, CtxHeld, Modifying
<1>1. CASE Seen(t, "OK", "confirm_err") /\ finish(t, "ACCEPTED", 0, {})
  <2>1. txn[t].res = "OK"
    BY <1>1 DEF Seen
  <2>2. Turn(t, Idle)
    BY <1>0, <1>1, <2>1, FailTurn
  <2> QED
    BY <2>2
<1>2. CASE Seen(t, "ERR", "confirm_err") /\ finish(t, "SYSTEM_FAILURE", 0, {})
  <2>1. Faults \cap RecordFaults # {}
    BY <1>2, OwnFacts DEF Seen, CanFail, RecordFaults, TxnRecord, Result
  <2>2. Turn(t, Idle)
    BY <1>0, <1>2, <2>1, FailTurn
  <2> QED
    BY <2>2
<1> QED
  BY <1>1, <1>2 DEF confirm_cb

(* mod_start_read() and del_start_read().                                  *)
LEMMA StartReadTurn ==
  ASSUME DurabilityInv, SessionInv, NEW t \in Txn, NEW rec \in TxnRecord, NEW cb, NEW freed \in Int,
         cb \in {"mod_read_cb", "del_read_cb"}, txn[t].cb \in ModCb \cup DelCb,
         txn[t].cb \in Lookup => CacheMiss(t),
         rec.seid = txn[t].seid, rec.req = txn[t].req, rec.ctx # NULL,
         CtxShape(txn[t]) => rec.impl = NULL /\ freed = Held(txn[t]) - 1,
         StartRead(t, rec, cb, freed), teidAvail' = teidAvail,
         UNCHANGED <<smfVars, redisVars, vdp>>
  PROVE  \E new : Turn(t, new)
<1>0. /\ \A new : Supply(t, new)
      /\ txn[t].cb # "vdp_create_cb" /\ txn[t].cb # "confirm_cb"
      /\ txn[t].req # NULL
  BY TurnFacts DEF Supply, ModCb, DelCb
<1>1. CASE finish(t, "SYSTEM_FAILURE", freed + CtxHeld(rec.ctx) - CtxHeld(txn[t].ctx), {})
  <2>1. CtxShape(txn[t]) =>
          freed + CtxHeld(rec.ctx) - CtxHeld(txn[t].ctx) = CtxHeld(txn[t].impl)
    BY DEF Held, CtxHeld
  <2>2. PICK n : n = freed + CtxHeld(rec.ctx) - CtxHeld(txn[t].ctx)
    OBVIOUS
  <2>3. Turn(t, Idle)
    BY <1>0, <1>1, <2>1, <2>2, FailTurn
  <2> QED
    BY <2>3
<1>2. CASE /\ Await(t, rec, "DB_READ_WAIT", cb, NoCmd) /\ CtxFree(t, freed)
           /\ UNCHANGED <<bg, stores, tx>>
  <2> DEFINE new == [rec EXCEPT !.st = "DB_READ_WAIT", !.cb = cb, !.cmd = NoCmd, !.res = "none"]
  <2>1. "DB_READ_WAIT" \in State /\ cb \in Callback
    BY DEF State, Callback
  <2>2. new = [rec EXCEPT !.st = "DB_READ_WAIT", !.cb = cb, !.cmd = NoCmd, !.res = "none"]
    OBVIOUS
  <2> HIDE DEF new
  <2>3. /\ new \in TxnRecord /\ new.cb = cb /\ new.cmd = NoCmd /\ new.seid = rec.seid
        /\ new.req = rec.req /\ new.ctx = rec.ctx /\ new.impl = rec.impl
    BY <2>1, <2>2, IdleFacts DEF TxnRecord, Result
  <2>4. CtxShape(txn[t]) => CtxShape(new) /\ Held(new) = 1
    BY <2>3 DEF CtxShape, Held, CtxHeld, Lookup, Modifying
  <2>5. CtxTurn(t, new)
    BY <1>2, <2>4 DEF CtxTurn
  <2>6. Passes(t, new)
    BY <2>3, IdleFacts DEF Passes, Names, Carries, EstWait, Modifying
  <2>7. new.cb \notin Lookup /\ new.cb # "none"
    BY <2>3 DEF Lookup
  <2>8. Turn(t, new)
    BY <1>0, <1>2, <2>2, <2>3, <2>5, <2>6, <2>7, AwaitTurn
  <2> QED
    BY <2>8
<1> QED
  BY <1>1, <1>2 DEF StartRead

(* mod_retrans_lookup_cb() and del_retrans_lookup_cb().                    *)
LEMMA LookupTurn ==
  ASSUME DurabilityInv, SessionInv, NEW t \in Txn,
         mod_retrans_lookup_cb(t) \/ del_retrans_lookup_cb(t)
  PROVE  \E new : Turn(t, new)
<1>1. PICK cb : /\ LookupThenRead(t, cb) /\ cb \in {"mod_read_cb", "del_read_cb"}
                /\ txn[t].cb \in ModCb \cup DelCb /\ txn[t].cb \in Lookup
                /\ txn[t].cb # "vdp_create_cb" /\ txn[t].cb # "confirm_cb"
  BY DEF mod_retrans_lookup_cb, del_retrans_lookup_cb, ModCb, DelCb, Lookup
<1>2. /\ UNCHANGED <<smfVars, redisVars, vdp>> /\ txn[t] \in TxnRecord
      /\ CtxShape(txn[t]) => txn[t].ctx = NULL /\ txn[t].impl = NULL
  BY <1>1, ModDelFacts DEF LookupThenRead, CtxShape, Lookup, Modifying
<1>3. CASE ReplyFromCache(t)
  <2>1. Turn(t, Idle)
    BY <1>1, <1>2, <1>3, CacheHitTurn
  <2> QED
    BY <2>1
<1>4. CASE CacheMiss(t) /\ finish(t, "SYSTEM_FAILURE", 0, {}) /\ UNCHANGED idVars
  <2>1. Supply(t, Idle) /\ (CtxShape(txn[t]) => 0 = CtxHeld(txn[t].impl))
    BY <1>2, <1>4 DEF Supply, idVars, CtxHeld
  <2>2. Turn(t, Idle)
    BY <1>1, <1>2, <1>4, <2>1, FailTurn
  <2> QED
    BY <2>2
<1>5. CASE /\ CacheMiss(t) /\ StartRead(t, [txn[t] EXCEPT !.ctx = EmptyCtx], cb, -1)
           /\ UNCHANGED idVars
  <2> DEFINE rec == [txn[t] EXCEPT !.ctx = EmptyCtx]
  <2>1. EmptyCtx \in Ctx
    BY DEF EmptyCtx, Ctx
  <2>2. /\ rec \in TxnRecord /\ rec.seid = txn[t].seid /\ rec.req = txn[t].req
        /\ rec.ctx = EmptyCtx /\ rec.impl = txn[t].impl
    BY <1>2, <2>1 DEF TxnRecord
  <2>3. StartRead(t, rec, cb, -1) /\ teidAvail' = teidAvail
    BY <1>5 DEF idVars
  <2> HIDE DEF rec
  <2>4. rec.ctx # NULL
    BY <2>1, <2>2, NullAssumption
  <2>5. CtxShape(txn[t]) => rec.impl = NULL /\ -1 = Held(txn[t]) - 1
    BY <1>2, <2>2 DEF Held, CtxHeld
  <2> QED
    BY <1>1, <1>2, <1>5, <2>2, <2>3, <2>4, <2>5, StartReadTurn
<1> QED
  BY <1>1, <1>3, <1>4, <1>5 DEF LookupThenRead

(* A turn of a modification or deletion that only answers.                 *)
LEMMA PlainTurn ==
  ASSUME DurabilityInv, SessionInv, NEW t \in Txn, NEW cause, NEW freed,
         txn[t].cb \in (ModCb \cup DelCb) \ Lookup, finish(t, cause, freed, {}),
         CtxShape(txn[t]) => freed = CtxHeld(txn[t].impl),
         cause = "ACCEPTED" => txn[t].res # "none",
         Supply(t, Idle), UNCHANGED <<smfVars, redisVars, vdp>>
  PROVE  \E new : Turn(t, new)
<1>1. txn[t].cb # "vdp_create_cb" /\ txn[t].cb # "confirm_cb"
  BY DEF ModCb, DelCb
<1>2. Turn(t, Idle)
  BY <1>1, FailTurn
<1> QED
  BY <1>2

(* mod_read_cb(): the snapshot and the modified context have the record's  *)
(* TEID.                                                                   *)
LEMMA ModReadTurn ==
  ASSUME DurabilityInv, SessionInv, NEW t \in Txn, mod_read_cb(t)
  PROVE  \E new : Turn(t, new)
<1>0. /\ UNCHANGED <<smfVars, redisVars, vdp, idVars>> /\ txn[t].cb = "mod_read_cb"
      /\ txn[t].cb \in (ModCb \cup DelCb) \ Lookup
      /\ \A new : Supply(t, new)
  BY DEF mod_read_cb, Supply, idVars, ModCb, Lookup
<1>1. /\ txn[t] \in TxnRecord /\ txn[t].seid \in Seid /\ txn[t].req \in ModReq
      /\ txn[t].req # NULL
      /\ CtxShape(txn[t]) => txn[t].ctx # NULL /\ txn[t].impl = NULL
  BY <1>0, ModDelFacts, TurnFacts DEF CtxShape, ModCb, Lookup, Modifying
<1>2. CASE finish(t, "SYSTEM_FAILURE", 0, {}) \/ finish(t, "NOT_FOUND", 0, {})
  <2>1. CtxShape(txn[t]) => 0 = CtxHeld(txn[t].impl)
    BY <1>1 DEF CtxHeld
  <2> QED
    BY <1>0, <1>2, <2>1, PlainTurn
<1>3. CASE sess[txn[t].seid].ver # 0 /\ ModWrite(t)
  <2> DEFINE old == sess[txn[t].seid]
             next == [old.ctx EXCEPT !.mods = Append(@, txn[t].req)]
             rec == [txn[t] EXCEPT !.ver = old.ver, !.impl = old.ctx, !.ctx = next]
             cmd == v_sess_cas_write(txn[t].seid, old.ver, next, FALSE)
             new == [rec EXCEPT !.st = "DB_WRITE_WAIT", !.cb = "mod_cas_cb",
                                !.cmd = cmd, !.res = "none"]
  <2>1. old.ver \in Nat /\ old.ver # 0 /\ old.ctx \in Ctx
    BY <1>1, <1>3 DEF DurabilityInv, TypeOK, RecordHasCtx, SessRecord
  <2>2. /\ Await(t, rec, "DB_WRITE_WAIT", "mod_cas_cb", cmd) /\ UNCHANGED <<bg, stores, tx>>
        /\ CtxTake(t, 1)
    BY <1>3 DEF ModWrite
  <2>3. sess[txn[t].seid] = old
    OBVIOUS
  <2> HIDE DEF old
  <2>4. next \in Ctx /\ next.teid = old.ctx.teid
    <3>1. old.ctx.mods \in Seq(ModReq)
      BY <2>1 DEF Ctx
    <3>2. Append(old.ctx.mods, txn[t].req) \in Seq(ModReq)
      BY <1>1, <3>1
    <3> QED
      BY <2>1, <3>2 DEF Ctx
  <2> HIDE DEF next
  <2>5. next # NULL /\ old.ctx # NULL
    BY <2>1, <2>4, NullAssumption
  <2>6. /\ rec \in TxnRecord /\ rec.req = txn[t].req /\ rec.seid = txn[t].seid
        /\ rec.impl = old.ctx /\ rec.ctx = next
    BY <1>1, <2>1, <2>4 DEF TxnRecord
  <2>7. cmd \in Command /\ cmd.seid = txn[t].seid /\ cmd.ctx = next
    BY <1>1, <2>1, <2>4 DEF v_sess_cas_write, Command, SessOp
  <2> HIDE DEF rec, cmd
  <2>8. "DB_WRITE_WAIT" \in State /\ "mod_cas_cb" \in Callback
    BY DEF State, Callback
  <2>9. new = [rec EXCEPT !.st = "DB_WRITE_WAIT", !.cb = "mod_cas_cb",
                          !.cmd = cmd, !.res = "none"]
    OBVIOUS
  <2> HIDE DEF new
  <2>10. /\ new \in TxnRecord /\ new.cb = "mod_cas_cb" /\ new.cmd = cmd
         /\ new.seid = txn[t].seid /\ new.req = txn[t].req
         /\ new.ctx = next /\ new.impl = old.ctx
    BY <2>6, <2>7, <2>8, <2>9 DEF TxnRecord, Result
  <2>11. CtxTurn(t, new)
    <3>1. ASSUME CtxShape(txn[t]) PROVE Held(txn[t]) - Held(new) = -1
      BY <1>1, <2>5, <2>10, <3>1 DEF Held, CtxHeld
    <3>2. CtxShape(new)
      BY <2>5, <2>10 DEF CtxShape, Lookup, Modifying
    <3> QED
      BY <2>2, <3>1, <3>2, TakeIsFree DEF CtxTurn
  <2>12. Passes(t, new)
    <3> SUFFICES ASSUME NEW z, NEW e, Names(new, z, e) \/ Carries(new.cmd, z, e)
                 PROVE  InRecord(z, e)
      BY DEF Passes
    <3>1. z = txn[t].seid /\ e = old.ctx.teid
      BY <2>4, <2>7, <2>10 DEF Names, Carries, EstWait, Modifying
    <3> QED
      BY <2>1, <2>3, <3>1 DEF InRecord
  <2>13. new.cb \notin Lookup /\ new.cb # "none"
    BY <2>10 DEF Lookup
  <2>14. Turn(t, new)
    BY <1>0, <1>1, <2>2, <2>9, <2>10, <2>11, <2>12, <2>13, AwaitTurn
  <2> QED
    BY <2>14
<1> QED
  BY <1>2, <1>3 DEF mod_read_cb, ModAbort

(* mod_cas_cb().                                                           *)
LEMMA ModCasTurn ==
  ASSUME DurabilityInv, SessionInv, NEW t \in Txn, mod_cas_cb(t)
  PROVE  \E new : Turn(t, new)
<1> DEFINE impl == CtxHeld(txn[t].impl)
           again == [txn[t] EXCEPT !.impl = NULL, !.retry = @ + 1, !.ctx = EmptyCtx]
           next == [txn[t] EXCEPT !.ver = @ + 1]
           cmd == VdpCmd("VDP_MODIFY", txn[t].seid, txn[t].ctx)
<1>0. /\ UNCHANGED <<smfVars, redisVars, vdp, idVars>> /\ txn[t].cb = "mod_cas_cb"
      /\ txn[t].cb \in (ModCb \cup DelCb) \ Lookup /\ txn[t].cb \in Modifying
      /\ \A new : Supply(t, new)
  BY DEF mod_cas_cb, Supply, idVars, ModCb, Lookup, Modifying
<1>1. /\ txn[t] \in TxnRecord /\ txn[t].seid \in Seid /\ txn[t].req # NULL
      /\ txn[t].ctx \in Ctx \cup {NULL} /\ txn[t].ver \in Nat /\ txn[t].retry \in Nat
      /\ CtxShape(txn[t]) => txn[t].ctx # NULL /\ txn[t].impl # NULL
  BY <1>0, ModDelFacts, TurnFacts DEF CtxShape, Lookup
<1>2. CASE finish(t, "SYSTEM_FAILURE", impl, {}) \/ finish(t, "NOT_FOUND", impl, {})
  BY <1>0, <1>2, PlainTurn
<1>3. CASE StartRead(t, again, "mod_read_cb", impl)
  <2>1. EmptyCtx \in Ctx
    BY DEF EmptyCtx, Ctx
  <2>2. /\ again \in TxnRecord /\ again.seid = txn[t].seid /\ again.req = txn[t].req
        /\ again.impl = NULL /\ again.ctx = EmptyCtx
    <3>1. txn[t].retry + 1 \in Nat
      BY <1>1
    <3> QED
      BY <1>1, <2>1, <3>1 DEF TxnRecord
  <2>3. /\ impl \in Int
        /\ CtxShape(txn[t]) => impl = Held(txn[t]) - 1
    BY <1>1 DEF Held, CtxHeld
  <2> HIDE DEF again, impl
  <2>4. again.ctx # NULL /\ teidAvail' = teidAvail
    BY <1>0, <2>1, <2>2, NullAssumption DEF idVars
  <2> QED
    BY <1>0, <1>3, <2>2, <2>3, <2>4, StartReadTurn
<1>4. CASE /\ Seen(t, "OK", "cas_err")
           /\ Await(t, next, "VDP_WAIT", "mod_vdp_cb", cmd)
           /\ UNCHANGED <<bg, stores, tx, ctxUse>>
  <2> DEFINE new == [next EXCEPT !.st = "VDP_WAIT", !.cb = "mod_vdp_cb",
                                 !.cmd = cmd, !.res = "none"]
  <2>1. /\ next \in TxnRecord /\ next.req = txn[t].req /\ next.seid = txn[t].seid
        /\ next.impl = txn[t].impl /\ next.ctx = txn[t].ctx
    BY <1>1 DEF TxnRecord
  <2>2. cmd \in Command /\ cmd.seid = txn[t].seid /\ cmd.ctx = txn[t].ctx
    BY <1>1, CommandTypes DEF VdpOp, VdpCmd, NoCmd
  <2> HIDE DEF next, cmd
  <2>3. "VDP_WAIT" \in State /\ "mod_vdp_cb" \in Callback
    BY DEF State, Callback
  <2>4. new = [next EXCEPT !.st = "VDP_WAIT", !.cb = "mod_vdp_cb",
                           !.cmd = cmd, !.res = "none"]
    OBVIOUS
  <2> HIDE DEF new
  <2>5. /\ new \in TxnRecord /\ new.cb = "mod_vdp_cb" /\ new.cmd = cmd
        /\ new.seid = txn[t].seid /\ new.req = txn[t].req /\ new.ctx = txn[t].ctx
        /\ new.impl = txn[t].impl
    BY <2>1, <2>2, <2>3, <2>4 DEF TxnRecord, Result
  <2>6. CtxShape(txn[t]) => CtxShape(new) /\ Held(new) = Held(txn[t])
    BY <1>1, <2>5 DEF CtxShape, Held, Lookup, Modifying
  <2>7. CtxTurn(t, new)
    BY <1>4, <2>6, SameCtxTurn
  <2>8. Passes(t, new)
    BY <1>0, <2>2, <2>5 DEF Passes, Names, Carries, EstWait, Modifying
  <2>9. new.cb \notin Lookup /\ new.cb # "none"
    BY <2>5 DEF Lookup
  <2>10. Turn(t, new)
    BY <1>0, <1>1, <1>4, <2>4, <2>5, <2>7, <2>8, <2>9, AwaitTurn
  <2> QED
    BY <2>10
<1> QED
  BY <1>2, <1>3, <1>4 DEF mod_cas_cb

(* mod_vdp_cb(): the write-back carries the snapshot.                      *)
LEMMA ModVdpTurn ==
  ASSUME DurabilityInv, SessionInv, NEW t \in Txn, mod_vdp_cb(t)
  PROVE  \E new : Turn(t, new)
<1> DEFINE rec == [txn[t] EXCEPT !.impl = NULL]
           cmd == v_sess_cas_write(txn[t].seid, txn[t].ver, txn[t].impl, FALSE)
<1>0. /\ UNCHANGED <<smfVars, redisVars, vdp, idVars>> /\ txn[t].cb = "mod_vdp_cb"
      /\ txn[t].cb \in (ModCb \cup DelCb) \ Lookup /\ txn[t].cb \in Modifying
      /\ \A new : Supply(t, new)
  BY DEF mod_vdp_cb, Supply, idVars, ModCb, Lookup, Modifying
<1>1. /\ txn[t] \in TxnRecord /\ txn[t].seid \in Seid /\ txn[t].req # NULL
      /\ txn[t].ver \in Nat /\ txn[t].impl \in Ctx /\ txn[t].impl # NULL
      /\ CtxShape(txn[t]) => txn[t].ctx # NULL
  BY <1>0, ModDelFacts, TurnFacts, OwnFacts, NullAssumption DEF CtxShape, Lookup, Shape
<1>2. CtxHeld(txn[t].impl) = 1
  BY <1>1 DEF CtxHeld
<1>3. CASE finish(t, "SYSTEM_FAILURE", 1, {})
  BY <1>0, <1>2, <1>3, PlainTurn
<1>4. CASE Seen(t, "ACCEPT", "vdp_timeout") /\ finish(t, "ACCEPTED", CtxHeld(txn[t].impl), {})
  <2>1. txn[t].res # "none"
    BY <1>4 DEF Seen
  <2> QED
    BY <1>0, <1>4, <2>1, PlainTurn
<1>5. CASE /\ Await(t, rec, "VDP_WAIT", "mod_compensate_write_cb", cmd) /\ CtxFree(t, 1)
           /\ bg' = bg \cup Late(t) /\ UNCHANGED <<stores, tx>>
  <2> DEFINE new == [rec EXCEPT !.st = "VDP_WAIT", !.cb = "mod_compensate_write_cb",
                                !.cmd = cmd, !.res = "none"]
  <2>1. /\ rec \in TxnRecord /\ rec.seid = txn[t].seid /\ rec.req = txn[t].req
        /\ rec.ctx = txn[t].ctx /\ rec.impl = NULL
    BY <1>1 DEF TxnRecord
  <2>2. cmd \in Command /\ cmd.seid = txn[t].seid /\ cmd.ctx = txn[t].impl
    BY <1>1 DEF v_sess_cas_write, Command, SessOp
  <2> HIDE DEF rec, cmd
  <2>3. "VDP_WAIT" \in State /\ "mod_compensate_write_cb" \in Callback
    BY DEF State, Callback
  <2>4. new = [rec EXCEPT !.st = "VDP_WAIT", !.cb = "mod_compensate_write_cb",
                          !.cmd = cmd, !.res = "none"]
    OBVIOUS
  <2> HIDE DEF new
  <2>5. /\ new \in TxnRecord /\ new.cb = "mod_compensate_write_cb" /\ new.cmd = cmd
        /\ new.seid = txn[t].seid /\ new.req = txn[t].req /\ new.ctx = txn[t].ctx
        /\ new.impl = NULL
    BY <2>1, <2>2, <2>3, <2>4 DEF TxnRecord, Result
  <2>6. CtxTurn(t, new)
    <3>1. ASSUME CtxShape(txn[t]) PROVE CtxShape(new) /\ Held(txn[t]) - Held(new) = 1
      BY <1>1, <2>5, <3>1 DEF CtxShape, Held, CtxHeld, Lookup, Modifying
    <3> QED
      BY <1>5, <3>1 DEF CtxTurn
  <2>7. Passes(t, new)
    BY <1>0, <2>2, <2>5 DEF Passes, Names, Carries, EstWait, Modifying
  <2>8. new.cb \notin Lookup /\ new.cb # "none"
    BY <2>5 DEF Lookup
  <2>9. Turn(t, new)
    BY <1>0, <1>1, <1>5, <2>4, <2>5, <2>6, <2>7, <2>8, AwaitTurn
  <2> QED
    BY <2>9
<1> QED
  BY <1>3, <1>4, <1>5 DEF mod_vdp_cb

(* mod_compensate_write_cb().                                              *)
LEMMA ModCompensateTurn ==
  ASSUME DurabilityInv, SessionInv, NEW t \in Txn, mod_compensate_write_cb(t)
  PROVE  \E new : Turn(t, new)
<1>1. /\ UNCHANGED <<smfVars, redisVars, vdp>> /\ Supply(t, Idle)
      /\ finish(t, "REJECTED", 0, {}) /\ txn[t].cb \in (ModCb \cup DelCb) \ Lookup
      /\ CtxShape(txn[t]) => 0 = CtxHeld(txn[t].impl)
  BY DEF mod_compensate_write_cb, Supply, idVars, ModCb, Lookup, CtxShape, CtxHeld, Modifying
<1> QED
  BY <1>1, PlainTurn

(* del_read_cb(): it keeps the record's TEID.                              *)
LEMMA DelReadTurn ==
  ASSUME DurabilityInv, SessionInv, NEW t \in Txn, del_read_cb(t)
  PROVE  \E new : Turn(t, new)
<1> DEFINE old == sess[txn[t].seid]
           rec == [txn[t] EXCEPT !.ver = old.ver, !.ctx = old.ctx]
           cmd == VdpCmd("VDP_DELETE", txn[t].seid, NULL)
<1>0. /\ UNCHANGED <<smfVars, redisVars, vdp, idVars>> /\ txn[t].cb = "del_read_cb"
      /\ txn[t].cb \in (ModCb \cup DelCb) \ Lookup
      /\ \A new : Supply(t, new)
  BY DEF del_read_cb, Supply, idVars, DelCb, Lookup
<1>1. /\ txn[t] \in TxnRecord /\ txn[t].seid \in Seid /\ txn[t].req # NULL
      /\ CtxShape(txn[t]) => txn[t].ctx # NULL /\ txn[t].impl = NULL
  BY <1>0, ModDelFacts, TurnFacts DEF CtxShape, Lookup, Modifying
<1>2. CASE finish(t, "SYSTEM_FAILURE", 0, {}) \/ finish(t, "NOT_FOUND", 0, {})
  <2>1. CtxShape(txn[t]) => 0 = CtxHeld(txn[t].impl)
    BY <1>1 DEF CtxHeld
  <2> QED
    BY <1>0, <1>2, <2>1, PlainTurn
<1>3. CASE /\ old.ver # 0 /\ Await(t, rec, "VDP_WAIT", "del_vdp_cb", cmd)
           /\ UNCHANGED <<bg, stores, tx, ctxUse>>
  <2> DEFINE new == [rec EXCEPT !.st = "VDP_WAIT", !.cb = "del_vdp_cb",
                                !.cmd = cmd, !.res = "none"]
  <2>1. old.ver \in Nat /\ old.ver # 0 /\ old.ctx \in Ctx /\ sess[txn[t].seid] = old
    BY <1>1, <1>3 DEF DurabilityInv, TypeOK, RecordHasCtx, SessRecord
  <2> HIDE DEF old
  <2>2. /\ rec \in TxnRecord /\ rec.seid = txn[t].seid /\ rec.req = txn[t].req
        /\ rec.ctx = old.ctx /\ rec.impl = txn[t].impl
    BY <1>1, <2>1 DEF TxnRecord
  <2>3. cmd \in Command /\ cmd.op = "VDP_DELETE"
    BY <1>1, CommandTypes DEF VdpOp, VdpCmd, NoCmd
  <2> HIDE DEF rec, cmd
  <2>4. "VDP_WAIT" \in State /\ "del_vdp_cb" \in Callback
    BY DEF State, Callback
  <2>5. new = [rec EXCEPT !.st = "VDP_WAIT", !.cb = "del_vdp_cb",
                          !.cmd = cmd, !.res = "none"]
    OBVIOUS
  <2> HIDE DEF new
  <2>6. /\ new \in TxnRecord /\ new.cb = "del_vdp_cb" /\ new.cmd = cmd
        /\ new.seid = txn[t].seid /\ new.req = txn[t].req /\ new.ctx = old.ctx
        /\ new.impl = txn[t].impl
    BY <2>2, <2>3, <2>4, <2>5 DEF TxnRecord, Result
  <2>7. old.ctx # NULL
    BY <2>1, NullAssumption
  <2>8. CtxShape(txn[t]) => CtxShape(new) /\ Held(new) = Held(txn[t])
    BY <1>1, <2>6, <2>7 DEF CtxShape, Held, CtxHeld, Lookup, Modifying
  <2>9. CtxTurn(t, new)
    BY <1>3, <2>8, SameCtxTurn
  <2>10. Passes(t, new)
    <3> SUFFICES ASSUME NEW z, NEW e, Names(new, z, e) \/ Carries(new.cmd, z, e)
                 PROVE  InRecord(z, e)
      BY DEF Passes
    <3>1. z = txn[t].seid /\ e = old.ctx.teid
      BY <2>3, <2>6 DEF Names, Carries, EstWait, Modifying
    <3> QED
      BY <2>1, <3>1 DEF InRecord
  <2>11. new.cb \notin Lookup /\ new.cb # "none"
    BY <2>6 DEF Lookup
  <2>12. Turn(t, new)
    BY <1>0, <1>1, <1>3, <2>5, <2>6, <2>9, <2>10, <2>11, AwaitTurn
  <2> QED
    BY <2>12
<1> QED
  BY <1>2, <1>3 DEF del_read_cb

(* del_vdp_cb().                                                           *)
LEMMA DelVdpTurn ==
  ASSUME DurabilityInv, SessionInv, NEW t \in Txn, del_vdp_cb(t)
  PROVE  \E new : Turn(t, new)
<1> DEFINE cmd == v_sess_delete(txn[t].seid, txn[t].ver)
<1>0. /\ UNCHANGED <<smfVars, redisVars, vdp, idVars>> /\ txn[t].cb = "del_vdp_cb"
      /\ txn[t].cb \in (ModCb \cup DelCb) \ Lookup
      /\ \A new : Supply(t, new)
  BY DEF del_vdp_cb, Supply, idVars, DelCb, Lookup
<1>1. /\ txn[t] \in TxnRecord /\ txn[t].seid \in Seid /\ txn[t].req # NULL
      /\ txn[t].ver \in Nat
      /\ CtxShape(txn[t]) => txn[t].ctx # NULL /\ txn[t].impl = NULL
  BY <1>0, ModDelFacts, TurnFacts DEF CtxShape, Lookup, Modifying
<1>2. CASE finish(t, "SYSTEM_FAILURE", 0, {}) \/ finish(t, "REJECTED", 0, {})
  <2>1. CtxShape(txn[t]) => 0 = CtxHeld(txn[t].impl)
    BY <1>1 DEF CtxHeld
  <2> QED
    BY <1>0, <1>2, <2>1, PlainTurn
<1>3. CASE /\ Seen(t, "ACCEPT", "vdp_timeout")
           /\ Await(t, txn[t], "DB_WRITE_WAIT", "del_delete_cb", cmd)
           /\ UNCHANGED <<bg, stores, tx, ctxUse>>
  <2> DEFINE new == [txn[t] EXCEPT !.st = "DB_WRITE_WAIT", !.cb = "del_delete_cb",
                                   !.cmd = cmd, !.res = "none"]
  <2>1. cmd \in Command /\ cmd.op = "DEL"
    BY <1>1, CommandTypes
  <2> HIDE DEF cmd
  <2>2. "DB_WRITE_WAIT" \in State /\ "del_delete_cb" \in Callback
    BY DEF State, Callback
  <2>3. new = [txn[t] EXCEPT !.st = "DB_WRITE_WAIT", !.cb = "del_delete_cb",
                             !.cmd = cmd, !.res = "none"]
    OBVIOUS
  <2> HIDE DEF new
  <2>4. /\ new \in TxnRecord /\ new.cb = "del_delete_cb" /\ new.cmd = cmd
        /\ new.seid = txn[t].seid /\ new.req = txn[t].req /\ new.ctx = txn[t].ctx
        /\ new.impl = txn[t].impl
    BY <1>1, <2>1, <2>2, <2>3 DEF TxnRecord, Result
  <2>5. CtxShape(txn[t]) => CtxShape(new) /\ Held(new) = Held(txn[t])
    BY <1>1, <2>4 DEF CtxShape, Held, Lookup, Modifying
  <2>6. CtxTurn(t, new)
    BY <1>3, <2>5, SameCtxTurn
  <2>7. Passes(t, new)
    BY <1>0, <2>1, <2>4 DEF Passes, Names, Carries, EstWait, Modifying
  <2>8. new.cb \notin Lookup /\ new.cb # "none"
    BY <2>4 DEF Lookup
  <2>9. Turn(t, new)
    BY <1>0, <1>1, <1>3, <2>3, <2>4, <2>6, <2>7, <2>8, AwaitTurn
  <2> QED
    BY <2>9
<1> QED
  BY <1>2, <1>3 DEF del_vdp_cb

(* del_delete_cb(): the TEID goes back only when this deletion removed the *)
(* record.                                                                 *)
LEMMA DelDeleteTurn ==
  ASSUME DurabilityInv, SessionInv, NEW t \in Txn, del_delete_cb(t)
  PROVE  \E new : Turn(t, new)
<1> DEFINE again == [txn[t] EXCEPT !.retry = @ + 1, !.ctx = EmptyCtx]
<1>0. /\ UNCHANGED <<smfVars, redisVars, vdp>> /\ txn[t].cb = "del_delete_cb"
      /\ txn[t].cb \in (ModCb \cup DelCb) \ Lookup
  BY DEF del_delete_cb, DelCb, Lookup
<1>1. /\ txn[t] \in TxnRecord /\ txn[t].seid \in Seid /\ txn[t].req # NULL
      /\ txn[t].retry \in Nat
      /\ CtxShape(txn[t]) => txn[t].ctx # NULL /\ txn[t].impl = NULL
  BY <1>0, ModDelFacts, TurnFacts DEF CtxShape, Lookup, Modifying
<1>2. CtxShape(txn[t]) => 0 = CtxHeld(txn[t].impl)
  BY <1>1 DEF CtxHeld
<1>3. CASE /\ finish(t, "SYSTEM_FAILURE", 0, {}) \/ finish(t, "NOT_FOUND", 0, {})
           /\ UNCHANGED teidAvail
  <2>1. Supply(t, Idle)
    BY <1>3 DEF Supply
  <2> QED
    BY <1>0, <1>2, <1>3, <2>1, PlainTurn
<1>4. CASE /\ Seen(t, "OK", "del_err") /\ v_teid_free(txn[t].ctx.teid)
           /\ finish(t, "ACCEPTED", 0, {})
  <2>1. txn[t].res = "OK"
    BY <1>4 DEF Seen
  <2>2. Freed(t, txn[t].ctx.teid)
    BY <1>0, <2>1 DEF Freed, Removed
  <2>3. Supply(t, Idle)
    BY <1>4, <2>2, TeidFreeSupply
  <2> QED
    BY <1>0, <1>2, <1>4, <2>1, <2>3, PlainTurn
<1>5. CASE StartRead(t, again, "del_read_cb", 0) /\ UNCHANGED teidAvail
  <2>1. EmptyCtx \in Ctx
    BY DEF EmptyCtx, Ctx
  <2>2. /\ again \in TxnRecord /\ again.seid = txn[t].seid /\ again.req = txn[t].req
        /\ again.impl = txn[t].impl /\ again.ctx = EmptyCtx
    <3>1. txn[t].retry + 1 \in Nat
      BY <1>1
    <3> QED
      BY <1>1, <2>1, <3>1 DEF TxnRecord
  <2> HIDE DEF again
  <2>3. CtxShape(txn[t]) => again.impl = NULL /\ 0 = Held(txn[t]) - 1
    BY <1>1, <2>2 DEF Held, CtxHeld
  <2>4. again.ctx # NULL
    BY <2>1, <2>2, NullAssumption
  <2> QED
    BY <1>0, <1>5, <2>2, <2>3, <2>4, StartReadTurn
<1> QED
  BY <1>3, <1>4, <1>5 DEF del_delete_cb

(* A callback of any flow.                                                 *)
LEMMA CallbackTurn ==
  ASSUME DurabilityInv, SessionInv, NEW t \in Txn,
         EstCallback(t) \/ ModCallback(t) \/ DelCallback(t)
  PROVE  \E new : Turn(t, new)
BY RetransLookupTurn, CasWriteTurn, VdpCreateTurn, ConfirmTurn, LookupTurn, ModReadTurn,
   ModCasTurn, ModVdpTurn, ModCompensateTurn, DelReadTurn, DelVdpTurn, DelDeleteTurn
DEF EstCallback, ModCallback, DelCallback

-----------------------------------------------------------------------------
(* Steps of transactions, as in VpeFlowHistoryProofs: a callback, a        *)
(* timeout, a crash and the arrival of a request.                          *)

RuleFlow ==
  Faults \cap RecordFaults = {} =>
    /\ \A t \in Txn : txn'[t] = Idle =>
         /\ txn[t].cb = "vdp_create_cb" => txn[t].res = "REJECT"
         /\ txn[t].cb = "confirm_cb" => txn[t].res = "OK"
    /\ \A c \in bg' \ bg : c.op = "DEL" =>
         \E t \in Txn : c = txn[t].cmd \/ (c.seid = txn[t].seid /\ Refused(t))

FlowTurn ==
  /\ FlowMoves
  /\ \A t \in Txn : txn'[t] = txn[t] \/ Passes(t, txn'[t])
  /\ teidAvail' = teidAvail \/ \E t \in Txn : Supply(t, txn'[t])
  /\ \A c \in bg' \ bg : c.op = "PERSIST" =>
       \E t \in Txn : /\ txn[t].cb = "confirm_cb" /\ c.seid = txn[t].seid /\ txn'[t] = Idle
                      /\ \A x \in tx' \ tx : x.cause # "ACCEPTED"
  /\ target' = target \/ AcceptedSeids' = AcceptedSeids
  /\ RuleFlow

(* A callback is such a step.                                              *)
LEMMA CallbackFlows ==
  ASSUME DurabilityInv, HistoryInv, SessionInv, NEW t \in Txn,
         EstCallback(t) \/ ModCallback(t) \/ DelCallback(t)
  PROVE  FlowTurn
<1>1. PICK new : Turn(t, new)
  BY CallbackTurn
<1>2. FlowMoves
  BY CallbackMoves
<1>3. txn'[t] = new /\ \A u \in Txn : u # t => txn'[u] = txn[u]
  BY <1>1, TxnAfter DEF Turn, DurabilityInv
<1>4. /\ Passes(t, txn'[t]) /\ Supply(t, txn'[t]) /\ PersistTurn(t, txn'[t])
      /\ RuleTurn(t, txn'[t]) /\ target' = target
  BY <1>1, <1>3 DEF Turn
<1>5. \A u \in Txn : txn'[u] = txn[u] \/ Passes(u, txn'[u])
  BY <1>3, <1>4
<1>6. RuleFlow
  <2> SUFFICES ASSUME Faults \cap RecordFaults = {}
               PROVE  /\ \A u \in Txn : txn'[u] = Idle =>
                           /\ txn[u].cb = "vdp_create_cb" => txn[u].res = "REJECT"
                           /\ txn[u].cb = "confirm_cb" => txn[u].res = "OK"
                      /\ \A c \in bg' \ bg : c.op = "DEL" =>
                           \E u \in Txn : c = txn[u].cmd \/ (c.seid = txn[u].seid /\ Refused(u))
    BY DEF RuleFlow
  <2>1. ASSUME NEW u \in Txn, txn'[u] = Idle
        PROVE  /\ txn[u].cb = "vdp_create_cb" => txn[u].res = "REJECT"
               /\ txn[u].cb = "confirm_cb" => txn[u].res = "OK"
    BY <1>3, <1>4, <2>1, IdleFacts DEF RuleTurn
  <2>2. \A c \in bg' \ bg : c.op = "DEL" =>
          c = txn[t].cmd \/ (c.seid = txn[t].seid /\ Refused(t))
    BY <1>4 DEF RuleTurn
  <2> QED
    BY <2>1, <2>2
<1>7. \A c \in bg' \ bg : c.op = "PERSIST" =>
        /\ txn[t].cb = "confirm_cb" /\ c.seid = txn[t].seid /\ txn'[t] = Idle
        /\ \A x \in tx' \ tx : x.cause # "ACCEPTED"
  BY <1>4 DEF PersistTurn
<1> QED
  BY <1>2, <1>4, <1>5, <1>6, <1>7 DEF FlowTurn

(* A confirmation that a transaction waits for is its establishment's own. *)
LEMMA LatePersist ==
  ASSUME DurabilityInv, SessionInv, NEW t \in Txn, NEW c \in Late(t), c.op = "PERSIST"
  PROVE  txn[t].cb = "confirm_cb" /\ c.seid = txn[t].seid
<1>1. c = txn[t].cmd /\ SessionOK(t) /\ Shape(txn[t])
  BY LateFacts, OwnFacts DEF SessionInv
<1> QED
  BY <1>1 DEF SessionOK, Shape

(* timeout_handler().                                                      *)
LEMMA TimeoutFlows ==
  ASSUME DurabilityInv, HistoryInv, SessionInv, NEW t \in Txn, timeout_handler(t)
  PROVE  FlowTurn
<1>1. /\ txn' = [txn EXCEPT ![t] = Idle] /\ bg' = bg \cup TimeoutCommands(txn[t]) \cup Late(t)
      /\ tx' = tx /\ teidAvail' = teidAvail /\ target' = target
      /\ Faults \cap RecordFaults # {}
  BY DEF timeout_handler, idVars, smfVars, CanFail, RecordFaults
<1>2. FlowMoves
  BY TimeoutMoves
<1>3. txn'[t] = Idle /\ \A u \in Txn : u # t => txn'[u] = txn[u]
  BY <1>1, TxnAfter, IdleFacts DEF DurabilityInv
<1>4. \A u \in Txn : txn'[u] = txn[u] \/ Passes(u, txn'[u])
  BY <1>3, IdleHolds DEF Passes
<1>5. ASSUME NEW c \in bg' \ bg, c.op = "PERSIST"
      PROVE  txn[t].cb = "confirm_cb" /\ c.seid = txn[t].seid
  <2>1. CASE c \in Late(t)
    BY <1>5, <2>1, LatePersist
  <2>2. CASE c \in TimeoutCommands(txn[t])
    <3>1. txn[t].st = "DB_CONFIRM_WAIT" /\ c = v_sess_confirm(txn[t].seid)
      BY <1>5, <2>2 DEF TimeoutCommands, v_sess_delete, NoCmd
    <3>2. txn[t].cb = "confirm_cb" /\ c.seid = txn[t].seid
      BY <3>1, OwnFacts DEF Shape, v_sess_confirm, NoCmd
    <3> QED
      BY <3>2
  <2> QED
    BY <1>1, <1>5, <2>1, <2>2
<1> QED
  BY <1>1, <1>2, <1>3, <1>4, <1>5 DEF FlowTurn, RuleFlow

(* PodCrash.                                                               *)
LEMMA PodCrashFlows ==
  ASSUME DurabilityInv, HistoryInv, SessionInv, NEW p \in Pod, PodCrash(p)
  PROVE  FlowTurn
<1>1. /\ txn' = [t \in Txn |-> IF t[1] = p THEN Idle ELSE txn[t]]
      /\ bg' = bg \cup UNION {Late(<<p, i>>) : i \in Slot}
      /\ tx' = tx /\ teidAvail' = teidAvail /\ target' = target
      /\ Faults \cap RecordFaults # {}
  BY DEF PodCrash, idVars, smfVars, CanFail, RecordFaults
<1>2. FlowMoves
  BY PodCrashMoves
<1>3. \A u \in Txn : txn'[u] = txn[u] \/ Passes(u, txn'[u])
  BY <1>1, IdleHolds DEF Passes
<1>4. ASSUME NEW c \in bg' \ bg, c.op = "PERSIST"
      PROVE  \E t \in Txn : txn[t].cb = "confirm_cb" /\ c.seid = txn[t].seid /\ txn'[t] = Idle
  <2>1. PICK i \in Slot : c \in Late(<<p, i>>)
    BY <1>1, <1>4
  <2>2. PICK t \in Txn : t = <<p, i>>
    BY DEF Txn
  <2>3. txn'[t] = Idle
    BY <1>1, <2>2
  <2> QED
    BY <1>4, <2>1, <2>2, <2>3, LatePersist
<1> QED
  BY <1>1, <1>2, <1>3, <1>4 DEF FlowTurn, RuleFlow

(* v_flow_handle_msg().                                                    *)
LEMMA HandleMsgFlows ==
  ASSUME DurabilityInv, HistoryInv, SessionInv, NEW p \in Pod, NEW r \in Req,
         v_flow_handle_msg(p, r)
  PROVE  FlowTurn
<1>1. PICK s \in Targets(r) : reply_ctx_not_found(r) \/ Dropped(p, r) \/ Started(p, r, s)
  BY DEF v_flow_handle_msg
<1>2. bg' = bg /\ teidAvail' = teidAvail
  BY DEF v_flow_handle_msg, idVars
<1>3. FlowMoves
  BY HandleMsgMoves
<1>4. tx \subseteq tx' /\ \A x \in tx' : x \in tx \/ x.cause = "NOT_FOUND"
  BY <1>1 DEF reply_ctx_not_found, Dropped, Started
<1>5. AcceptedSeids' = AcceptedSeids
  BY <1>4, AcceptedIff, AcceptedIffNext
<1>6. \A u \in Txn : txn'[u] = txn[u] \/ (Passes(u, txn'[u]) /\ txn'[u] # Idle)
  <2>1. CASE reply_ctx_not_found(r) \/ Dropped(p, r)
    BY <2>1 DEF reply_ctx_not_found, Dropped
  <2>2. CASE Started(p, r, s)
    <3>1. PICK i \in Slot :
            Await(<<p, i>>, [Idle EXCEPT !.req = r, !.seid = s], "RECV", Entry(r), NoCmd)
      BY <2>2 DEF Started
    <3> DEFINE new == [[Idle EXCEPT !.req = r, !.seid = s] EXCEPT
                         !.st = "RECV", !.cb = Entry(r), !.cmd = NoCmd, !.res = "none"]
    <3>2. PICK t \in Txn : t = <<p, i>>
      BY DEF Txn
    <3>3. txn' = [txn EXCEPT ![t] = new]
      BY <3>1, <3>2 DEF Await
    <3>4. new.st = "RECV" /\ new.cb = Entry(r) /\ new.cmd = NoCmd
      BY DEF Idle
    <3>5. txn'[t] = new /\ \A u \in Txn : u # t => txn'[u] = txn[u]
      BY <3>3 DEF DurabilityInv, TypeOK
    <3> HIDE DEF new
    <3>6. Passes(t, new) /\ new # Idle
      BY <3>4, IdleFacts DEF Passes, Names, Carries, Entry, EstWait, Modifying
    <3> QED
      BY <3>5, <3>6
  <2> QED
    BY <1>1, <2>1, <2>2
<1>7. RuleFlow
  BY <1>2, <1>6, IdleFacts DEF RuleFlow
<1> QED
  BY <1>2, <1>3, <1>5, <1>6, <1>7 DEF FlowTurn

(* What a transaction that moves on knows of its session.                  *)
LEMMA MovedSessionOK ==
  ASSUME DurabilityInv, HistoryInv, SessionInv, FlowMoves, NEW t \in Txn
  PROVE  SessionOK(t)'
<1>0. SessionOK(t) /\ sess' = sess /\ vdp' = vdp /\ AbsentIsEmpty
  BY DEF SessionInv, FlowMoves, HistoryInv
<1>1. CASE txn'[t] = txn[t]
  BY <1>0, <1>1 DEF SessionOK
<1>2. CASE Moves(t, txn'[t])
  <2>1. PICK new : new = txn'[t] /\ Moves(t, new)
    BY <1>2
  <2> SUFFICES
        /\ new.cmd.op = "PERSIST" => new.cb = "confirm_cb"
        /\ new.cmd.op = "DEL" => new.cb = "del_delete_cb"
        /\ new.cb \in {"cas_write_cb", "vdp_create_cb"} /\ sess[new.seid].ver # 0 =>
             sess[new.seid].ttl
        /\ new.cb = "cas_write_cb" => vdp[new.seid] = NULL
        /\ new.cb = "vdp_create_cb" =>
             new.cmd.op = "VDP_CREATE" /\ (new.res # "ACCEPT" => vdp[new.seid] = NULL)
    BY <1>0, <2>1 DEF SessionOK
  <2>2. CASE new = Idle
    BY <2>2, IdleFacts
  <2>3. CASE EstMove(t, new)
    <3>1. CASE new.cb = "cas_write_cb"
      <4>1. new.seid \in Seid \ seidUsed /\ new.cmd.op = "CAS"
        BY <2>3, <3>1, CreationFields DEF EstMove
      <4>2. sess[new.seid].ver = 0 /\ vdp[new.seid] = NULL
        BY <1>0, <4>1 DEF AbsentIsEmpty, SessionInv
      <4> QED
        BY <3>1, <4>1, <4>2
    <3>2. CASE new.cb \in {"vdp_create_cb", "confirm_cb"}
      BY <1>0, <2>3, <3>2 DEF EstMove, SessionOK
    <3> QED
      BY <2>3, <3>1, <3>2 DEF EstMove
  <2>4. CASE ModMove(t, new)
    BY <2>4, ModMoveFields
  <2>5. CASE DelMove(t, new)
    BY <2>5 DEF DelMove
  <2>6. CASE ReadMove(t, new) \/ StartMove(t, new)
    BY <2>6, IdleFacts DEF ReadMove, StartMove
  <2> QED
    BY <2>1, <2>2, <2>3, <2>4, <2>5, <2>6 DEF Moves
<1> QED
  BY <1>1, <1>2 DEF FlowMoves

(* A step of transactions answers no command: what removed its record did  *)
(* so before.                                                              *)
LEMMA RemovedKept ==
  ASSUME FlowMoves, NEW t \in Txn, Removed(t)'
  PROVE  Removed(t) /\ txn'[t] = txn[t]
<1>1. txn'[t] = txn[t]
  BY DEF FlowMoves, Moves, Removed
<1> QED
  BY <1>1 DEF Removed

(* Steps of transactions preserve what is known of the sessions.           *)
LEMMA FlowKeepsSession ==
  ASSUME DurabilityInv, DurabilityInv', HistoryInv, SessionInv, FlowTurn
  PROVE  SessionInv'
<1>0. FlowMoves /\ sess' = sess /\ refused' = refused /\ vdp' = vdp /\ seidUsed \subseteq seidUsed'
  BY DEF FlowTurn, FlowMoves
<1>1. \A t \in Txn : SessionOK(t)'
  BY <1>0, MovedSessionOK
<1>2. \A t, u \in Txn : Removed(t)' /\ Removed(u)' /\ txn'[t].seid = txn'[u].seid => t = u
  BY <1>0, RemovedKept DEF SessionInv
<1>3. \A s \in Seid : s \notin seidUsed' => vdp'[s] = NULL
  BY <1>0 DEF SessionInv
<1>4. ASSUME NEW s \in Seid, s \in AcceptedSeids'
      PROVE  ~sess'[s].ttl \/ s \in refused'
  <2>1. CASE s \in AcceptedSeids
    BY <1>0, <2>1 DEF SessionInv
  <2>2. CASE s \notin AcceptedSeids
    <3>1. target' = target
      BY <1>4, <2>2 DEF FlowTurn
    <3>2. \A d \in DelReq : target'[d] # s
      BY <1>4, <2>2, <3>1, NullAssumption DEF DurabilityInv, TargetKnown
    <3> QED
      BY <1>4, <3>2 DEF DurabilityInv, AcceptedDurable, Confirmed
  <2> QED
    BY <2>1, <2>2
<1>5. ASSUME NEW c \in bg', c.op = "PERSIST" PROVE Abandoned(c.seid)'
  <2>1. CASE c \in bg
    <3>1. Abandoned(c.seid) /\ c.seid \in Seid
      BY <1>5, <2>1 DEF SessionInv, DurabilityInv, CommandsOK, CommandOK, SessOp
    <3> QED
      BY <1>0, <3>1, AbandonedKept
  <2>2. CASE c \notin bg
    <3>1. PICK t \in Txn : /\ txn[t].cb = "confirm_cb" /\ c.seid = txn[t].seid /\ txn'[t] = Idle
                           /\ \A x \in tx' \ tx : x.cause # "ACCEPTED"
      BY <1>5, <2>2 DEF FlowTurn
    <3>2. Establishing(t, c.seid) /\ c.seid \in Seid
      BY <3>1, OwnFacts DEF Establishing, EstWait, Shape
    <3>3. /\ c.seid \in seidUsed /\ c.seid \notin AcceptedSeids
          /\ \A u \in Txn : Establishing(u, c.seid) => u = t
      BY <3>2 DEF DurabilityInv, SeidOnce
    <3>4. c.seid \notin AcceptedSeids'
      BY <3>1, <3>3, AcceptedIff, AcceptedIffNext
    <3>5. ~Establishing(t, c.seid)'
      BY <3>1, IdleFacts DEF Establishing, EstWait
    <3>6. \A u \in Txn : ~Establishing(u, c.seid)'
      BY <1>0, <3>3, <3>5, MovesFacts
    <3> QED
      BY <1>0, <3>3, <3>4, <3>6 DEF Abandoned
  <2> QED
    BY <2>1, <2>2
<1> QED
  BY <1>1, <1>2, <1>3, <1>4, <1>5 DEF SessionInv

(* Without RecordFaults an establishment stops being one without its rule, *)
(* or confirmed.                                                           *)
LEMMA FlowKeepsRule ==
  ASSUME DurabilityInv, HistoryInv, SessionInv, RuleInv, FlowTurn, Faults \cap RecordFaults = {}
  PROVE  RuleInv'
<1>0. FlowMoves /\ sess' = sess /\ refused' = refused /\ vdp' = vdp
  BY DEF FlowTurn, FlowMoves
<1>1. RuleHasRecord' /\ refused' = {}
  BY <1>0 DEF RuleInv, RuleHasRecord
<1>2. \A t \in Txn : txn'[t] = Idle =>
        /\ txn[t].cb = "vdp_create_cb" => txn[t].res = "REJECT"
        /\ txn[t].cb = "confirm_cb" => txn[t].res = "OK"
  BY DEF FlowTurn, RuleFlow
<1>3. ASSUME NEW s \in Seid, vdp[s] # NULL, sess[s].ttl
      PROVE  \E t \in Txn : Establishing(t, s)'
  <2>1. PICK t \in Txn : Establishing(t, s)
    BY <1>3 DEF RuleInv
  <2>2. txn'[t] # Idle
    <3> SUFFICES ASSUME txn'[t] = Idle PROVE FALSE
      OBVIOUS
    <3>1. CASE txn[t].cb = "cas_write_cb"
      BY <1>3, <2>1, <3>1 DEF SessionInv, SessionOK, Establishing
    <3>2. CASE txn[t].cb = "vdp_create_cb"
      BY <1>2, <1>3, <2>1, <3>2 DEF SessionInv, SessionOK, Establishing
    <3>3. CASE txn[t].cb = "confirm_cb"
      BY <1>2, <1>3, <2>1, <3>3 DEF DurabilityInv, EstRecord, Establishing, RuleInv
    <3> QED
      BY <2>1, <3>1, <3>2, <3>3 DEF Establishing, EstWait
  <2>3. CASE txn'[t] = txn[t]
    BY <2>1, <2>3 DEF Establishing
  <2>4. CASE Moves(t, txn'[t])
    <3>1. txn[t].st # "FREE"
      BY <2>1, IdleFacts DEF HistoryInv, TxnOK, Establishing, EstWait
    <3>2. EstMove(t, txn'[t])
      BY <2>1, <2>2, <2>4, <3>1
      DEF Moves, ModMove, DelMove, ReadMove, StartMove, Establishing, EstWait, ModCb, DelCb
    <3>3. Establishing(t, s)'
      BY <2>1, <3>2 DEF EstMove, Establishing, EstWait
    <3> QED
      BY <3>3
  <2> QED
    BY <1>0, <2>3, <2>4 DEF FlowMoves
<1>4. ASSUME NEW c \in bg' PROVE c.op # "VDP_CREATE"
  <2>1. CASE c \in bg \/ c.op \in {"DEL", "PERSIST"}
    BY <2>1 DEF RuleInv
  <2>2. CASE \E t \in Txn : LeftBehind(t, c)
    <3>1. PICK t \in Txn : LeftBehind(t, c)
      BY <2>2
    <3>2. c = txn[t].cmd /\ txn[t].res = "none"
      BY <3>1, LateFacts DEF LeftBehind
    <3> QED
      BY <1>2, <3>1, <3>2 DEF HistoryInv, TxnOK, LeftBehind
  <2> QED
    BY <1>0, <2>1, <2>2 DEF FlowMoves
<1>5. ASSUME NEW c \in bg', c.op = "DEL" PROVE vdp[c.seid] = NULL
  <2>1. CASE c \in bg
    BY <1>5, <2>1 DEF RuleInv
  <2>2. CASE c \notin bg
    <3>1. PICK t \in Txn : c = txn[t].cmd \/ (c.seid = txn[t].seid /\ Refused(t))
      BY <1>5, <2>2 DEF FlowTurn, RuleFlow
    <3>2. CASE c = txn[t].cmd
      <4>1. txn[t].cb = "del_delete_cb" /\ TxnOK(t)
        BY <1>5, <3>2 DEF SessionInv, SessionOK, HistoryInv
      <4>2. c # NoCmd
        BY <1>5, IdleFacts
      <4> QED
        BY <3>2, <4>1, <4>2 DEF TxnOK, DelCb
    <3>3. CASE c.seid = txn[t].seid /\ Refused(t)
      <4>1. ~CanFail("vdp_timeout")
        BY DEF CanFail, RecordFaults
      <4> QED
        BY <3>3, <4>1 DEF Refused, SessionInv, SessionOK
    <3> QED
      BY <3>1, <3>2, <3>3
  <2> QED
    BY <2>1, <2>2
<1> QED
  BY <1>0, <1>1, <1>3, <1>4, <1>5 DEF RuleInv

-----------------------------------------------------------------------------
(* The TEIDs, whatever sort of step it is.                                 *)

(* A step writes a TEID down only where it was, or where it is taken; it   *)
(* makes a claim only for a session that had one, or a new one; and it     *)
(* offers a TEID only when the session that claimed it gives up.           *)
TeidStep ==
  /\ \A s \in Seid : \A d : Says(s, d)' => Says(s, d) \/ Taken(s, d)
  /\ \A s \in Seid : Claims(s)' => Claims(s) \/ s \notin seidUsed
  /\ \/ teidAvail' = teidAvail
     \/ \E d \in Teid : teidAvail[d] > 0 /\ teidAvail' = [teidAvail EXCEPT ![d] = @ - 1]
     \/ \E s \in Seid : \E d : /\ Claims(s) /\ Says(s, d) /\ ~Claims(s)'
                               /\ teidAvail' = [teidAvail EXCEPT ![d] = @ + 1]
  /\ seidUsed \subseteq seidUsed'

(* Two TEIDs taken in one step are the same, and so are two SEIDs.         *)
LEMMA TakenOnce ==
  ASSUME teidAvail \in [Teid -> Nat], NEW s, NEW d, NEW q, NEW e, Taken(s, d), Taken(q, e)
  PROVE  s = q /\ d = e
<1>1. s = q
  BY DEF Taken
<1>2. d = e
  <2> SUFFICES ASSUME d # e PROVE FALSE
    OBVIOUS
  <2>1. teidAvail'[d] = teidAvail[d] - 1 /\ teidAvail'[d] = teidAvail[d] /\ teidAvail[d] \in Nat
    BY DEF Taken
  <2> QED
    BY <2>1
<1> QED
  BY <1>1, <1>2

(* Such a step preserves the exclusive use of TEIDs.                       *)
LEMMA TeidStepKeeps ==
  ASSUME teidAvail \in [Teid -> Nat], TeidInv, TeidStep
  PROVE  TeidInv'
<1>1. ASSUME NEW s \in Seid, NEW d, NEW e, Says(s, d)', Says(s, e)' PROVE d = e
  <2>1. Says(s, d) \/ Taken(s, d)
    BY <1>1 DEF TeidStep
  <2>2. Says(s, e) \/ Taken(s, e)
    BY <1>1 DEF TeidStep
  <2>3. (Says(s, d) \/ Says(s, e)) => s \in seidUsed
    BY DEF TeidInv
  <2>4. (Taken(s, d) \/ Taken(s, e)) => s \notin seidUsed
    BY DEF Taken
  <2>5. CASE Says(s, d) /\ Says(s, e)
    BY <2>5 DEF TeidInv
  <2>6. CASE Taken(s, d) /\ Taken(s, e)
    BY <2>6, TakenOnce
  <2> QED
    BY <2>1, <2>2, <2>3, <2>4, <2>5, <2>6
<1>2. ASSUME NEW s \in Seid, NEW d, Says(s, d)' PROVE s \in seidUsed' /\ d \in Teid
  BY <1>2 DEF TeidStep, TeidInv, Taken
<1>3. ASSUME NEW s \in Seid, NEW d, Claims(s)', Says(s, d)', Says(s, d) PROVE Claims(s)
  BY <1>3 DEF TeidStep, TeidInv
<1>4. ASSUME NEW d \in Teid PROVE teidAvail'[d] <= 1
  <2>1. teidAvail[d] \in Nat /\ teidAvail[d] <= 1
    BY DEF TeidInv
  <2>2. CASE \E e \in Teid : teidAvail' = [teidAvail EXCEPT ![e] = @ - 1]
    BY <2>1, <2>2
  <2>3. ASSUME NEW s \in Seid, NEW e, Claims(s), Says(s, e),
               teidAvail' = [teidAvail EXCEPT ![e] = @ + 1]
        PROVE  teidAvail'[d] <= 1
    <3>1. e = d => teidAvail[d] = 0
      BY <2>3 DEF TeidInv
    <3>2. CASE e = d
      BY <2>3, <3>1, <3>2
    <3>3. CASE e # d
      BY <2>1, <2>3, <3>3
    <3> QED
      BY <3>2, <3>3
  <2> QED
    BY <2>1, <2>2, <2>3 DEF TeidStep
<1>5. ASSUME NEW s \in Seid, NEW d \in Teid, Claims(s)', Says(s, d)' PROVE teidAvail'[d] = 0
  <2>1. CASE Says(s, d)
    <3>1. Claims(s) /\ teidAvail[d] = 0
      BY <1>3, <1>5, <2>1 DEF TeidInv
    <3>2. CASE \E e \in Teid : teidAvail[e] > 0 /\ teidAvail' = [teidAvail EXCEPT ![e] = @ - 1]
      <4>1. PICK e \in Teid : teidAvail[e] > 0 /\ teidAvail' = [teidAvail EXCEPT ![e] = @ - 1]
        BY <3>2
      <4>2. e # d
        BY <3>1, <4>1
      <4> QED
        BY <3>1, <4>1, <4>2
    <3>3. ASSUME NEW q \in Seid, NEW e, Claims(q), Says(q, e), ~Claims(q)',
                 teidAvail' = [teidAvail EXCEPT ![e] = @ + 1]
          PROVE  teidAvail'[d] = 0
      <4>1. s # q
        BY <1>5, <3>3
      <4>2. e # d
        BY <2>1, <3>1, <3>3, <4>1 DEF TeidInv
      <4> QED
        BY <3>1, <3>3, <4>2
    <3> QED
      BY <3>1, <3>2, <3>3 DEF TeidStep
  <2>2. CASE Taken(s, d)
    <3>1. teidAvail[d] > 0 /\ teidAvail[d] <= 1 /\ teidAvail[d] \in Nat
      BY <2>2 DEF TeidInv, Taken
    <3>2. teidAvail'[d] = teidAvail[d] - 1
      BY <2>2 DEF Taken
    <3> QED
      BY <3>1, <3>2
  <2> QED
    BY <1>5, <2>1, <2>2 DEF TeidStep
<1>6. ASSUME NEW s \in Seid, NEW q \in Seid, NEW d,
             Claims(s)', Says(s, d)', Claims(q)', Says(q, d)'
      PROVE  s = q
  <2>1. /\ Says(s, d) \/ Taken(s, d)
        /\ Says(q, d) \/ Taken(q, d)
    BY <1>6 DEF TeidStep
  <2>2. CASE Says(s, d) /\ Says(q, d)
    <3>1. Claims(s) /\ Claims(q)
      BY <1>3, <1>6, <2>2
    <3> QED
      BY <2>2, <3>1 DEF TeidInv
  <2>3. CASE Taken(s, d) /\ Taken(q, d)
    BY <2>3, TakenOnce
  <2>4. ASSUME NEW y \in Seid, NEW z \in Seid, Says(y, d), Claims(y)', Says(y, d)', Taken(z, d)
        PROVE  FALSE
    <3>1. Claims(y)
      BY <1>3, <2>4
    <3>2. d \in Teid /\ teidAvail[d] > 0
      BY <2>4 DEF Taken
    <3>3. teidAvail[d] = 0
      BY <2>4, <3>1, <3>2 DEF TeidInv
    <3> QED
      BY <3>2, <3>3
  <2> QED
    BY <1>6, <2>1, <2>2, <2>3, <2>4
<1> QED
  BY <1>1, <1>2, <1>4, <1>5, <1>6 DEF TeidInv

(* Who makes a claim after a step of transactions made it before.          *)
LEMMA FlowClaims ==
  ASSUME DurabilityInv, DurabilityInv', HistoryInv, SessionInv, FlowTurn, NEW s \in Seid, Claims(s)'
  PROVE  Claims(s) \/ s \notin seidUsed
<1>0. FlowMoves /\ sess' = sess /\ refused' = refused /\ vdp' = vdp
  BY DEF FlowTurn, FlowMoves
<1>1. CASE \E t \in Txn : Establishing(t, s)'
  BY <1>0, <1>1, MovesFacts DEF Claims
<1>2. CASE sess'[s].ver # 0 /\ (~sess'[s].ttl \/ s \in AcceptedSeids')
  <2>1. CASE ~sess[s].ttl \/ s \in AcceptedSeids
    BY <1>0, <1>2, <2>1 DEF Claims
  <2>2. CASE s \in AcceptedSeids' /\ s \notin AcceptedSeids
    BY <1>0, <2>2, MovesFacts DEF Claims
  <2> QED
    BY <1>0, <1>2, <2>1, <2>2
<1>3. CASE \E c \in bg' : c.op = "PERSIST" /\ c.seid = s
  <2>1. PICK c \in bg' : c.op = "PERSIST" /\ c.seid = s
    BY <1>3
  <2>2. CASE c \notin bg
    <3>1. PICK t \in Txn : txn[t].cb = "confirm_cb" /\ c.seid = txn[t].seid
      BY <2>1, <2>2 DEF FlowTurn
    <3>2. Establishing(t, s)
      BY <2>1, <3>1 DEF Establishing, EstWait
    <3> QED
      BY <3>2 DEF Claims
  <2> QED
    BY <2>1, <2>2 DEF Claims
<1>4. CASE \E t \in Txn : Removed(t)' /\ txn'[t].seid = s
  BY <1>0, <1>4, RemovedKept DEF Claims
<1>5. CASE RuleClaim(s)'
  <2>1. CASE vdp[s] # NULL
    BY <1>5, <2>1 DEF Claims, RuleClaim
  <2>2. CASE \E c \in bg' : c.op = "VDP_CREATE" /\ c.seid = s
    <3>1. PICK c \in bg' : c.op = "VDP_CREATE" /\ c.seid = s
      BY <2>2
    <3>2. CASE c \in bg
      BY <1>5, <3>1, <3>2 DEF Claims, RuleClaim
    <3>3. CASE c \notin bg
      <4>1. PICK t \in Txn : LeftBehind(t, c)
        BY <1>0, <3>1, <3>3 DEF FlowMoves
      <4>2. c = txn[t].cmd
        BY <4>1, LateFacts DEF LeftBehind
      <4>3. Establishing(t, s)
        BY <3>1, <4>2 DEF HistoryInv, TxnOK, Establishing, EstWait
      <4> QED
        BY <4>3 DEF Claims
    <3> QED
      BY <3>2, <3>3
  <2> QED
    BY <1>0, <1>5, <2>1, <2>2 DEF RuleClaim
<1> QED
  BY <1>1, <1>2, <1>3, <1>4, <1>5 DEF Claims

(* Where a TEID is written down after a step of transactions.              *)
LEMMA FlowSays ==
  ASSUME FlowTurn, NEW s, NEW d, Says(s, d)'
  PROVE  Says(s, d) \/ Taken(s, d)
<1>0. FlowMoves /\ sess' = sess /\ refused' = refused /\ vdp' = vdp
  BY DEF FlowTurn, FlowMoves
<1>1. CASE InRecord(s, d)' \/ InRule(s, d)'
  BY <1>0, <1>1 DEF Says, InRecord, InRule
<1>2. ASSUME NEW t \in Txn, Names(txn'[t], s, d) \/ Carries(txn'[t].cmd, s, d)
      PROVE  Says(s, d) \/ Taken(s, d)
  <2>1. CASE txn'[t] = txn[t]
    BY <1>2, <2>1 DEF Says
  <2>2. CASE Passes(t, txn'[t])
    BY <1>2, <2>2 DEF Passes, Says
  <2> QED
    BY <2>1, <2>2 DEF FlowTurn
<1>3. ASSUME NEW c \in bg', Carries(c, s, d) PROVE Says(s, d)
  <2>1. c.op \notin {"DEL", "PERSIST"}
    BY <1>3 DEF Carries
  <2>2. CASE c \in bg
    BY <1>3, <2>2 DEF Says
  <2>3. CASE \E t \in Txn : LeftBehind(t, c)
    <3>1. PICK t \in Txn : c = txn[t].cmd
      BY <2>3, LateFacts DEF LeftBehind
    <3> QED
      BY <1>3, <3>1 DEF Says
  <2> QED
    BY <1>0, <2>1, <2>2, <2>3 DEF FlowMoves
<1>4. \/ InRecord(s, d)' \/ InRule(s, d)'
      \/ \E t \in Txn : Names(txn'[t], s, d) \/ Carries(txn'[t].cmd, s, d)
      \/ \E c \in bg' : Carries(c, s, d)
  BY DEF Says, Names, Carries, InRecord, InRule
<1> QED
  BY <1>1, <1>2, <1>3, <1>4

(* An establishment that is refused before it is confirmed gives up its    *)
(* claim.                                                                  *)
LEMMA RefusedGivesUp ==
  ASSUME DurabilityInv, DurabilityInv', HistoryInv, SessionInv, FlowTurn,
         NEW t \in Txn, Refused(t), txn'[t] = Idle, NEW s, s = txn[t].seid
  PROVE  s \in Seid /\ Establishing(t, s) /\ ~Claims(s)'
<1>0. FlowMoves /\ sess' = sess /\ refused' = refused /\ vdp' = vdp
  BY DEF FlowTurn, FlowMoves
<1>1. /\ txn[t].cb \in {"cas_write_cb", "vdp_create_cb"} /\ s \in Seid /\ Establishing(t, s)
  BY OwnFacts DEF Refused, Establishing, EstWait, Shape
<1>2. /\ s \in seidUsed /\ s \notin AcceptedSeids
      /\ \A u \in Txn : Establishing(u, s) => u = t
      /\ ~Abandoned(s) /\ SessionOK(t)
  BY <1>1 DEF DurabilityInv, SeidOnce, Abandoned, SessionInv
<1>3. \A u \in Txn : ~Establishing(u, s)'
  <2>1. ~Establishing(t, s)'
    BY IdleFacts DEF Establishing, EstWait
  <2> QED
    BY <1>0, <1>2, <2>1, MovesFacts
<1>4. ~(sess'[s].ver # 0 /\ (~sess'[s].ttl \/ s \in AcceptedSeids'))
  <2>1. s \notin AcceptedSeids'
    BY <1>0, <1>1, <1>2, MovesFacts
  <2> QED
    BY <1>0, <1>1, <1>2, <2>1 DEF SessionOK
<1>5. ASSUME NEW c \in bg', c.op = "PERSIST", c.seid = s PROVE FALSE
  <2>1. c \notin bg
    BY <1>2, <1>5 DEF SessionInv
  <2>2. PICK u \in Txn : txn[u].cb = "confirm_cb" /\ s = txn[u].seid
    BY <1>5, <2>1 DEF FlowTurn
  <2> QED
    BY <1>1, <1>2, <2>2 DEF Establishing, EstWait
<1>6. ASSUME NEW u \in Txn, Removed(u)', txn'[u].seid = s PROVE FALSE
  <2>1. Removed(u) /\ txn[u].seid = s
    BY <1>0, <1>6, RemovedKept
  <2> QED
    BY <1>2, <2>1 DEF Removed, HistoryInv, TxnOK, DelCb
<1>7. ASSUME RuleClaim(s)' PROVE FALSE
  <2>1. /\ "vdp_timeout" \notin Faults
        /\ vdp[s] # NULL \/ \E c \in bg' : c.op = "VDP_CREATE" /\ c.seid = s
    BY <1>0, <1>7 DEF RuleClaim
  <2>2. txn[t].cb = "cas_write_cb" \/ (txn[t].cb = "vdp_create_cb" /\ txn[t].res = "REJECT")
    BY <2>1 DEF Refused, CanFail
  <2>3. vdp[s] = NULL
    BY <1>2, <2>2 DEF SessionOK
  <2>4. PICK c \in bg' : c.op = "VDP_CREATE" /\ c.seid = s
    BY <2>1, <2>3
  <2>5. c \notin bg
    BY <1>2, <2>4 DEF HistoryInv, LeftOK
  <2>6. PICK u \in Txn : LeftBehind(u, c)
    BY <1>0, <2>4, <2>5 DEF FlowMoves
  <2>7. c = txn[u].cmd /\ txn[u].res = "none"
    BY <2>6, LateFacts DEF LeftBehind
  <2>8. txn[u].cb = "vdp_create_cb" /\ Establishing(u, s)
    BY <2>4, <2>7 DEF HistoryInv, TxnOK, Establishing, EstWait
  <2> QED
    BY <1>2, <2>2, <2>7, <2>8
<1>8. ~Claims(s)'
  BY <1>3, <1>4, <1>5, <1>6, <1>7 DEF Claims
<1> QED
  BY <1>1, <1>8

(* So does a session when the deletion that removed its record ends.       *)
LEMMA RemovedGivesUp ==
  ASSUME DurabilityInv, DurabilityInv', HistoryInv, HistoryInv', SessionInv, SessionInv', FlowTurn,
         NEW t \in Txn, Removed(t), txn'[t] = Idle, NEW s, s = txn[t].seid
  PROVE  s \in Seid /\ ~Claims(s)'
<1>0. FlowMoves /\ sess' = sess /\ refused' = refused /\ vdp' = vdp
  BY DEF FlowTurn, FlowMoves
<1>1. s \in AcceptedSeids /\ s \in Seid /\ sess[s].ver = 0 /\ vdp[s] = NULL
  BY OwnFacts DEF Removed, HistoryInv, TxnOK, DelCb, Shape
<1>2. s \in AcceptedSeids'
  BY <1>0, <1>1, MovesFacts
<1>3. \A u \in Txn : ~Establishing(u, s)'
  BY <1>1, <1>2 DEF DurabilityInv, SeidOnce
<1>4. sess'[s].ver = 0
  BY <1>0, <1>1
<1>5. \A c \in bg' : c.op \in {"PERSIST", "VDP_CREATE"} => c.seid # s
  BY <1>2 DEF SessionInv, HistoryInv, LeftOK, Abandoned
<1>6. ASSUME NEW u \in Txn, Removed(u)', txn'[u].seid = s PROVE FALSE
  <2>1. Removed(u) /\ txn[u].seid = s
    BY <1>0, <1>6, RemovedKept
  <2>2. u = t
    BY <2>1 DEF SessionInv
  <2> QED
    BY <1>6, <2>2, IdleFacts DEF Removed
<1>7. ~RuleClaim(s)'
  BY <1>0, <1>1, <1>5 DEF RuleClaim
<1>8. ~Claims(s)'
  BY <1>3, <1>4, <1>5, <1>6, <1>7 DEF Claims
<1> QED
  BY <1>1, <1>8

(* Steps of transactions keep to TeidStep.                                 *)
LEMMA FlowKeepsTeid ==
  ASSUME DurabilityInv, DurabilityInv', HistoryInv, HistoryInv', SessionInv, SessionInv', FlowTurn
  PROVE  TeidStep
<1>1. \A s \in Seid : \A d : Says(s, d)' => Says(s, d) \/ Taken(s, d)
  BY FlowSays
<1>2. \A s \in Seid : Claims(s)' => Claims(s) \/ s \notin seidUsed
  BY FlowClaims
<1>3. seidUsed \subseteq seidUsed'
  BY DEF FlowTurn, FlowMoves
<1>4. ASSUME NEW t \in Txn, txn'[t] = Idle, NEW d, Freed(t, d)
      PROVE  \E s \in Seid : Claims(s) /\ Says(s, d) /\ ~Claims(s)'
  <2>1. PICK s : s = txn[t].seid
    OBVIOUS
  <2>2. CASE Refused(t) /\ d = txn[t].teid
    <3>1. s \in Seid /\ Establishing(t, s) /\ ~Claims(s)'
      BY <1>4, <2>1, <2>2, RefusedGivesUp
    <3>2. Names(txn[t], s, d)
      BY <2>1, <2>2, <3>1 DEF Names, Establishing
    <3> QED
      BY <3>1, <3>2 DEF Claims, Says
  <2>3. CASE Removed(t) /\ d = txn[t].ctx.teid
    <3>1. s \in Seid /\ ~Claims(s)'
      BY <1>4, <2>1, <2>3, RemovedGivesUp
    <3>2. Names(txn[t], s, d)
      BY <2>1, <2>3 DEF Names, Removed
    <3> QED
      BY <2>1, <2>3, <3>1, <3>2 DEF Claims, Says
  <2> QED
    BY <1>4, <2>2, <2>3 DEF Freed
<1>5. \/ teidAvail' = teidAvail
      \/ \E d \in Teid : teidAvail[d] > 0 /\ teidAvail' = [teidAvail EXCEPT ![d] = @ - 1]
      \/ \E s \in Seid : \E d : /\ Claims(s) /\ Says(s, d) /\ ~Claims(s)'
                                /\ teidAvail' = [teidAvail EXCEPT ![d] = @ + 1]
  <2>1. ASSUME NEW t \in Txn, txn'[t] = Idle, NEW d, Freed(t, d),
               teidAvail' = [teidAvail EXCEPT ![d] = @ + 1]
        PROVE  \E s \in Seid : \E e : /\ Claims(s) /\ Says(s, e) /\ ~Claims(s)'
                                      /\ teidAvail' = [teidAvail EXCEPT ![e] = @ + 1]
    <3>1. PICK s \in Seid : Claims(s) /\ Says(s, d) /\ ~Claims(s)'
      BY <1>4, <2>1
    <3> QED
      BY <2>1, <3>1
  <2>2. CASE teidAvail' = teidAvail
    BY <2>2
  <2>3. CASE \E d \in Teid : teidAvail[d] > 0 /\ teidAvail' = [teidAvail EXCEPT ![d] = @ - 1]
    BY <2>3
  <2>4. CASE \E t \in Txn : /\ txn'[t] = Idle
                            /\ \E d : Freed(t, d) /\ teidAvail' = [teidAvail EXCEPT ![d] = @ + 1]
    BY <2>1, <2>4
  <2>5. teidAvail' = teidAvail \/ \E t \in Txn : Supply(t, txn'[t])
    BY DEF FlowTurn
  <2> QED
    BY <2>2, <2>3, <2>4, <2>5 DEF Supply
<1> QED
  BY <1>1, <1>2, <1>3, <1>5 DEF TeidStep

-----------------------------------------------------------------------------
(* Steps of Redis, of the VDP and of time.                                 *)

(* Command c takes effect: nobody waits for it, or a transaction does that *)
(* gets its answer.                                                        *)
Runs(c) ==
  \/ c \in bg
  \/ \E t \in Txn : c = txn[t].cmd /\ txn'[t] # txn[t]

(* What becomes of the record of session s: it is as it was, or deleted or *)
(* expired, or written, or confirmed.                                      *)
RecordEffect(s) ==
  \/ sess'[s] = sess[s]
  \/ /\ sess'[s] = NoSession
     /\ \/ \E c : Runs(c) /\ c.op = "DEL" /\ c.seid = s
        \/ sess[s].ttl /\ \A t \in Txn : ~Establishing(t, s)
  \/ \E c : /\ Runs(c) /\ c.op = "CAS" /\ c.seid = s /\ c.ver = sess[s].ver
            /\ sess'[s] = [ver |-> c.ver + 1, ctx |-> c.ctx, ttl |-> sess[s].ttl \/ c.ttl]
  \/ \E c : /\ Runs(c) /\ c.op = "PERSIST" /\ c.seid = s
            /\ sess'[s] = [sess[s] EXCEPT !.ttl = FALSE]

(* What becomes of its rule.                                               *)
RuleEffect(s) ==
  \/ vdp'[s] = vdp[s]
  \/ vdp'[s] = NULL
  \/ \E c : /\ Runs(c) /\ c.op \in {"VDP_CREATE", "VDP_MODIFY"} /\ c.seid = s
            /\ vdp'[s] = c.ctx /\ (c.op = "VDP_MODIFY" => vdp[s] # NULL)

(* What the transaction t that gets an answer learns from it.              *)
Told(t) ==
  /\ txn'[t].teid = txn[t].teid /\ txn'[t].ctx = txn[t].ctx
  /\ txn[t].cb = "del_delete_cb" /\ txn'[t].res = "OK" => sess[txn[t].seid].ver # 0
  /\ txn[t].cb = "vdp_create_cb" /\ txn'[t].res # "ACCEPT" => vdp' = vdp

EffectTurn ==
  /\ Effect /\ teidAvail' = teidAvail /\ (sess' = sess \/ vdp' = vdp)
  /\ refused \subseteq refused' /\ ("persist_refused" \notin Faults => refused' = refused)
  /\ \A s \in Seid : RecordEffect(s) /\ RuleEffect(s)
  /\ \A t \in Txn : txn'[t] = txn[t] \/ (Told(t) /\ txn[t].res = "none")

(* A write takes effect.                                                   *)
LEMMA WriteRuns ==
  ASSUME DurabilityInv, HistoryInv, NEW c, Runs(c), c.op = "CAS"
  PROVE  /\ c.ver = 0 => c.ttl = TRUE /\ c.seid \notin AcceptedSeids
         /\ c.ver # 0 => ~c.ttl
<1>1. CommandOK(c)
  BY DEF Runs, DurabilityInv, CommandsOK
<1>2. c.ver # 0 => ~c.ttl
  BY <1>1 DEF CommandOK
<1>3. ASSUME c.ver = 0 PROVE c.ttl = TRUE /\ c.seid \notin AcceptedSeids
  <2>1. Creates(c, c.seid)
    BY <1>3 DEF Creates
  <2>2. CASE c \in bg
    <3>1. Abandoned(c.seid) /\ Creation(c, c.seid)
      BY <1>3, <2>2 DEF HistoryInv, LeftOK
    <3> QED
      BY <3>1, CreationFields DEF Abandoned
  <2>3. ASSUME NEW t \in Txn, c = txn[t].cmd PROVE c.ttl = TRUE /\ c.seid \notin AcceptedSeids
    <3>1. Establishing(t, c.seid) /\ Creation(c, c.seid) /\ c.seid \in Seid
      BY <2>1, <2>3, CreatorFacts
    <3> QED
      BY <3>1, CreationFields DEF DurabilityInv, SeidOnce
  <2> QED
    BY <2>2, <2>3 DEF Runs
<1> QED
  BY <1>2, <1>3

(* A confirmation takes effect.                                            *)
LEMMA ConfirmRuns ==
  ASSUME DurabilityInv, SessionInv, NEW c, Runs(c), c.op = "PERSIST"
  PROVE  \/ c \in bg /\ Abandoned(c.seid)
         \/ \E t \in Txn : txn[t].cb = "confirm_cb" /\ Establishing(t, c.seid)
<1>1. CASE c \in bg
  BY <1>1 DEF SessionInv
<1>2. ASSUME NEW t \in Txn, c = txn[t].cmd
      PROVE  txn[t].cb = "confirm_cb" /\ Establishing(t, c.seid)
  <2>1. txn[t].cb = "confirm_cb"
    BY <1>2 DEF SessionInv, SessionOK
  <2> QED
    BY <1>2, <2>1, OwnFacts DEF Shape, Establishing, EstWait
<1> QED
  BY <1>1, <1>2 DEF Runs

(* A rule is installed.                                                    *)
LEMMA CreateRuns ==
  ASSUME HistoryInv, NEW c, Runs(c), c.op = "VDP_CREATE"
  PROVE  \/ c \in bg /\ Abandoned(c.seid)
         \/ \E t \in Txn : /\ txn[t].cb = "vdp_create_cb" /\ Establishing(t, c.seid)
                           /\ txn'[t] # txn[t]
<1>1. CASE c \in bg
  BY <1>1 DEF HistoryInv, LeftOK
<1>2. ASSUME NEW t \in Txn, c = txn[t].cmd
      PROVE  txn[t].cb = "vdp_create_cb" /\ Establishing(t, c.seid)
  BY <1>2 DEF HistoryInv, TxnOK, Establishing, EstWait
<1> QED
  BY <1>1, <1>2 DEF Runs

(* What a command does to the records when it runs.                        *)
LEMMA SessRunsRecords ==
  ASSUME DurabilityInv, NEW c, Runs(c), c.op \in SessOp, SessRun(c)
  PROVE  /\ \A s \in Seid : RecordEffect(s)
         /\ refused \subseteq refused' /\ ("persist_refused" \notin Faults => refused' = refused)
<1>0. sess \in [Seid -> SessRecord]
  BY DEF DurabilityInv, TypeOK
<1>a. /\ sess' = sess \/ sess' = [sess EXCEPT ![c.seid] = SessEffect(@, c)]
      /\ refused \subseteq refused' /\ ("persist_refused" \notin Faults => refused' = refused)
  BY DEF SessRun, CanFail
<1>b. CASE sess' = sess
  BY <1>a, <1>b DEF RecordEffect
<1>c. CASE sess' = [sess EXCEPT ![c.seid] = SessEffect(@, c)]
  <2> SUFFICES ASSUME NEW s \in Seid PROVE RecordEffect(s)
    BY <1>a
  <2>1. CASE s # c.seid
    BY <1>0, <1>c, <2>1 DEF RecordEffect
  <2>2. CASE s = c.seid
    <3>1. PICK rec : rec = sess[s]
      OBVIOUS
    <3>2. sess'[s] = SessEffect(rec, c)
      BY <1>0, <1>c, <2>2, <3>1
    <3>3. CASE c.op = "CAS"
      BY <2>2, <3>1, <3>2, <3>3, RecordAfter DEF RecordEffect
    <3>4. CASE c.op = "DEL"
      BY <2>2, <3>1, <3>2, <3>4, RecordAfter DEF RecordEffect
    <3>5. CASE c.op = "PERSIST"
      BY <2>2, <3>1, <3>2, <3>5, RecordAfter DEF RecordEffect
    <3> QED
      BY <3>3, <3>4, <3>5 DEF SessOp
  <2> QED
    BY <2>1, <2>2
<1> QED
  BY <1>a, <1>b, <1>c

(* The same of the rules.                                                  *)
LEMMA VdpRunsRules ==
  ASSUME DurabilityInv, NEW c, Runs(c), c.op \in VdpOp,
         vdp' = [vdp EXCEPT ![c.seid] = VdpEffect(@, c)]
  PROVE  \A s \in Seid : RuleEffect(s)
<1>0. vdp \in [Seid -> Ctx \cup {NULL}]
  BY DEF DurabilityInv, TypeOK
<1> SUFFICES ASSUME NEW s \in Seid PROVE RuleEffect(s)
  OBVIOUS
<1>1. CASE s # c.seid
  BY <1>0, <1>1 DEF RuleEffect
<1>2. CASE s = c.seid
  <2>1. vdp'[s] = VdpEffect(vdp[s], c)
    BY <1>0, <1>2
  <2> QED
    BY <1>2, <2>1 DEF RuleEffect, VdpEffect, VdpOp
<1> QED
  BY <1>1, <1>2

(* What is left alone by an answer besides what AnswerFields names.        *)
LEMMA AnswerRest ==
  ASSUME DurabilityInv, NEW t \in Txn, NEW r,
         txn' = [txn EXCEPT ![t] = [@ EXCEPT !.res = r]]
  PROVE  /\ txn'[t].teid = txn[t].teid /\ txn'[t].ctx = txn[t].ctx
         /\ txn'[t].res = r /\ \A u \in Txn : u # t => txn'[u] = txn[u]
<1>1. txn[t] \in TxnRecord /\ txn \in [Txn -> TxnRecord]
  BY DEF DurabilityInv, TypeOK
<1>2. txn'[t] = [txn[t] EXCEPT !.res = r] /\ \A u \in Txn : u # t => txn'[u] = txn[u]
  BY <1>1
<1> QED
  BY <1>1, <1>2 DEF TxnRecord

(* SessExec.                                                               *)
LEMMA SessExecTurn ==
  ASSUME DurabilityInv, HistoryInv, NEW t \in Txn, SessExec(t)
  PROVE  EffectTurn
<1>1. PICK c : c = txn[t].cmd
  OBVIOUS
<1>2. PICK r : r = SessResult(sess[c.seid], c)
  OBVIOUS
<1>3. /\ c.op \in SessOp /\ txn[t].res = "none"
      /\ SessRun(c)
      /\ txn' = [txn EXCEPT ![t] = [@ EXCEPT !.res = r]]
      /\ vdp' = vdp /\ teidAvail' = teidAvail
  BY <1>1, <1>2 DEF SessExec, idVars
<1>4. /\ txn'[t].teid = txn[t].teid /\ txn'[t].ctx = txn[t].ctx
      /\ txn'[t].res = r /\ \A u \in Txn : u # t => txn'[u] = txn[u]
  BY <1>3, AnswerRest
<1>5. c.seid \in Seid /\ c \in Command /\ CommandOK(c) /\ sess[c.seid] \in SessRecord
      /\ (sess[c.seid].ver # 0 => sess[c.seid].ctx \in Ctx)
  BY <1>1, <1>3, OwnFacts DEF TxnRecord, CommandOK, DurabilityInv, RecordHasCtx
<1>6. r # "none"
  BY <1>2, <1>3, <1>5, EffectFacts
<1>7. Runs(c)
  BY <1>1, <1>3, <1>4, <1>6 DEF Runs
<1>8. /\ \A s \in Seid : RecordEffect(s) /\ RuleEffect(s)
      /\ refused \subseteq refused' /\ ("persist_refused" \notin Faults => refused' = refused)
  BY <1>3, <1>7, SessRunsRecords DEF RuleEffect
<1>9. ASSUME txn[t].cb = "del_delete_cb", r = "OK" PROVE sess[txn[t].seid].ver # 0
  <2>1. c.op = "DEL" /\ c.seid = txn[t].seid
    BY <1>1, <1>3, <1>9, IdleFacts DEF HistoryInv, TxnOK, DelCb, SessOp
  <2>2. r = DelResult(sess[c.seid], c)
    BY <1>2, <2>1 DEF SessResult
  <2> QED
    BY <1>9, <2>1, <2>2 DEF DelResult
<1>10. Told(t)
  BY <1>3, <1>4, <1>9 DEF Told
<1>11. Effect
  BY SessExecEffect
<1> QED
  BY <1>3, <1>4, <1>8, <1>10, <1>11 DEF EffectTurn

(* VdpExec.                                                                *)
LEMMA VdpExecTurn ==
  ASSUME DurabilityInv, HistoryInv, NEW t \in Txn, VdpExec(t), SessionOK(t)
  PROVE  EffectTurn
<1>1. PICK c : c = txn[t].cmd
  OBVIOUS
<1>2. PICK r \in {"ACCEPT", "REJECT"} :
        /\ txn' = [txn EXCEPT ![t] = [@ EXCEPT !.res = r]]
        /\ \/ vdp' = [vdp EXCEPT ![c.seid] = VdpEffect(@, c)] /\ r = VdpAnswer(vdp[c.seid], c)
           \/ vdp' = vdp
  BY <1>1 DEF VdpExec, VdpAnswer
<1>3. /\ c.op \in VdpOp /\ txn[t].res = "none" /\ sess' = sess /\ refused' = refused
      /\ teidAvail' = teidAvail
  BY <1>1 DEF VdpExec, redisVars, idVars
<1>4. /\ txn'[t].teid = txn[t].teid /\ txn'[t].ctx = txn[t].ctx
      /\ txn'[t].res = r /\ \A u \in Txn : u # t => txn'[u] = txn[u]
  BY <1>2, AnswerRest
<1>5. Runs(c)
  BY <1>1, <1>3, <1>4 DEF Runs
<1>6. \A s \in Seid : RecordEffect(s) /\ RuleEffect(s)
  BY <1>2, <1>3, <1>5, VdpRunsRules DEF RuleEffect, RecordEffect
<1>7. txn[t].cb = "vdp_create_cb" /\ r # "ACCEPT" => vdp' = vdp
  BY <1>1, <1>2 DEF SessionOK, VdpAnswer
<1>8. Told(t)
  BY <1>4, <1>7 DEF Told
<1>9. Effect
  BY VdpExecEffect
<1> QED
  BY <1>3, <1>4, <1>6, <1>8, <1>9 DEF EffectTurn

(* BgExec.                                                                 *)
LEMMA BgExecTurn ==
  ASSUME DurabilityInv, HistoryInv, NEW c \in bg, BgExec(c)
  PROVE  EffectTurn
<1>1. txn' = txn /\ teidAvail' = teidAvail /\ Runs(c)
  BY DEF BgExec, idVars, Runs
<1>2. /\ \A s \in Seid : RecordEffect(s) /\ RuleEffect(s)
      /\ sess' = sess \/ vdp' = vdp
      /\ refused \subseteq refused' /\ ("persist_refused" \notin Faults => refused' = refused)
  <2>1. CASE c.op \in SessOp /\ vdp' = vdp /\ SessRun(c)
    BY <1>1, <2>1, SessRunsRecords DEF RuleEffect
  <2>2. CASE /\ c.op \in VdpOp /\ sess' = sess /\ refused' = refused
             /\ vdp' = [vdp EXCEPT ![c.seid] = VdpEffect(@, c)]
    BY <1>1, <2>2, VdpRunsRules DEF RecordEffect
  <2> QED
    BY <2>1, <2>2 DEF BgExec
<1>3. Effect
  BY BgExecEffect
<1> QED
  BY <1>1, <1>2, <1>3 DEF EffectTurn

(* PendingExpires.                                                         *)
LEMMA PendingExpiresTurn ==
  ASSUME DurabilityInv, HistoryInv, NEW s \in Seid, PendingExpires(s)
  PROVE  EffectTurn
<1>1. /\ txn' = txn /\ teidAvail' = teidAvail /\ vdp' = vdp /\ refused' = refused
      /\ sess' = [sess EXCEPT ![s] = NoSession] /\ sess[s].ttl
      /\ \A t \in Txn : ~(txn[t].seid = s /\ txn[t].req \in EstReq)
  BY DEF PendingExpires, idVars
<1>2. \A t \in Txn : ~Establishing(t, s)
  BY <1>1, OwnFacts DEF Establishing, EstWait, EstCb, Shape
<1>3. \A q \in Seid : RecordEffect(q)
  BY <1>1, <1>2 DEF RecordEffect, DurabilityInv, TypeOK
<1>4. Effect
  BY PendingExpiresEffect
<1> QED
  BY <1>1, <1>3, <1>4 DEF EffectTurn, RuleEffect

(* Steps that leave the sessions alone.                                    *)
LEMMA QuietTurn ==
  ASSUME UNCHANGED <<txn, sess, refused, vdp, seidUsed, teidAvail, tx>>, bg' \subseteq bg
  PROVE  EffectTurn
BY DEF EffectTurn, Effect, Kept, RecordEffect, RuleEffect

(* What such a step leaves of the transactions.                            *)
LEMMA EffectSame ==
  ASSUME DurabilityInv, DurabilityInv', HistoryInv, EffectTurn
  PROVE  /\ AcceptedSeids' = AcceptedSeids /\ seidUsed' = seidUsed /\ bg' \subseteq bg
         /\ \A s : Abandoned(s)' <=> Abandoned(s)
         /\ \A t \in Txn : /\ txn'[t].cb = txn[t].cb /\ txn'[t].seid = txn[t].seid
                           /\ txn'[t].teid = txn[t].teid /\ txn'[t].ctx = txn[t].ctx
                           /\ txn'[t].impl = txn[t].impl /\ txn'[t].cmd = txn[t].cmd
         /\ \A t \in Txn : \A s : Establishing(t, s)' <=> Establishing(t, s)
<1>0. Effect
  BY DEF EffectTurn
<1>1. /\ AcceptedSeids' = AcceptedSeids /\ \A s : Abandoned(s)' <=> Abandoned(s)
      /\ \A t \in Txn : /\ txn'[t].cb = txn[t].cb /\ txn'[t].seid = txn[t].seid
                        /\ txn'[t].impl = txn[t].impl /\ txn'[t].cmd = txn[t].cmd
  BY <1>0, EffectBasics
<1>2. \A t \in Txn : txn'[t].teid = txn[t].teid /\ txn'[t].ctx = txn[t].ctx
  BY DEF EffectTurn, Told
<1>3. \A t \in Txn : \A s : Establishing(t, s)' <=> Establishing(t, s)
  BY <1>1 DEF Establishing
<1> QED
  BY <1>0, <1>1, <1>2, <1>3 DEF Effect

(* An establishment that the VDP has not accepted keeps its TTL and gets   *)
(* no rule.                                                                *)
LEMMA EffectSessionOK ==
  ASSUME DurabilityInv, DurabilityInv', HistoryInv, SessionInv, EffectTurn, NEW t \in Txn
  PROVE  SessionOK(t)'
<1>0. SessionOK(t) /\ SeidOnce /\ Shape(txn[t])
  BY DEF SessionInv, DurabilityInv, FlowShape
<1>1. txn'[t].cb = txn[t].cb /\ txn'[t].seid = txn[t].seid /\ txn'[t].cmd = txn[t].cmd
  BY EffectSame
<1>2. ASSUME txn[t].cb \in {"cas_write_cb", "vdp_create_cb"}
      PROVE  /\ txn[t].seid \in Seid /\ Establishing(t, txn[t].seid) /\ ~Abandoned(txn[t].seid)
             /\ \A u \in Txn : Establishing(u, txn[t].seid) => u = t
  BY <1>0, <1>2 DEF Shape, SeidOnce, Establishing, EstWait, Abandoned
<1>3. ASSUME txn[t].cb \in {"cas_write_cb", "vdp_create_cb"}, sess'[txn[t].seid].ver # 0
      PROVE  sess'[txn[t].seid].ttl
  <2>1. PICK s \in Seid : s = txn[t].seid
    BY <1>2, <1>3
  <2>2. sess[s] \in SessRecord /\ (sess[s].ver # 0 => sess[s].ttl)
    BY <1>0, <1>3, <2>1 DEF SessionOK, DurabilityInv, TypeOK
  <2>3. CASE sess'[s] = sess[s] \/ sess'[s] = NoSession
    BY <1>3, <2>1, <2>2, <2>3 DEF NoSession
  <2>4. ASSUME NEW c, Runs(c), c.op = "CAS", c.ver = sess[s].ver,
               sess'[s] = [ver |-> c.ver + 1, ctx |-> c.ctx, ttl |-> sess[s].ttl \/ c.ttl]
        PROVE  sess'[s].ttl
    <3>1. sess'[s].ttl = (sess[s].ttl \/ c.ttl)
      BY <2>4
    <3>2. c.ver = 0 => c.ttl = TRUE
      BY <2>4, WriteRuns
    <3>3. sess[s].ttl = TRUE \/ c.ttl = TRUE
      BY <2>2, <2>4, <3>2 DEF SessRecord
    <3> QED
      BY <3>1, <3>3
  <2>5. ASSUME NEW c, Runs(c), c.op = "PERSIST", c.seid = s PROVE FALSE
    BY <1>2, <1>3, <2>1, <2>5, ConfirmRuns
  <2>6. RecordEffect(s)
    BY DEF EffectTurn
  <2> QED
    BY <2>1, <2>3, <2>4, <2>5, <2>6 DEF RecordEffect
<1>4. ASSUME NEW s \in Seid, s = txn[t].seid, vdp[s] = NULL, vdp'[s] # NULL,
             txn[t].cb \in {"cas_write_cb", "vdp_create_cb"}
      PROVE  txn[t].cb = "vdp_create_cb" /\ txn'[t] # txn[t]
  <2>1. PICK c : Runs(c) /\ c.op = "VDP_CREATE" /\ c.seid = s
    BY <1>4 DEF EffectTurn, RuleEffect
  <2> QED
    BY <1>2, <1>4, <2>1, CreateRuns
<1>5. ASSUME txn[t].cb = "cas_write_cb" PROVE vdp'[txn[t].seid] = NULL
  BY <1>0, <1>2, <1>4, <1>5 DEF SessionOK
<1>6. ASSUME txn[t].cb = "vdp_create_cb", txn'[t].res # "ACCEPT" PROVE vdp'[txn[t].seid] = NULL
  <2>1. CASE txn'[t] = txn[t]
    BY <1>0, <1>2, <1>4, <1>6, <2>1 DEF SessionOK
  <2>2. CASE Told(t) /\ txn[t].res = "none"
    BY <1>0, <1>6, <2>2 DEF SessionOK, Told
  <2> QED
    BY <2>1, <2>2 DEF EffectTurn
<1> QED
  BY <1>0, <1>1, <1>3, <1>5, <1>6 DEF SessionOK

(* Only one deletion removes a record.                                     *)
LEMMA EffectRemoved ==
  ASSUME DurabilityInv, DurabilityInv', HistoryInv, EffectTurn, NEW t \in Txn, Removed(t)'
  PROVE  /\ Removed(t) \/ (sess[txn[t].seid].ver # 0 /\ txn'[t] # txn[t])
         /\ txn[t].cb = "del_delete_cb"
<1>1. txn[t].cb = "del_delete_cb"
  BY EffectSame DEF Removed
<1>2. CASE txn'[t] = txn[t]
  BY <1>1, <1>2 DEF Removed
<1>3. CASE txn'[t] # txn[t]
  BY <1>1, <1>3 DEF EffectTurn, Told, Removed
<1> QED
  BY <1>1, <1>2, <1>3

(* These steps preserve what is known of the sessions.                     *)
LEMMA EffectKeepsSession ==
  ASSUME DurabilityInv, DurabilityInv', HistoryInv, SessionInv, EffectTurn
  PROVE  SessionInv'
<1>1. \A t \in Txn : SessionOK(t)'
  BY EffectSessionOK
<1>2. ASSUME NEW t \in Txn, NEW u \in Txn, Removed(t)', Removed(u)', txn'[t].seid = txn'[u].seid
      PROVE  t = u
  <2>0. txn[t].seid = txn[u].seid
    BY <1>2, EffectSame
  <2>1. \A y \in Txn : Removed(y) => sess[txn[y].seid].ver = 0
    BY DEF HistoryInv, TxnOK, Removed
  <2>2. CASE Removed(t) /\ Removed(u)
    BY <2>0, <2>2 DEF SessionInv
  <2>3. CASE txn'[t] # txn[t] /\ txn'[u] # txn[u]
    BY <2>3 DEF EffectTurn, Effect
  <2> QED
    BY <1>2, <2>0, <2>1, <2>2, <2>3, EffectRemoved
<1>3. ASSUME NEW s \in Seid, s \notin seidUsed' PROVE vdp'[s] = NULL
  <2>1. s \notin seidUsed /\ vdp[s] = NULL
    BY <1>3, EffectSame DEF SessionInv
  <2>2. ASSUME NEW c, Runs(c), c.op = "VDP_CREATE", c.seid = s PROVE FALSE
    BY <2>1, <2>2, CreateRuns DEF Abandoned, DurabilityInv, SeidOnce
  <2> QED
    BY <2>1, <2>2 DEF EffectTurn, RuleEffect
<1>4. ASSUME NEW s \in Seid, s \in AcceptedSeids'
      PROVE  ~sess'[s].ttl \/ s \in refused'
  <2>0. s \in AcceptedSeids /\ (~sess[s].ttl \/ s \in refused) /\ refused \subseteq refused'
    BY <1>4, EffectSame DEF SessionInv, EffectTurn
  <2> SUFFICES ASSUME ~sess[s].ttl PROVE ~sess'[s].ttl
    BY <2>0
  <2>1. s \in AcceptedSeids /\ ~sess[s].ttl /\ sess[s] \in SessRecord
    BY <2>0 DEF DurabilityInv, TypeOK
  <2>2. CASE sess'[s] = sess[s] \/ sess'[s] = NoSession
    BY <2>1, <2>2 DEF NoSession
  <2>3. ASSUME NEW c, Runs(c), c.op = "CAS", c.seid = s,
               sess'[s] = [ver |-> c.ver + 1, ctx |-> c.ctx, ttl |-> sess[s].ttl \/ c.ttl]
        PROVE  ~sess'[s].ttl
    <3>1. sess'[s].ttl = (sess[s].ttl \/ c.ttl)
      BY <2>3
    <3>2. ~c.ttl
      BY <2>1, <2>3, WriteRuns
    <3> QED
      BY <2>1, <3>1, <3>2
  <2>4. CASE sess'[s] = [sess[s] EXCEPT !.ttl = FALSE]
    BY <2>1, <2>4 DEF SessRecord
  <2> QED
    BY <2>2, <2>3, <2>4 DEF EffectTurn, RecordEffect
<1>5. \A c \in bg' : c.op = "PERSIST" => Abandoned(c.seid)'
  BY EffectSame DEF SessionInv
<1> QED
  BY <1>1, <1>2, <1>3, <1>4, <1>5 DEF SessionInv

(* Where a TEID is written down after such a step.                         *)
LEMMA EffectSays ==
  ASSUME DurabilityInv, DurabilityInv', HistoryInv, EffectTurn, NEW s \in Seid, NEW d, Says(s, d)'
  PROVE  Says(s, d)
<1>0. sess[s] \in SessRecord
  BY DEF DurabilityInv, TypeOK
<1>1. ASSUME NEW c, Runs(c), Carries(c, s, d) PROVE Says(s, d)
  BY <1>1 DEF Runs, Says
<1>2. CASE InRecord(s, d)'
  <2>0. sess'[s].ver # 0 /\ sess'[s].ctx.teid = d
    BY <1>2 DEF InRecord
  <2>1. CASE sess'[s] = sess[s] \/ sess'[s] = [sess[s] EXCEPT !.ttl = FALSE]
    <3>1. sess'[s].ver = sess[s].ver /\ sess'[s].ctx = sess[s].ctx
      BY <1>0, <2>1 DEF SessRecord
    <3> QED
      BY <2>0, <3>1 DEF Says, InRecord
  <2>2. CASE sess'[s] = NoSession
    BY <2>0, <2>2 DEF NoSession
  <2>3. ASSUME NEW c, Runs(c), c.op = "CAS", c.seid = s,
               sess'[s] = [ver |-> c.ver + 1, ctx |-> c.ctx, ttl |-> sess[s].ttl \/ c.ttl]
        PROVE  Says(s, d)
    BY <1>1, <2>0, <2>3 DEF Carries
  <2> QED
    BY <2>1, <2>2, <2>3 DEF EffectTurn, RecordEffect
<1>3. CASE InRule(s, d)'
  <2>0. vdp'[s] # NULL /\ vdp'[s].teid = d
    BY <1>3 DEF InRule
  <2>1. CASE vdp'[s] = vdp[s]
    BY <2>0, <2>1 DEF Says, InRule
  <2>2. ASSUME NEW c, Runs(c), c.op \in {"VDP_CREATE", "VDP_MODIFY"}, c.seid = s, vdp'[s] = c.ctx
        PROVE  Says(s, d)
    BY <1>1, <2>0, <2>2 DEF Carries
  <2> QED
    BY <2>0, <2>1, <2>2 DEF EffectTurn, RuleEffect
<1>4. ASSUME NEW t \in Txn, Names(txn'[t], s, d) \/ Carries(txn'[t].cmd, s, d)
      PROVE  Says(s, d)
  <2>1. /\ txn'[t].cb = txn[t].cb /\ txn'[t].seid = txn[t].seid
        /\ txn'[t].teid = txn[t].teid /\ txn'[t].ctx = txn[t].ctx
        /\ txn'[t].impl = txn[t].impl /\ txn'[t].cmd = txn[t].cmd
    BY EffectSame
  <2>2. Names(txn[t], s, d) \/ Carries(txn[t].cmd, s, d)
    BY <1>4, <2>1 DEF Names
  <2> QED
    BY <2>2 DEF Says
<1>5. ASSUME NEW c \in bg', Carries(c, s, d) PROVE Says(s, d)
  BY <1>5, EffectSame DEF Says
<1>6. \/ InRecord(s, d)' \/ InRule(s, d)'
      \/ \E t \in Txn : Names(txn'[t], s, d) \/ Carries(txn'[t].cmd, s, d)
      \/ \E c \in bg' : Carries(c, s, d)
  BY DEF Says, Names, Carries, InRecord, InRule
<1> QED
  BY <1>2, <1>3, <1>4, <1>5, <1>6

(* Who makes a claim after such a step made it before.                     *)
LEMMA EffectClaims ==
  ASSUME DurabilityInv, DurabilityInv', HistoryInv, SessionInv, EffectTurn,
         NEW s \in Seid, Claims(s)'
  PROVE  Claims(s)
<1>0. sess[s] \in SessRecord
  BY DEF DurabilityInv, TypeOK
<1>1. CASE \E t \in Txn : Establishing(t, s)'
  BY <1>1, EffectSame DEF Claims
<1>2. CASE sess'[s].ver # 0 /\ (~sess'[s].ttl \/ s \in AcceptedSeids')
  <2>0. sess'[s].ver # 0 /\ (~sess'[s].ttl \/ s \in AcceptedSeids)
    BY <1>2, EffectSame
  <2>1. CASE sess'[s] = sess[s]
    BY <2>0, <2>1 DEF Claims
  <2>2. CASE sess'[s] = NoSession
    BY <2>0, <2>2 DEF NoSession
  <2>3. ASSUME NEW c, Runs(c), c.op = "CAS", c.seid = s, c.ver = sess[s].ver,
               sess'[s] = [ver |-> c.ver + 1, ctx |-> c.ctx, ttl |-> sess[s].ttl \/ c.ttl]
        PROVE  Claims(s)
    <3>1. sess'[s].ttl = (sess[s].ttl \/ c.ttl)
      BY <2>3
    <3>2. c.ver = 0 => c.ttl = TRUE /\ s \notin AcceptedSeids
      BY <2>3, WriteRuns
    <3>3. (~sess[s].ttl /\ ~c.ttl) \/ s \in AcceptedSeids
      BY <2>0, <3>1
    <3>4. sess[s].ver # 0 /\ (~sess[s].ttl \/ s \in AcceptedSeids)
      BY <2>3, <3>2, <3>3
    <3> QED
      BY <3>4 DEF Claims
  <2>4. ASSUME NEW c, Runs(c), c.op = "PERSIST", c.seid = s PROVE Claims(s)
    BY <2>4, ConfirmRuns DEF Claims
  <2>5. RecordEffect(s)
    BY DEF EffectTurn
  <2> QED
    BY <2>1, <2>2, <2>3, <2>4, <2>5 DEF RecordEffect
<1>3. CASE \E c \in bg' : c.op = "PERSIST" /\ c.seid = s
  BY <1>3, EffectSame DEF Claims
<1>4. CASE \E t \in Txn : Removed(t)' /\ txn'[t].seid = s
  <2>1. PICK t \in Txn : Removed(t)' /\ txn[t].seid = s
    BY <1>4, EffectSame
  <2>2. CASE Removed(t)
    BY <2>1, <2>2 DEF Claims
  <2>3. CASE sess[s].ver # 0
    <3>1. txn[t].cb = "del_delete_cb"
      BY <2>1, EffectRemoved
    <3>2. s \in AcceptedSeids
      BY <2>1, <3>1 DEF HistoryInv, TxnOK, DelCb
    <3> QED
      BY <2>3, <3>2 DEF Claims
  <2> QED
    BY <2>1, <2>2, <2>3, EffectRemoved
<1>5. CASE RuleClaim(s)'
  <2>1. /\ "vdp_timeout" \notin Faults
        /\ vdp'[s] # NULL \/ \E c \in bg : c.op = "VDP_CREATE" /\ c.seid = s
    BY <1>5, EffectSame DEF RuleClaim
  <2>2. ASSUME vdp[s] # NULL \/ \E c \in bg : c.op = "VDP_CREATE" /\ c.seid = s PROVE Claims(s)
    BY <2>1, <2>2 DEF Claims, RuleClaim
  <2>3. ASSUME NEW c, Runs(c), c.op = "VDP_CREATE", c.seid = s PROVE Claims(s)
    BY <2>2, <2>3, CreateRuns DEF Claims
  <2> QED
    BY <2>1, <2>2, <2>3 DEF EffectTurn, RuleEffect
<1> QED
  BY <1>1, <1>2, <1>3, <1>4, <1>5 DEF Claims

(* These steps keep to TeidStep.                                           *)
LEMMA EffectKeepsTeid ==
  ASSUME DurabilityInv, DurabilityInv', HistoryInv, SessionInv, EffectTurn
  PROVE  TeidStep
<1>1. \A s \in Seid : \A d : Says(s, d)' => Says(s, d)
  BY EffectSays
<1>2. \A s \in Seid : Claims(s)' => Claims(s)
  BY EffectClaims
<1>3. teidAvail' = teidAvail /\ seidUsed' = seidUsed
  BY DEF EffectTurn, Effect
<1> QED
  BY <1>1, <1>2, <1>3 DEF TeidStep

(* Without RecordFaults these steps keep a record for every rule.          *)
LEMMA EffectKeepsRule ==
  ASSUME DurabilityInv, DurabilityInv', HistoryInv, SessionInv, RuleInv, EffectTurn,
         Faults \cap RecordFaults = {}
  PROVE  RuleInv'
<1>0. refused' = {}
  BY DEF EffectTurn, RuleInv, RecordFaults
<1>1. ASSUME NEW s \in Seid, vdp'[s] # NULL, vdp[s] = NULL
      PROVE  sess'[s] = sess[s] /\ sess[s].ver # 0 /\ \E t \in Txn : Establishing(t, s)
  <2>1. PICK c : Runs(c) /\ c.op = "VDP_CREATE" /\ c.seid = s
    BY <1>1 DEF EffectTurn, RuleEffect
  <2>2. PICK t \in Txn : txn[t].cb = "vdp_create_cb" /\ Establishing(t, s)
    BY <2>1, CreateRuns DEF RuleInv
  <2>3. sess[s].ver # 0
    BY <2>2 DEF Establishing, DurabilityInv, EstRecord
  <2> QED
    BY <1>1, <2>2, <2>3 DEF EffectTurn
<1>2. ASSUME NEW s \in Seid, vdp[s] # NULL
      PROVE  sess'[s].ver # 0 /\ (sess'[s].ttl => sess[s].ttl)
  <2>0. sess[s] \in SessRecord /\ sess[s].ver # 0
    BY <1>2 DEF DurabilityInv, TypeOK, RuleInv, RuleHasRecord
  <2>1. CASE sess'[s] = sess[s] \/ sess'[s] = [sess[s] EXCEPT !.ttl = FALSE]
    BY <2>0, <2>1 DEF SessRecord
  <2>2. ASSUME NEW c, Runs(c), c.op = "DEL", c.seid = s PROVE FALSE
    <3>1. CASE c \in bg
      BY <1>2, <2>2, <3>1 DEF RuleInv
    <3>2. ASSUME NEW t \in Txn, c = txn[t].cmd PROVE FALSE
      <4>1. txn[t].cb = "del_delete_cb" /\ TxnOK(t) /\ c # NoCmd
        BY <2>2, <3>2, IdleFacts DEF SessionInv, SessionOK, HistoryInv
      <4> QED
        BY <1>2, <2>2, <3>2, <4>1 DEF TxnOK, DelCb
    <3> QED
      BY <2>2, <3>1, <3>2 DEF Runs
  <2>3. ASSUME NEW c, Runs(c), c.op = "CAS", c.seid = s, c.ver = sess[s].ver,
               sess'[s] = [ver |-> c.ver + 1, ctx |-> c.ctx, ttl |-> sess[s].ttl \/ c.ttl]
        PROVE  sess'[s].ver # 0 /\ (sess'[s].ttl => sess[s].ttl)
    <3>1. sess'[s].ttl = (sess[s].ttl \/ c.ttl) /\ sess'[s].ver = c.ver + 1 /\ c.ver \in Nat
      BY <2>0, <2>3 DEF SessRecord
    <3>2. ~c.ttl
      BY <2>0, <2>3, WriteRuns
    <3>3. c.ver + 1 # 0
      BY <3>1
    <3> QED
      BY <3>1, <3>2, <3>3
  <2>4. ~(sess[s].ttl /\ \A t \in Txn : ~Establishing(t, s))
    BY <1>2 DEF RuleInv
  <2>5. RecordEffect(s)
    BY DEF EffectTurn
  <2> QED
    BY <2>1, <2>2, <2>3, <2>4, <2>5 DEF RecordEffect
<1>3. RuleHasRecord'
  BY <1>1, <1>2 DEF RuleHasRecord
<1>4. ASSUME NEW s \in Seid, vdp'[s] # NULL, sess'[s].ttl PROVE \E t \in Txn : Establishing(t, s)'
  <2>1. \E t \in Txn : Establishing(t, s)
    BY <1>1, <1>2, <1>4 DEF RuleInv
  <2> QED
    BY <2>1, EffectSame
<1>5. \A c \in bg' : c.op # "VDP_CREATE"
  BY EffectSame DEF RuleInv
<1>6. ASSUME NEW c \in bg', c.op = "DEL" PROVE vdp'[c.seid] = NULL
  <2>1. c \in bg /\ vdp[c.seid] = NULL /\ CommandOK(c)
    BY <1>6, EffectSame DEF RuleInv, DurabilityInv, CommandsOK
  <2>2. PICK s \in Seid : s = c.seid
    BY <1>6, <2>1 DEF CommandOK, SessOp
  <2>3. Deletable(s)
    BY <1>6, <2>1, <2>2 DEF CommandOK
  <2>4. \A t \in Txn : ~Establishing(t, s)
    BY <2>3, NullAssumption DEF Deletable, DurabilityInv, SeidOnce, TargetKnown
  <2> QED
    BY <1>1, <2>1, <2>2, <2>4
<1> QED
  BY <1>0, <1>3, <1>4, <1>5, <1>6 DEF RuleInv

-----------------------------------------------------------------------------
(* The theorems about sessions, TEIDs and rules.                           *)

(* Before the first request there is no session and every TEID is on offer *)
(* once.                                                                   *)
LEMMA InitHasSessions == Init => SessionInv /\ TeidInv /\ RuleInv
<1> SUFFICES ASSUME Init PROVE SessionInv /\ TeidInv /\ RuleInv
  OBVIOUS
<1>1. /\ \A t \in Txn : txn[t] = Idle
      /\ \A s \in Seid : sess[s] = NoSession /\ vdp[s] = NULL
      /\ bg = {} /\ tx = {} /\ refused = {}
      /\ \A d \in Teid : teidAvail[d] = 1
  BY DEF Init
<1>2. NoSession.ver = 0 /\ NoSession.ttl = FALSE
  BY DEF NoSession
<1>3. SessionInv
  BY <1>1, <1>2, IdleFacts, AcceptedIff DEF SessionInv, SessionOK, Removed
<1>4. \A s \in Seid : \A d : ~Says(s, d)
  BY <1>1, <1>2, IdleHolds DEF Says, InRecord, InRule
<1>5. TeidInv
  BY <1>1, <1>4 DEF TeidInv
<1>6. RuleInv
  BY <1>1 DEF RuleInv, RuleHasRecord
<1> QED
  BY <1>3, <1>5, <1>6

(* Every step is one of transactions, or one of Redis, the VDP and time.   *)
LEMMA EveryTurn ==
  ASSUME DurabilityInv, HistoryInv, SessionInv, [Next]_vars
  PROVE  FlowTurn \/ EffectTurn
<1>1. CASE \E p \in Pod, r \in Req : v_flow_handle_msg(p, r)
  BY <1>1, HandleMsgFlows
<1>2. ASSUME NEW t \in Txn, Progress(t) \/ timeout_handler(t) PROVE FlowTurn \/ EffectTurn
  <2>1. CASE EstCallback(t) \/ ModCallback(t) \/ DelCallback(t)
    BY <2>1, CallbackFlows
  <2>2. CASE timeout_handler(t)
    BY <2>2, TimeoutFlows
  <2>3. CASE SessExec(t)
    BY <2>3, SessExecTurn
  <2>4. CASE VdpExec(t)
    BY <2>4, VdpExecTurn DEF SessionInv
  <2> QED
    BY <1>2, <2>1, <2>2, <2>3, <2>4 DEF Progress
<1>3. CASE \E c \in bg : BgExec(c)
  BY <1>3, BgExecTurn
<1>4. CASE \E s \in Seid : PendingExpires(s)
  BY <1>4, PendingExpiresTurn
<1>5. CASE \E p \in Pod : PodCrash(p)
  BY <1>5, PodCrashFlows
<1>6. CASE \/ \E x \in stores : StoreExec(x)
           \/ \E r \in Req : CacheExpires(r)
           \/ BgLost \/ UNCHANGED vars
  <2>1. UNCHANGED <<txn, sess, refused, vdp, seidUsed, teidAvail, tx>> /\ bg' \subseteq bg
    BY <1>6 DEF StoreExec, CacheExpires, BgLost, vars, idVars, redisVars
  <2> QED
    BY <2>1, QuietTurn
<1> QED
  BY <1>1, <1>2, <1>3, <1>4, <1>5, <1>6 DEF Next

(* What every transaction knows of its session's record and rule: an       *)
(* establishment the VDP has not accepted has no rule and only a pending   *)
(* record, and del_delete_cb() sees the OK of the script that removed the  *)
(* record in one deletion only, under every failure.                       *)
THEOREM SessionsHold == Spec => []SessionInv
<1>1. Init => SessionInv
  BY InitHasSessions
<1>2. DurabilityInv /\ DurabilityInv' /\ HistoryInv /\ SessionInv /\ [Next]_vars => SessionInv'
  BY EveryTurn, FlowKeepsSession, EffectKeepsSession
<1> QED
  BY <1>1, <1>2, InvariantHolds, HistoryHolds, PTL DEF Spec

(* The inductive invariant of the TEIDs: a session has one TEID wherever   *)
(* it is written down, and while the session is being established, is      *)
(* confirmed, or is about to give the TEID back, nobody else has it and it *)
(* is not on offer, under every failure.                                   *)
THEOREM TeidsHold == Spec => []TeidInv
<1>1. Init => TeidInv
  BY InitHasSessions
<1>2. /\ DurabilityInv /\ DurabilityInv' /\ HistoryInv /\ HistoryInv'
      /\ SessionInv /\ SessionInv' /\ TeidInv /\ [Next]_vars
      => TeidInv'
  <2> SUFFICES ASSUME DurabilityInv, DurabilityInv', HistoryInv, HistoryInv',
                      SessionInv, SessionInv', TeidInv, [Next]_vars
               PROVE  TeidInv'
    OBVIOUS
  <2>1. TeidStep
    BY EveryTurn, FlowKeepsTeid, EffectKeepsTeid
  <2>2. teidAvail \in [Teid -> Nat]
    BY DEF DurabilityInv, TypeOK
  <2> QED
    BY <2>1, <2>2, TeidStepKeeps
<1> QED
  BY <1>1, <1>2, InvariantHolds, HistoryHolds, SessionsHold, PTL DEF Spec

(* v_teid_free(): no two confirmed sessions share a TEID, and none of      *)
(* theirs is on offer, whichever flow fails, times out or dies and         *)
(* whichever of its commands arrives late: a TEID is given back only by    *)
(* the flow that unmade its session, and once.                             *)
THEOREM TeidsExclusive == Spec => []TeidExclusive
<1>1. TeidInv => TeidExclusive
  <2> SUFFICES ASSUME TeidInv, NEW s \in Seid, Confirmed(s)
               PROVE  /\ teidAvail[sess[s].ctx.teid] = 0
                      /\ \A q \in Seid \ {s} : Confirmed(q) => sess[q].ctx.teid # sess[s].ctx.teid
    BY DEF TeidExclusive
  <2>1. ASSUME NEW q \in Seid, Confirmed(q) PROVE Claims(q) /\ Says(q, sess[q].ctx.teid)
    BY <2>1 DEF Claims, Says, InRecord, Confirmed
  <2>2. Claims(s) /\ Says(s, sess[s].ctx.teid)
    BY <2>1
  <2>3. teidAvail[sess[s].ctx.teid] = 0
    BY <2>2 DEF TeidInv
  <2>4. ASSUME NEW q \in Seid \ {s}, Confirmed(q), sess[q].ctx.teid = sess[s].ctx.teid PROVE FALSE
    <3>1. Claims(q) /\ Says(q, sess[s].ctx.teid)
      BY <2>1, <2>4
    <3> QED
      BY <2>2, <2>4, <3>1 DEF TeidInv
  <2> QED
    BY <2>3, <2>4
<1> QED
  BY <1>1, TeidsHold, PTL

(* The same of the data plane, as long as vdp_create_cb() is told the      *)
(* VDP's verdict and not V_VDP_TIMEOUT: no two rules share a TEID, and     *)
(* none of theirs is on offer.                                             *)
THEOREM RuleTeidsExclusive ==
  ASSUME "vdp_timeout" \notin Faults
  PROVE  Spec => []RuleTeidExclusive
<1>1. TeidInv => RuleTeidExclusive
  <2> SUFFICES ASSUME TeidInv, NEW s \in Seid, vdp[s] # NULL
               PROVE  /\ teidAvail[vdp[s].teid] = 0
                      /\ \A q \in Seid \ {s} : vdp[q] # NULL => vdp[q].teid # vdp[s].teid
    BY DEF RuleTeidExclusive
  <2>1. ASSUME NEW q \in Seid, vdp[q] # NULL PROVE Claims(q) /\ Says(q, vdp[q].teid)
    BY <2>1 DEF Claims, RuleClaim, Says, InRule
  <2>2. Claims(s) /\ Says(s, vdp[s].teid)
    BY <2>1
  <2>3. teidAvail[vdp[s].teid] = 0
    BY <2>2 DEF TeidInv
  <2>4. ASSUME NEW q \in Seid \ {s}, vdp[q] # NULL, vdp[q].teid = vdp[s].teid PROVE FALSE
    <3>1. Claims(q) /\ Says(q, vdp[s].teid)
      BY <2>1, <2>4
    <3> QED
      BY <2>2, <2>4, <3>1 DEF TeidInv
  <2> QED
    BY <2>3, <2>4
<1> QED
  BY <1>1, TeidsHold, PTL

(* PLAN.md 5.1 and 5.3, the order of Redis and the VDP: without the        *)
(* failures that end an establishment between its rule and its             *)
(* confirmation, or leave the confirmation without effect, no forwarding   *)
(* rule is ever without its record, for any interleaving of flows,         *)
(* write-backs and deletions.                                              *)
THEOREM RulesHaveRecords ==
  ASSUME Faults \cap RecordFaults = {}
  PROVE  Spec => []RuleHasRecord
<1>1. Init => RuleInv
  BY InitHasSessions
<1>2. /\ DurabilityInv /\ DurabilityInv' /\ HistoryInv /\ SessionInv /\ RuleInv /\ [Next]_vars
      => RuleInv'
  BY EveryTurn, FlowKeepsRule, EffectKeepsRule
<1>3. RuleInv => RuleHasRecord
  BY DEF RuleInv
<1> QED
  BY <1>1, <1>2, <1>3, InvariantHolds, HistoryHolds, SessionsHold, PTL DEF Spec

-----------------------------------------------------------------------------
(* One answer per request, without overlap and with a cache that works.    *)

(* A transaction that waits for a callback has its request, and one past   *)
(* the cache finds no answer to it.                                        *)
LEMMA NoAnswerYet ==
  ASSUME DurabilityInv, AnswerInv, Faults \cap AnswerFaults = {}, NEW t \in Txn,
         txn[t].cb # "none", txn[t].cb \in Lookup => CacheMiss(t)
  PROVE  /\ txn[t].req \in Req /\ txn[t].req # NULL
         /\ \A x \in tx : x.req # txn[t].req
<1>1. txn[t].cb \in Callback /\ Shape(txn[t])
  BY OwnFacts DEF TxnRecord
<1>2. txn[t].cb \in EstCb \cup ModCb \cup DelCb
  BY <1>1 DEF Callback, EstCb, EstWait, ModCb, DelCb
<1>3. txn[t].req \in Req /\ txn[t].req # NULL
  BY <1>1, <1>2, NullAssumption DEF Shape, Req
<1>4. CASE txn[t].cb \in Lookup
  <2>1. cache[txn[t].req] = NULL
    BY <1>4 DEF CacheMiss, CanFail, AnswerFaults
  <2>2. ASSUME NEW x \in tx, x.req = txn[t].req PROVE FALSE
    <3>1. x.req \notin BadReq /\ x \notin stores
      BY <1>3, <2>2 DEF AnswerInv
    <3>2. cache[x.req] = x
      BY <3>1 DEF AnswerInv
    <3>3. x \in Reply
      BY DEF DurabilityInv, TypeOK
    <3> QED
      BY <2>1, <2>2, <3>2, <3>3, CacheAssumption
  <2> QED
    BY <1>3, <2>2
<1>5. CASE txn[t].cb \notin Lookup
  BY <1>3, <1>5 DEF AnswerInv
<1> QED
  BY <1>3, <1>4, <1>5

(* A step that neither sends nor stores an answer, and starts no flow.     *)
LEMMA SilentKeepsAnswer ==
  ASSUME AnswerInv, tx' = tx, stores' \subseteq stores, 
         \A x \in tx : x \in stores \/ cache[x.req] = x =>
                       x \in stores' \/ cache'[x.req] = x,
         \A t \in Txn : \/ txn'[t].req = NULL
                        \/ /\ txn'[t].req = txn[t].req
                           /\ txn'[t].cb \notin Lookup =>
                                \/ txn[t].cb \notin Lookup
                                \/ \A x \in tx : x.req # txn[t].req
  PROVE  AnswerInv'
<1>1. ASSUME NEW t \in Txn, txn'[t].req # NULL
      PROVE  /\ txn'[t].req = txn[t].req /\ txn'[t].req \notin BadReq
             /\ \A x \in stores' : x.req # txn'[t].req
             /\ txn'[t].cb \notin Lookup => \A x \in tx' : x.req # txn'[t].req
  BY <1>1 DEF AnswerInv
<1>2. \A t, u \in Txn : txn'[t].req = txn'[u].req /\ txn'[t].req # NULL => t = u
  BY <1>1 DEF AnswerInv
<1>3. \A x \in tx' : IF x.req \in BadReq THEN x.cause = "NOT_FOUND" /\ x.seid = NULL
                     ELSE x \in stores' \/ cache'[x.req] = x
  BY DEF AnswerInv
<1>4. SameAnswer'
  BY DEF AnswerInv, SameAnswer
<1> QED
  BY <1>1, <1>2, <1>3, <1>4 DEF AnswerInv

(* A callback.                                                             *)
LEMMA TurnKeepsAnswer ==
  ASSUME DurabilityInv, AnswerInv, Faults \cap AnswerFaults = {}, NEW t \in Txn, NEW new,
         txn[t].cb # "none", Turn(t, new)
  PROVE  AnswerInv'
<1>1. txn'[t] = new /\ (\A u \in Txn : u # t => txn'[u] = txn[u]) /\ cache' = cache
  BY TxnAfter DEF Turn, DurabilityInv
<1>2. Idle.req = NULL
  BY DEF Idle
<1>3. CASE new = Idle /\ tx' = tx /\ stores' = stores
  BY <1>1, <1>2, <1>3, SilentKeepsAnswer
<1>4. CASE /\ new = Idle /\ cache[txn[t].req] # NULL
           /\ tx' = tx \cup {cache[txn[t].req]} /\ stores' = stores
  <2>1. txn[t].req \in Req \cup {NULL} /\ txn[t].cb \in Callback /\ Shape(txn[t])
    BY OwnFacts DEF TxnRecord
  <2>2. txn[t].req \in Req
    BY <2>1 DEF Callback, Shape, EstCb, EstWait, ModCb, DelCb, Req
  <2>3. tx' = tx
    BY <1>4, <2>2 DEF DurabilityInv, CacheRepeats
  <2> QED
    BY <1>1, <1>2, <1>4, <2>3, SilentKeepsAnswer
<1>5. CASE /\ txn[t].cb \in Lookup => CacheMiss(t)
           /\ new.req = txn[t].req /\ tx' = tx /\ stores' = stores
  <2>1. \A x \in tx : x.req # txn[t].req
    BY <1>5, NoAnswerYet
  <2> QED
    BY <1>1, <1>5, <2>1, SilentKeepsAnswer
<1>6. ASSUME txn[t].cb \in Lookup => CacheMiss(t), new = Idle,
             NEW x, x.req = txn[t].req, tx' = tx \cup {x}, stores' = stores \cup {x}
      PROVE  AnswerInv'
  <2>1. /\ txn[t].req # NULL /\ \A y \in tx : y.req # x.req
    BY <1>6, NoAnswerYet
  <2>2. txn[t].req \notin BadReq
    BY <2>1 DEF AnswerInv
  <2>3. ASSUME NEW u \in Txn, txn'[u].req # NULL
        PROVE  txn'[u] = txn[u] /\ txn[u].req # x.req
    <3>1. u # t
      BY <1>1, <1>2, <1>6, <2>3
    <3> QED
      BY <1>1, <1>6, <2>1, <2>3, <3>1 DEF AnswerInv
  <2>4. ASSUME NEW u \in Txn, txn'[u].req # NULL
        PROVE  /\ txn'[u].req \notin BadReq
               /\ \A y \in stores' : y.req # txn'[u].req
               /\ txn'[u].cb \notin Lookup => \A y \in tx' : y.req # txn'[u].req
    BY <1>6, <2>3, <2>4 DEF AnswerInv
  <2>5. \A u, v \in Txn : txn'[u].req = txn'[v].req /\ txn'[u].req # NULL => u = v
    BY <2>3 DEF AnswerInv
  <2>6. \A y \in tx' : IF y.req \in BadReq THEN y.cause = "NOT_FOUND" /\ y.seid = NULL
                       ELSE y \in stores' \/ cache'[y.req] = y
    BY <1>1, <1>6, <2>2 DEF AnswerInv
  <2>7. SameAnswer'
    BY <1>6, <2>1 DEF AnswerInv, SameAnswer
  <2> QED
    BY <2>4, <2>5, <2>6, <2>7 DEF AnswerInv
<1>7. AnswerTurn(t, new)
  BY DEF Turn
<1> QED
  BY <1>3, <1>4, <1>5, <1>6, <1>7 DEF AnswerTurn

(* v_flow_handle_msg(): without overlap no other flow, and no SETEX, has   *)
(* the request.                                                            *)
LEMMA HandleMsgKeepsAnswer ==
  ASSUME DurabilityInv, AnswerInv, ~Overlap, NEW p \in Pod, NEW r \in Req, v_flow_handle_msg(p, r)
  PROVE  AnswerInv'
<1>1. PICK s \in Targets(r) : reply_ctx_not_found(r) \/ Dropped(p, r) \/ Started(p, r, s)
  BY DEF v_flow_handle_msg
<1>2. Settled(r) /\ stores' = stores /\ cache' = cache
  BY DEF v_flow_handle_msg, redisVars
<1>3. CASE UNCHANGED <<txn, tx>>
  BY <1>2, <1>3, SilentKeepsAnswer
<1>4. CASE /\ r \in BadReq /\ txn' = txn
           /\ tx' = tx \cup {[req |-> r, cause |-> "NOT_FOUND", seid |-> NULL]}
  <2>1. PICK x : x = [req |-> r, cause |-> "NOT_FOUND", seid |-> NULL]
    OBVIOUS
  <2>2. x.req = r /\ x.cause = "NOT_FOUND" /\ x.seid = NULL /\ tx' = tx \cup {x}
    BY <1>4, <2>1
  <2>3. ASSUME NEW y \in tx, y.req = r PROVE y = x
    <3>1. y \in Reply
      BY DEF DurabilityInv, TypeOK
    <3>2. y.cause = "NOT_FOUND" /\ y.seid = NULL
      BY <1>4, <2>3 DEF AnswerInv
    <3> QED
      BY <2>1, <2>3, <3>1, <3>2 DEF Reply
  <2>4. SameAnswer'
    BY <2>2, <2>3 DEF AnswerInv, SameAnswer
  <2>5. \A y \in tx' : IF y.req \in BadReq THEN y.cause = "NOT_FOUND" /\ y.seid = NULL
                       ELSE y \in stores' \/ cache'[y.req] = y
    BY <1>2, <1>4, <2>2 DEF AnswerInv
  <2>6. ASSUME NEW t \in Txn, txn'[t].req # NULL
        PROVE  /\ txn'[t].req \notin BadReq
               /\ \A y \in stores' : y.req # txn'[t].req
               /\ txn'[t].cb \notin Lookup => \A y \in tx' : y.req # txn'[t].req
    BY <1>2, <1>4, <2>2, <2>6 DEF AnswerInv
  <2>7. \A t, u \in Txn : txn'[t].req = txn'[u].req /\ txn'[t].req # NULL => t = u
    BY <1>4 DEF AnswerInv
  <2> QED
    BY <2>4, <2>5, <2>6, <2>7 DEF AnswerInv
<1>5. CASE Started(p, r, s)
  <2>1. PICK i \in Slot :
          Await(<<p, i>>, [Idle EXCEPT !.req = r, !.seid = s], "RECV", Entry(r), NoCmd)
    BY <1>5 DEF Started
  <2> DEFINE new == [[Idle EXCEPT !.req = r, !.seid = s] EXCEPT
                       !.st = "RECV", !.cb = Entry(r), !.cmd = NoCmd, !.res = "none"]
  <2>2. PICK t \in Txn : t = <<p, i>>
    BY DEF Txn
  <2>3. txn' = [txn EXCEPT ![t] = new]
    BY <2>1, <2>2 DEF Await
  <2>4. new.req = r /\ new.cb = Entry(r)
    BY DEF Idle
  <2>5. txn'[t] = new /\ \A u \in Txn : u # t => txn'[u] = txn[u]
    BY <2>3 DEF DurabilityInv, TypeOK
  <2> HIDE DEF new
  <2>6. Entry(r) \in Lookup /\ r \notin BadReq /\ tx' = tx
    BY <1>5 DEF Entry, Lookup, Started
  <2>7. ASSUME NEW u \in Txn, txn'[u].req # NULL
        PROVE  /\ txn'[u].req \notin BadReq
               /\ \A y \in stores' : y.req # txn'[u].req
               /\ txn'[u].cb \notin Lookup => \A y \in tx' : y.req # txn'[u].req
    <3>1. CASE u = t
      BY <1>2, <2>4, <2>5, <2>6, <3>1 DEF Settled
    <3>2. CASE u # t
      BY <1>2, <2>5, <2>6, <2>7, <3>2 DEF AnswerInv
    <3> QED
      BY <3>1, <3>2
  <2>8. \A u, v \in Txn : txn'[u].req = txn'[v].req /\ txn'[u].req # NULL => u = v
    BY <1>2, <2>4, <2>5 DEF AnswerInv, Settled
  <2>9. /\ SameAnswer'
        /\ \A y \in tx' : IF y.req \in BadReq THEN y.cause = "NOT_FOUND" /\ y.seid = NULL
                          ELSE y \in stores' \/ cache'[y.req] = y
    BY <1>2, <2>6 DEF AnswerInv, SameAnswer
  <2> QED
    BY <2>7, <2>8, <2>9 DEF AnswerInv
<1> QED
  BY <1>1, <1>3, <1>4, <1>5 DEF reply_ctx_not_found, Dropped

(* Every step.                                                             *)
LEMMA StepKeepsAnswer ==
  ASSUME DurabilityInv, DurabilityInv', HistoryInv, SessionInv, AnswerInv, [Next]_vars,
         ~Overlap, Faults \cap AnswerFaults = {}
  PROVE  AnswerInv'
<1>0. ~CanFail("store_lost") /\ ~CanFail("cache_expiry")
  BY DEF CanFail, AnswerFaults
<1>1. CASE \E p \in Pod, r \in Req : v_flow_handle_msg(p, r)
  BY <1>1, HandleMsgKeepsAnswer
<1>2. ASSUME NEW t \in Txn, EstCallback(t) \/ ModCallback(t) \/ DelCallback(t) PROVE AnswerInv'
  <2>1. PICK new : Turn(t, new)
    BY <1>2, CallbackTurn
  <2>2. txn[t].cb # "none"
    BY <1>2
    DEF EstCallback, retrans_lookup_cb, cas_write_cb, vdp_create_cb, confirm_cb,
        ModCallback, mod_retrans_lookup_cb, mod_read_cb, mod_cas_cb, mod_vdp_cb,
        mod_compensate_write_cb,
        DelCallback, del_retrans_lookup_cb, del_read_cb, del_vdp_cb, del_delete_cb
  <2> QED
    BY <2>1, <2>2, TurnKeepsAnswer
<1>3. ASSUME tx' = tx, stores' = stores, cache' = cache, 
             \A t \in Txn : \/ txn'[t] = Idle
                            \/ txn'[t].req = txn[t].req /\ txn'[t].cb = txn[t].cb
      PROVE  AnswerInv'
  <2>1. Idle.req = NULL
    BY DEF Idle
  <2> QED
    BY <1>3, <2>1, SilentKeepsAnswer
<1>4. ASSUME NEW t \in Txn, SessExec(t) \/ VdpExec(t) PROVE AnswerInv'
  <2>1. Effect
    BY <1>4, SessExecEffect, VdpExecEffect
  <2>2. \A u \in Txn : txn'[u].req = txn[u].req /\ txn'[u].cb = txn[u].cb
    BY <2>1, EffectBasics
  <2>3. tx' = tx /\ stores' = stores /\ cache' = cache
    BY <1>4 DEF SessExec, VdpExec, redisVars
  <2> QED
    BY <1>3, <2>2, <2>3
<1>5. ASSUME NEW t \in Txn, timeout_handler(t) PROVE AnswerInv'
  <2>1. \A u \in Txn : txn'[u] = Idle \/ txn'[u] = txn[u]
    BY <1>5 DEF timeout_handler, DurabilityInv, TypeOK
  <2>2. tx' = tx /\ stores' = stores /\ cache' = cache
    BY <1>5 DEF timeout_handler, redisVars
  <2> QED
    BY <1>3, <2>1, <2>2
<1>6. ASSUME NEW p \in Pod, PodCrash(p) PROVE AnswerInv'
  <2>1. \A u \in Txn : txn'[u] = Idle \/ txn'[u] = txn[u]
    BY <1>6 DEF PodCrash
  <2>2. tx' = tx /\ stores' = stores /\ cache' = cache
    BY <1>6 DEF PodCrash, redisVars
  <2> QED
    BY <1>3, <2>1, <2>2
<1>7. ASSUME NEW x \in stores, StoreExec(x) PROVE AnswerInv'
  <2>1. /\ stores' = stores \ {x} /\ cache' = [cache EXCEPT ![x.req] = x]
        /\ txn' = txn /\ tx' = tx
    BY <1>7 DEF StoreExec
  <2>2. x \in tx /\ x.req \in Req /\ cache \in [Req -> Reply \cup {NULL}]
    BY DEF DurabilityInv, CacheRepeats, TypeOK, Reply
  <2>3. ASSUME NEW y \in tx, y \in stores \/ cache[y.req] = y
        PROVE  y \in stores' \/ cache'[y.req] = y
    <3>1. CASE y.req = x.req
      <4>1. y = x
        BY <2>2, <3>1 DEF AnswerInv, SameAnswer
      <4> QED
        BY <2>1, <2>2, <4>1
    <3>2. CASE y.req # x.req
      <4>1. y.req \in Req
        BY DEF DurabilityInv, TypeOK, Reply
      <4> QED
        BY <2>1, <2>2, <2>3, <3>2, <4>1
    <3> QED
      BY <3>1, <3>2
  <2> QED
    BY <2>1, <2>3, SilentKeepsAnswer
<1>8. CASE \/ \E c \in bg : BgExec(c)
           \/ \E s \in Seid : PendingExpires(s)
           \/ \E r \in Req : CacheExpires(r)
           \/ BgLost \/ UNCHANGED vars
  <2>1. tx' = tx /\ stores' = stores /\ cache' = cache /\ txn' = txn
    BY <1>0, <1>8 DEF BgExec, PendingExpires, CacheExpires, BgLost, vars, redisVars
  <2> QED
    BY <1>3, <2>1
<1> QED
  BY <1>1, <1>2, <1>4, <1>5, <1>6, <1>7, <1>8 DEF Next, Progress

(* finish() and v_retrans_lookup(): when the SMF retransmits only after    *)
(* the original is over, and the retransmit cache neither fails to answer  *)
(* nor loses or expires an entry, every transmission of a request gets the *)
(* identical answer, through timeouts, crashes and every other failure.    *)
THEOREM AnswersRepeat ==
  ASSUME ~Overlap, Faults \cap AnswerFaults = {}
  PROVE  Spec => []SameAnswer
<1>1. Init => AnswerInv
  <2> SUFFICES ASSUME Init PROVE AnswerInv
    OBVIOUS
  <2>1. tx = {} /\ \A t \in Txn : txn[t].req = NULL
    BY DEF Init, Idle
  <2> QED
    BY <2>1 DEF AnswerInv, SameAnswer
<1>2. DurabilityInv /\ DurabilityInv' /\ HistoryInv /\ SessionInv /\ AnswerInv /\ [Next]_vars
        => AnswerInv'
  BY StepKeepsAnswer
<1>3. AnswerInv => SameAnswer
  BY DEF AnswerInv
<1> QED
  BY <1>1, <1>2, <1>3, InvariantHolds, HistoryHolds, SessionsHold, PTL DEF Spec

-----------------------------------------------------------------------------
(* The contexts of a pod's pool, without hard timeouts.                    *)

(* The slots of pod p that hold a context, and a snapshot.                 *)
CtxSlots(p) == {i \in Slot : txn[<<p, i>>].ctx # NULL}
ImplSlots(p) == {i \in Slot : txn[<<p, i>>].impl # NULL}

(* Two sets of slots that differ in i at most.                             *)
LEMMA CountChange ==
  ASSUME IsFiniteSet(Slot), NEW A, NEW B, A \subseteq Slot, B \subseteq Slot, NEW i \in Slot,
         \A j \in Slot : j # i => (j \in A <=> j \in B)
  PROVE  /\ Cardinality(A) \in Nat /\ Cardinality(B) \in Nat
         /\ Cardinality(B) - Cardinality(A)
              = (IF i \in B THEN 1 ELSE 0) - (IF i \in A THEN 1 ELSE 0)
<1>1. IsFiniteSet(A) /\ IsFiniteSet(B)
  BY FS_Subset
<1>2. Cardinality(A) \in Nat /\ Cardinality(B) \in Nat
  BY <1>1, FS_CardinalityType
<1>3. CASE i \in A <=> i \in B
  <2>1. A = B
    BY <1>3
  <2> QED
    BY <1>2, <2>1
<1>4. CASE i \in A /\ i \notin B
  <2>1. A = B \cup {i}
    BY <1>4
  <2>2. Cardinality(A) = Cardinality(B) + 1
    BY <1>1, <1>4, <2>1, FS_AddElement
  <2> QED
    BY <1>2, <1>4, <2>2
<1>5. CASE i \notin A /\ i \in B
  <2>1. B = A \cup {i}
    BY <1>5
  <2>2. Cardinality(B) = Cardinality(A) + 1
    BY <1>1, <1>5, <2>1, FS_AddElement
  <2> QED
    BY <1>2, <1>5, <2>2
<1> QED
  BY <1>3, <1>4, <1>5

(* A callback takes and gives back what its transaction then has more or   *)
(* less.                                                                   *)
LEMMA TurnKeepsCtx ==
  ASSUME IsFiniteSet(Slot), DurabilityInv, CtxInv, NEW t \in Txn, NEW new, Turn(t, new)
  PROVE  CtxInv'
<1>1. txn'[t] = new /\ (\A u \in Txn : u # t => txn'[u] = txn[u])
  BY TxnAfter DEF Turn, DurabilityInv
<1>2. CtxShape(new) /\ CtxFree(t, Held(txn[t]) - Held(new))
  BY DEF CtxInv, Turn, CtxTurn
<1>3. \A u \in Txn : CtxShape(txn'[u])
  BY <1>1, <1>2 DEF CtxInv
<1>4. PICK p \in Pod, i \in Slot : t = <<p, i>>
  BY DEF Txn
<1>5. t[1] = p /\ ctxUse \in [Pod -> Int]
  BY <1>4 DEF DurabilityInv, TypeOK
<1>6. ASSUME NEW q \in Pod, q # p
      PROVE  ctxUse'[q] = Cardinality(CtxSlots(q)') + Cardinality(ImplSlots(q)')
  <2>1. \A j \in Slot : txn'[<<q, j>>] = txn[<<q, j>>]
    BY <1>1, <1>4, <1>6 DEF Txn
  <2>2. CtxSlots(q)' = CtxSlots(q) /\ ImplSlots(q)' = ImplSlots(q)
    BY <2>1 DEF CtxSlots, ImplSlots
  <2>3. ctxUse'[q] = ctxUse[q]
    BY <1>2, <1>5, <1>6 DEF CtxFree
  <2>4. ctxUse[q] = Cardinality(CtxSlots(q)) + Cardinality(ImplSlots(q))
    BY DEF CtxInv, CtxBaseline, CtxSlots, ImplSlots
  <2> QED
    BY <2>2, <2>3, <2>4
<1>7. ctxUse'[p] = Cardinality(CtxSlots(p)') + Cardinality(ImplSlots(p)')
  <2>1. \A j \in Slot : j # i => txn'[<<p, j>>] = txn[<<p, j>>]
    BY <1>1, <1>4 DEF Txn
  <2>2. txn'[<<p, i>>] = new /\ txn[<<p, i>>] = txn[t]
    BY <1>1, <1>4
  <2>3. PICK A, B : A = CtxSlots(p) /\ B = CtxSlots(p)'
    OBVIOUS
  <2>4. PICK C, D : C = ImplSlots(p) /\ D = ImplSlots(p)'
    OBVIOUS
  <2>5. /\ A \subseteq Slot /\ B \subseteq Slot /\ C \subseteq Slot /\ D \subseteq Slot
        /\ \A j \in Slot : j # i => (j \in A <=> j \in B) /\ (j \in C <=> j \in D)
        /\ (i \in A <=> txn[t].ctx # NULL) /\ (i \in B <=> new.ctx # NULL)
        /\ (i \in C <=> txn[t].impl # NULL) /\ (i \in D <=> new.impl # NULL)
    BY <2>1, <2>2, <2>3, <2>4 DEF CtxSlots, ImplSlots
  <2>6. /\ Cardinality(A) \in Nat /\ Cardinality(B) \in Nat
        /\ Cardinality(B) - Cardinality(A) = CtxHeld(new.ctx) - CtxHeld(txn[t].ctx)
    BY <2>5, CountChange DEF CtxHeld
  <2>7. /\ Cardinality(C) \in Nat /\ Cardinality(D) \in Nat
        /\ Cardinality(D) - Cardinality(C) = CtxHeld(new.impl) - CtxHeld(txn[t].impl)
    BY <2>5, CountChange DEF CtxHeld
  <2>8. ctxUse[p] = Cardinality(A) + Cardinality(C) /\ ctxUse[p] \in Int
    BY <1>5, <2>3, <2>4 DEF CtxInv, CtxBaseline, CtxSlots, ImplSlots
  <2>9. ctxUse'[p] = ctxUse[p] - (Held(txn[t]) - Held(new))
    BY <1>2, <1>5 DEF CtxFree
  <2>10. PICK a, b \in Int : a = CtxHeld(txn[t].ctx) /\ b = CtxHeld(txn[t].impl)
    BY HeldType
  <2>11. PICK c, d \in Int : c = CtxHeld(new.ctx) /\ d = CtxHeld(new.impl)
    BY HeldType
  <2>12. ctxUse'[p] = ctxUse[p] - ((a + b) - (c + d))
    BY <2>9, <2>10, <2>11 DEF Held
  <2>13. ctxUse'[p] = Cardinality(B) + Cardinality(D)
    BY <2>6, <2>7, <2>8, <2>10, <2>11, <2>12
  <2> QED
    BY <2>3, <2>4, <2>13
<1>8. CtxBaseline'
  BY <1>6, <1>7 DEF CtxBaseline, CtxSlots, ImplSlots
<1> QED
  BY <1>3, <1>8 DEF CtxInv

(* A step that takes no context and gives none back.                       *)
LEMMA SameKeepsCtx ==
  ASSUME CtxInv, ctxUse' = ctxUse,
         \A t \in Txn : /\ CtxShape(txn'[t])
                        /\ txn'[t].ctx = txn[t].ctx /\ txn'[t].impl = txn[t].impl
  PROVE  CtxInv'
<1>1. ASSUME NEW p \in Pod
      PROVE  CtxSlots(p)' = CtxSlots(p) /\ ImplSlots(p)' = ImplSlots(p)
  <2>1. \A i \in Slot : <<p, i>> \in Txn
    BY DEF Txn
  <2>2. \A i \in Slot : /\ txn'[<<p, i>>].ctx = txn[<<p, i>>].ctx
                        /\ txn'[<<p, i>>].impl = txn[<<p, i>>].impl
    BY <2>1
  <2> QED
    BY <2>2 DEF CtxSlots, ImplSlots
<1>2. CtxBaseline'
  BY <1>1 DEF CtxInv, CtxBaseline, CtxSlots, ImplSlots
<1> QED
  BY <1>2 DEF CtxInv

(* v_flow_handle_msg(): a flow starts without a context.                   *)
LEMMA HandleMsgKeepsCtx ==
  ASSUME DurabilityInv, HistoryInv, CtxInv, NEW p \in Pod, NEW r \in Req, v_flow_handle_msg(p, r)
  PROVE  CtxInv'
<1>1. PICK s \in Targets(r) : reply_ctx_not_found(r) \/ Dropped(p, r) \/ Started(p, r, s)
  BY DEF v_flow_handle_msg
<1>2. ctxUse' = ctxUse
  BY DEF v_flow_handle_msg
<1>3. CASE txn' = txn
  BY <1>2, <1>3, SameKeepsCtx DEF CtxInv
<1>4. CASE Started(p, r, s)
  <2>1. PICK i \in Slot :
          /\ ~Live(<<p, i>>)
          /\ Await(<<p, i>>, [Idle EXCEPT !.req = r, !.seid = s], "RECV", Entry(r), NoCmd)
    BY <1>4 DEF Started
  <2> DEFINE new == [[Idle EXCEPT !.req = r, !.seid = s] EXCEPT
                       !.st = "RECV", !.cb = Entry(r), !.cmd = NoCmd, !.res = "none"]
  <2>2. PICK t \in Txn : t = <<p, i>>
    BY DEF Txn
  <2>3. txn' = [txn EXCEPT ![t] = new] /\ txn[t].st = "FREE"
    BY <2>1, <2>2 DEF Await, Live
  <2>4. new.ctx = NULL /\ new.impl = NULL /\ new.cb = Entry(r)
    BY DEF Idle
  <2>5. txn'[t] = new /\ \A u \in Txn : u # t => txn'[u] = txn[u]
    BY <2>3 DEF DurabilityInv, TypeOK
  <2> HIDE DEF new
  <2>6. Entry(r) \in Lookup /\ Entry(r) \notin Modifying
    BY DEF Entry, Lookup, Modifying
  <2>7. CtxShape(new)
    BY <2>4, <2>6 DEF CtxShape
  <2>8. txn[t].ctx = NULL /\ txn[t].impl = NULL
    BY <2>3 DEF HistoryInv, TxnOK, Idle
  <2>9. \A u \in Txn : /\ CtxShape(txn'[u])
                       /\ txn'[u].ctx = txn[u].ctx /\ txn'[u].impl = txn[u].impl
    BY <2>4, <2>5, <2>7, <2>8 DEF CtxInv
  <2> QED
    BY <1>2, <2>9, SameKeepsCtx
<1> QED
  BY <1>1, <1>3, <1>4 DEF reply_ctx_not_found, Dropped

(* PodCrash: the pod that replaces it starts with a full pool.             *)
LEMMA PodCrashKeepsCtx ==
  ASSUME DurabilityInv, CtxInv, NEW p \in Pod, PodCrash(p)
  PROVE  CtxInv'
<1>1. /\ txn' = [t \in Txn |-> IF t[1] = p THEN Idle ELSE txn[t]]
      /\ ctxUse' = [ctxUse EXCEPT ![p] = 0] /\ ctxUse \in [Pod -> Int]
  BY DEF PodCrash, DurabilityInv, TypeOK
<1>2. \A t \in Txn : CtxShape(txn'[t])
  BY <1>1, IdleHolds DEF CtxInv
<1>3. ASSUME NEW q \in Pod
      PROVE  ctxUse'[q] = Cardinality(CtxSlots(q)') + Cardinality(ImplSlots(q)')
  <2>1. \A j \in Slot : txn'[<<q, j>>] = IF q = p THEN Idle ELSE txn[<<q, j>>]
    BY <1>1 DEF Txn
  <2>2. CASE q = p
    <3>1. Idle.ctx = NULL /\ Idle.impl = NULL
      BY DEF Idle
    <3>2. CtxSlots(q)' = {} /\ ImplSlots(q)' = {}
      BY <2>1, <2>2, <3>1 DEF CtxSlots, ImplSlots
    <3>3. ctxUse'[q] = 0
      BY <1>1, <2>2
    <3> QED
      BY <3>2, <3>3, FS_EmptySet
  <2>3. CASE q # p
    <3>1. CtxSlots(q)' = CtxSlots(q) /\ ImplSlots(q)' = ImplSlots(q)
      BY <2>1, <2>3 DEF CtxSlots, ImplSlots
    <3>2. ctxUse'[q] = ctxUse[q]
      BY <1>1, <2>3
    <3>3. ctxUse[q] = Cardinality(CtxSlots(q)) + Cardinality(ImplSlots(q))
      BY DEF CtxInv, CtxBaseline, CtxSlots, ImplSlots
    <3> QED
      BY <3>1, <3>2, <3>3
  <2> QED
    BY <2>2, <2>3
<1>4. CtxBaseline'
  BY <1>3 DEF CtxBaseline, CtxSlots, ImplSlots
<1> QED
  BY <1>2, <1>4 DEF CtxInv

(* Every step.                                                             *)
LEMMA StepKeepsCtx ==
  ASSUME DurabilityInv, DurabilityInv', HistoryInv, SessionInv, CtxInv, [Next]_vars,
         IsFiniteSet(Slot), "hard_timeout" \notin Faults
  PROVE  CtxInv'
<1>1. CASE \E p \in Pod, r \in Req : v_flow_handle_msg(p, r)
  BY <1>1, HandleMsgKeepsCtx
<1>2. ASSUME NEW t \in Txn, EstCallback(t) \/ ModCallback(t) \/ DelCallback(t) PROVE CtxInv'
  BY <1>2, CallbackTurn, TurnKeepsCtx
<1>3. ASSUME NEW t \in Txn, SessExec(t) \/ VdpExec(t) PROVE CtxInv'
  <2>1. EffectTurn /\ ctxUse' = ctxUse
    BY <1>3, SessExecTurn, VdpExecTurn DEF SessionInv, SessExec, VdpExec
  <2>2. \A u \in Txn : /\ txn'[u].cb = txn[u].cb
                       /\ txn'[u].ctx = txn[u].ctx /\ txn'[u].impl = txn[u].impl
    BY <2>1, EffectSame
  <2>3. \A u \in Txn : CtxShape(txn'[u])
    BY <2>2 DEF CtxInv, CtxShape
  <2> QED
    BY <2>1, <2>2, <2>3, SameKeepsCtx
<1>4. CASE \E p \in Pod : PodCrash(p)
  BY <1>4, PodCrashKeepsCtx
<1>5. CASE \/ \E c \in bg : BgExec(c)
           \/ \E x \in stores : StoreExec(x)
           \/ \E s \in Seid : PendingExpires(s)
           \/ \E r \in Req : CacheExpires(r)
           \/ BgLost \/ UNCHANGED vars
  <2>1. ctxUse' = ctxUse /\ txn' = txn
    BY <1>5 DEF BgExec, StoreExec, PendingExpires, CacheExpires, BgLost, vars
  <2> QED
    BY <2>1, SameKeepsCtx DEF CtxInv
<1>6. \A t \in Txn : ~timeout_handler(t)
  BY DEF timeout_handler, CanFail
<1> QED
  BY <1>1, <1>2, <1>3, <1>4, <1>5, <1>6 DEF Next, Progress

(* PLAN.md 8.1, "every timeout path frees mempool objects; assert          *)
(* baseline": as long as no flow runs into the hard timeout, the contexts  *)
(* taken from a pod's pool are exactly those its transactions hold, on     *)
(* every error path and across crashes, for any number of slots.           *)
(* (timeout_handler() does not free the snapshot of a modification; the    *)
(* run timeout_leak shows the leak.)                                       *)
THEOREM ContextsAccounted ==
  ASSUME IsFiniteSet(Slot), "hard_timeout" \notin Faults
  PROVE  Spec => []CtxBaseline
<1>1. Init => CtxInv
  <2> SUFFICES ASSUME Init PROVE CtxInv
    OBVIOUS
  <2>1. (\A t \in Txn : txn[t] = Idle) /\ \A p \in Pod : ctxUse[p] = 0
    BY DEF Init
  <2>2. \A t \in Txn : CtxShape(txn[t])
    BY <2>1, IdleHolds
  <2>3. Idle.ctx = NULL /\ Idle.impl = NULL
    BY DEF Idle
  <2>4. ASSUME NEW p \in Pod PROVE CtxSlots(p) = {} /\ ImplSlots(p) = {}
    BY <2>1, <2>3 DEF CtxSlots, ImplSlots, Txn
  <2>5. Cardinality({}) = 0
    BY FS_EmptySet
  <2>6. \A p \in Pod : ctxUse[p] = Cardinality(CtxSlots(p)) + Cardinality(ImplSlots(p))
    BY <2>1, <2>4, <2>5
  <2>7. CtxBaseline
    BY <2>6 DEF CtxBaseline, CtxSlots, ImplSlots
  <2> QED
    BY <2>2, <2>7 DEF CtxInv
<1>2. DurabilityInv /\ DurabilityInv' /\ HistoryInv /\ SessionInv /\ CtxInv /\ [Next]_vars
        => CtxInv'
  BY StepKeepsCtx
<1>3. CtxInv => CtxBaseline
  BY DEF CtxInv
<1> QED
  BY <1>1, <1>2, <1>3, InvariantHolds, HistoryHolds, SessionsHold, PTL DEF Spec

=============================================================================
