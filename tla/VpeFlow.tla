------------------------------ MODULE VpeFlow ------------------------------
(***************************************************************************)
(* The session flows of the stateless PFCP endpoint: v_flow.c together     *)
(* with what it calls to change state, v_sess_store.c (and the Lua scripts *)
(* it runs in Redis), v_retrans_cache.c and v_txn.c.  Several pods serve   *)
(* the same SMF; the only state they share is Redis.                       *)
(*                                                                         *)
(* Every asynchronous call of the code names the callback that continues   *)
(* the flow, so a transaction waiting for an answer is identified by that  *)
(* callback, and there is one action per callback.  A command that changes *)
(* Redis or the VDP takes effect in a step of its own (SessExec, VdpExec), *)
(* somewhere between the call and the callback; a read takes effect in the *)
(* step of its callback, which does nothing else that another actor can    *)
(* see before its next call.                                               *)
(***************************************************************************)
EXTENDS Integers, Sequences, FiniteSets

CONSTANTS
  Pod,              \* replicas of the service
  Slot,             \* entries of one pod's transaction pool
  EstReq,           \* Session Establishment requests, one per (F-SEID, seq)
  ModReq,           \* Session Modification requests
  DelReq,           \* Session Deletion requests
  BadReq,           \* those whose header SEID fails v_seid_validate()
  Seid,             \* SEIDs v_id_alloc can hand out
  Teid,             \* TEIDs v_id_alloc can hand out
  NULL,             \* a null pointer, SEID 0, TEID 0, an empty cache entry
  V_CAS_MAX_RETRY,  \* v_sess_store.h
  CtxCap,           \* size of one pod's pdu_ses_ctx pool
  MaxXmit,          \* how often the SMF transmits one request
  Overlap,          \* may a retransmission overtake the original's reply?
  Faults            \* the failures the environment may produce

Req == EstReq \cup ModReq \cup DelReq
Txn == Pod \X Slot
Ctx == [teid : Teid \cup {NULL}, mods : Seq(ModReq)]

ASSUME RequestAssumption ==
  /\ EstReq \cap ModReq = {} /\ EstReq \cap DelReq = {} /\ ModReq \cap DelReq = {}
  /\ BadReq \subseteq ModReq \cup DelReq

ASSUME NullAssumption ==
  NULL \notin Req /\ NULL \notin Seid /\ NULL \notin Teid /\ NULL \notin Ctx

ASSUME BoundAssumption ==
  V_CAS_MAX_RETRY \in Nat /\ CtxCap \in Nat /\ MaxXmit \in Nat /\ Overlap \in BOOLEAN

Fault == {"dispatch", "lookup_err", "read_err", "cas_err", "confirm_err",
          "persist_refused", "del_err", "vdp_reject", "vdp_timeout", "alloc",
          "build", "encode", "bg_lost", "store_lost", "rpush_lost", "cache_expiry",
          "hard_timeout", "crash"}

ASSUME FaultAssumption == Faults \subseteq Fault

CanFail(kind) == kind \in Faults

VARIABLES
  xmit,       \* transmissions of each request so far
  target,     \* the session a modification or deletion names, NULL before it is sent
  txn,        \* every pod's transaction pool
  sess,       \* Redis: the hash pdu_<part>:<seid>; ver = 0 when the key is absent
  cache,      \* Redis: the retransmit cache
  refused,    \* history: the sessions whose PERSIST Redis answered with an error
  vdp,        \* the data plane's rule of each session, NULL when there is none
  bg,         \* commands under way that no transaction waits for
  stores,     \* SETEX commands of v_retrans_store() under way
  seidUsed,   \* SEIDs handed out; never reclaimed
  teidAvail,  \* how often each TEID is on offer in the rings and the free list
  tx,         \* every reply handed to v_dispatch_tx_enqueue()
  ctxUse      \* pdu_ses_ctx objects taken from each pod's pool

smfVars   == <<xmit, target>>
redisVars == <<sess, cache, refused>>
idVars    == <<seidUsed, teidAvail>>
vars == <<xmit, target, txn, sess, cache, refused, vdp, bg, stores, seidUsed,
          teidAvail, tx, ctxUse>>

-----------------------------------------------------------------------------
(* Types.                                                                  *)

Cause == {"ACCEPTED", "REJECTED", "NOT_FOUND", "NO_RESOURCES", "SYSTEM_FAILURE"}

State == {"FREE", "RECV", "DB_READ_WAIT", "DB_WRITE_WAIT", "VDP_WAIT",
          "DB_CONFIRM_WAIT"}

SessOp == {"CAS", "DEL", "PERSIST"}
VdpOp  == {"VDP_CREATE", "VDP_MODIFY", "VDP_DELETE"}

Callback == {"none", "retrans_lookup_cb", "cas_write_cb", "vdp_create_cb",
             "confirm_cb", "mod_retrans_lookup_cb", "mod_read_cb",
             "mod_cas_cb", "mod_vdp_cb", "mod_compensate_write_cb",
             "del_retrans_lookup_cb", "del_read_cb", "del_vdp_cb",
             "del_delete_cb"}

Result == {"none", "OK", "CONFLICT", "GONE", "ACCEPT", "REJECT"}

Command == [op : SessOp \cup VdpOp \cup {"NONE"}, seid : Seid \cup {NULL},
            ver : Nat, ctx : Ctx \cup {NULL}, ttl : BOOLEAN]

Reply == [req : Req, cause : Cause, seid : Seid \cup {NULL}]

ASSUME CacheAssumption == NULL \notin Reply

SessRecord == [ver : Nat, ctx : Ctx \cup {NULL}, ttl : BOOLEAN]

TxnRecord ==
  [st : State, cb : Callback, req : Req \cup {NULL}, seid : Seid \cup {NULL},
   teid : Teid \cup {NULL}, ver : Nat, retry : Nat, ctx : Ctx \cup {NULL},
   impl : Ctx \cup {NULL}, cmd : Command, res : Result]

TypeOK ==
  /\ xmit \in [Req -> Nat]
  /\ target \in [ModReq \cup DelReq -> Seid \cup {NULL}]
  /\ txn \in [Txn -> TxnRecord]
  /\ sess \in [Seid -> SessRecord]
  /\ cache \in [Req -> Reply \cup {NULL}]
  /\ refused \subseteq Seid
  /\ vdp \in [Seid -> Ctx \cup {NULL}]
  /\ bg \subseteq Command
  /\ stores \subseteq Reply
  /\ seidUsed \subseteq Seid
  /\ teidAvail \in [Teid -> Nat]
  /\ tx \subseteq Reply
  /\ ctxUse \in [Pod -> Int]

-----------------------------------------------------------------------------
(* Redis.  A command carries the session's SEID, the version it expects,   *)
(* the serialised context and whether it sets the pending TTL.             *)

NoCmd == [op |-> "NONE", seid |-> NULL, ver |-> 0, ctx |-> NULL, ttl |-> FALSE]

(* Mutant of v_sess_cas_write: the pending record is written without TTL.  *)
CasWriteWithoutTtl(s, exp_ver, ctx, pending) ==
  [op |-> "CAS", seid |-> s, ver |-> exp_ver, ctx |-> ctx, ttl |-> FALSE]

v_sess_cas_write(s, exp_ver, ctx, pending) ==
  [op |-> "CAS", seid |-> s, ver |-> exp_ver, ctx |-> ctx, ttl |-> pending]

v_sess_confirm(s) == [NoCmd EXCEPT !.op = "PERSIST", !.seid = s]

v_sess_delete(s, exp_ver) == [NoCmd EXCEPT !.op = "DEL", !.seid = s, !.ver = exp_ver]

NoSession == [ver |-> 0, ctx |-> NULL, ttl |-> FALSE]

(* Mutant of CasResult: the script does not compare the versions.          *)
BlindCasResult(rec, c) == "OK"

(* V_LUA_SESS_CAS_WRITE: expecting version 0 means the key must not exist, *)
(* and a write without a TTL leaves the key's own TTL alone.               *)
CasResult(rec, c) ==
  IF rec.ver = c.ver THEN "OK" ELSE IF rec.ver = 0 THEN "GONE" ELSE "CONFLICT"

(* Mutant of CasRecord: an update leaves the version as it was.            *)
UnversionedCasRecord(rec, c) ==
  IF CasResult(rec, c) = "OK"
    THEN [ver |-> IF c.ver = 0 THEN 1 ELSE c.ver, ctx |-> c.ctx, ttl |-> rec.ttl \/ c.ttl]
    ELSE rec

CasRecord(rec, c) ==
  IF CasResult(rec, c) = "OK"
    THEN [ver |-> c.ver + 1, ctx |-> c.ctx, ttl |-> rec.ttl \/ c.ttl]
    ELSE rec

(* Mutant of DelResult: deleting what is gone succeeds too.                *)
LenientDelResult(rec, c) ==
  IF rec.ver \in {0, c.ver} THEN "OK" ELSE "CONFLICT"

(* V_LUA_SESS_DELETE: unlike a write, a delete never expects absence.      *)
DelResult(rec, c) ==
  IF rec.ver = 0 THEN "GONE" ELSE IF rec.ver = c.ver THEN "OK" ELSE "CONFLICT"

DelRecord(rec, c) == IF DelResult(rec, c) = "OK" THEN NoSession ELSE rec

PersistRecord(rec) == [rec EXCEPT !.ttl = FALSE]

SessResult(rec, c) ==
  CASE c.op = "CAS"     -> CasResult(rec, c)
    [] c.op = "DEL"     -> DelResult(rec, c)
    [] c.op = "PERSIST" -> "OK"        \* confirm_reply_cb() ignores the reply

SessEffect(rec, c) ==
  CASE c.op = "CAS"     -> CasRecord(rec, c)
    [] c.op = "DEL"     -> DelRecord(rec, c)
    [] c.op = "PERSIST" -> PersistRecord(rec)

(* Redis does what command c says, or refuses it (READONLY, MISCONF).  The *)
(* caller of a script sees the refusal, as a failed write or delete.  Not  *)
(* so for PERSIST: on_reply() reports OK for any reply, confirm_reply_cb() *)
(* does not look at it, and the caller is told OK although the TTL stays.  *)
SessRun(c) ==
  \/ /\ sess' = [sess EXCEPT ![c.seid] = SessEffect(@, c)]
     /\ UNCHANGED refused
  \/ /\ c.op = "PERSIST" /\ CanFail("persist_refused")
     /\ refused' = refused \cup {c.seid}
     /\ UNCHANGED sess

(* The VDP installs a rule on create, replaces it on modify and removes it *)
(* on delete.  It refuses to modify a rule it does not have.               *)
VdpCmd(op, s, ctx) == [NoCmd EXCEPT !.op = op, !.seid = s, !.ctx = ctx]

VdpAnswer(rule, c) ==
  IF c.op = "VDP_MODIFY" /\ rule = NULL THEN "REJECT" ELSE "ACCEPT"

VdpEffect(rule, c) ==
  IF c.op = "VDP_DELETE" \/ (c.op = "VDP_MODIFY" /\ rule = NULL) THEN NULL ELSE c.ctx

-----------------------------------------------------------------------------
(* Transactions.                                                           *)

Idle == [st |-> "FREE", cb |-> "none", req |-> NULL, seid |-> NULL,
         teid |-> NULL, ver |-> 0, retry |-> 0, ctx |-> NULL, impl |-> NULL,
         cmd |-> NoCmd, res |-> "none"]

Live(t) == txn[t].st # "FREE"

(* A transaction whose record is now rec makes a call: it waits in state   *)
(* st for callback cb, and cmd is under way.                               *)
Await(t, rec, st, cb, cmd) ==
  txn' = [txn EXCEPT ![t] =
            [rec EXCEPT !.st = st, !.cb = cb, !.cmd = cmd, !.res = "none"]]

(* The command of a call nobody waits for any longer, if it has not        *)
(* reached its server yet: it may still do so.                             *)
Late(t) == IF txn[t].res = "none" /\ txn[t].cmd # NoCmd THEN {txn[t].cmd} ELSE {}

(* The result a callback is called with: the answer to the command, or a   *)
(* transport error, after which the command may or may not take effect.    *)
Seen(t, r, kind) ==
  \/ r # "none" /\ r = txn[t].res
  \/ r = "ERR" /\ CanFail(kind)

(* v_port_ctx_alloc() and v_port_ctx_free(), n objects at a time, and the  *)
(* context as allocated or cleared.                                        *)
CtxAvail(t) == ctxUse[t[1]] < CtxCap
CtxTake(t, n) == ctxUse' = [ctxUse EXCEPT ![t[1]] = @ + n]
CtxFree(t, n) == ctxUse' = [ctxUse EXCEPT ![t[1]] = @ - n]
CtxHeld(ptr) == IF ptr = NULL THEN 0 ELSE 1
EmptyCtx == [teid |-> NULL, mods |-> << >>]

(* Mutant of v_teid_free: the TEID is never pushed to the free list.       *)
TeidForgotten(d) == UNCHANGED teidAvail

(* v_teid_free(): the RPUSH is fire-and-forget.                            *)
v_teid_free(d) ==
  \/ teidAvail' = [teidAvail EXCEPT ![d] = @ + 1]
  \/ CanFail("rpush_lost") /\ UNCHANGED teidAvail

(* The reply to t's request.  Only a positive one is encoded from the      *)
(* context; the header SEID of the others is 0.                            *)
ReplyOf(t, cause) ==
  [req |-> txn[t].req, cause |-> cause,
   seid |-> IF cause = "ACCEPTED" THEN txn[t].seid ELSE NULL]

(* Mutant of finish: only positive replies are cached.                     *)
FinishCachingSuccess(t, cause, freed, issued) ==
  /\ tx' = tx \cup {ReplyOf(t, cause)}
  /\ stores' = IF cause = "ACCEPTED" THEN stores \cup {ReplyOf(t, cause)} ELSE stores
  /\ CtxFree(t, freed + CtxHeld(txn[t].ctx))
  /\ bg' = bg \cup issued \cup Late(t)
  /\ txn' = [txn EXCEPT ![t] = Idle]

(* finish(): cache and send the reply, free t->ctx and the transaction.    *)
(* The caller has already freed `freed` other contexts and dispatched the  *)
(* commands `issued`, whose callbacks only log.  A reply the TX ring       *)
(* refuses counts as sent: it is one more reply lost on its way to the SMF.*)
finish(t, cause, freed, issued) ==
  /\ \/ /\ tx' = tx \cup {ReplyOf(t, cause)}
        /\ stores' = stores \cup {ReplyOf(t, cause)}
     \/ CanFail("encode") /\ UNCHANGED <<tx, stores>>
  /\ CtxFree(t, freed + CtxHeld(txn[t].ctx))
  /\ bg' = bg \cup issued \cup Late(t)
  /\ txn' = [txn EXCEPT ![t] = Idle]

(* A retransmit-cache hit: resend the cached reply and drop the txn.       *)
ReplyFromCache(t) ==
  /\ cache[txn[t].req] # NULL
  /\ tx' = tx \cup {cache[txn[t].req]}
  /\ txn' = [txn EXCEPT ![t] = Idle]
  /\ UNCHANGED <<bg, stores, ctxUse, idVars>>

(* A miss, or a lookup that failed: the flows fail open.                   *)
CacheMiss(t) == cache[txn[t].req] = NULL \/ CanFail("lookup_err")

-----------------------------------------------------------------------------
(* Session Establishment.                                                  *)

(* Neither identifier, one of them or both may be missing.                 *)
v_seid_alloc == (Seid \ seidUsed)
                \cup (IF Seid = seidUsed \/ CanFail("alloc") THEN {NULL} ELSE {})

(* Mutant of v_teid_alloc: the ring is not checked for being empty.        *)
TeidUnchecked == Teid

v_teid_alloc ==
  LET offered == {d \in Teid : teidAvail[d] > 0}
  IN  offered \cup (IF offered = {} \/ CanFail("alloc") THEN {NULL} ELSE {})

(* After the allocation of s and d: ran out of identifiers.                *)
EstNoResources(t, s, d) ==
  /\ s = NULL \/ d = NULL
  /\ IF d = NULL THEN UNCHANGED teidAvail
     ELSE \/ UNCHANGED teidAvail          \* taken from the ring, then given back
          \/ CanFail("rpush_lost") /\ teidAvail' = [teidAvail EXCEPT ![d] = @ - 1]
  /\ finish(t, "NO_RESOURCES", 0, {})

(* No context, build_session() failed or the write was not dispatched:     *)
(* whatever was allocated is given back.                                   *)
EstAbort(t, s, d) ==
  /\ s # NULL /\ d # NULL
  /\ ~CtxAvail(t) \/ CanFail("build") \/ CanFail("dispatch")
  /\ \/ UNCHANGED teidAvail
     \/ CanFail("rpush_lost") /\ teidAvail' = [teidAvail EXCEPT ![d] = @ - 1]
  /\ finish(t, "SYSTEM_FAILURE", 0, {})

EstWrite(t, s, d) ==
  LET ctx == [teid |-> d, mods |-> << >>]
      rec == [txn[t] EXCEPT !.seid = s, !.teid = d, !.ctx = ctx]
  IN  /\ s # NULL /\ d # NULL
      /\ CtxAvail(t)
      /\ CtxTake(t, 1)
      /\ teidAvail' = [teidAvail EXCEPT ![d] = @ - 1]
      /\ Await(t, rec, "DB_WRITE_WAIT", "cas_write_cb",
               v_sess_cas_write(s, 0, ctx, TRUE))
      /\ UNCHANGED <<bg, stores, tx>>

retrans_lookup_cb(t) ==
  /\ txn[t].cb = "retrans_lookup_cb"
  /\ \/ ReplyFromCache(t)
     \/ /\ CacheMiss(t)
        /\ \E s \in v_seid_alloc, d \in v_teid_alloc :
             /\ seidUsed' = seidUsed \cup ({s} \ {NULL})
             /\ EstNoResources(t, s, d) \/ EstAbort(t, s, d) \/ EstWrite(t, s, d)
  /\ UNCHANGED <<smfVars, redisVars, vdp>>

cas_write_cb(t) ==
  /\ txn[t].cb = "cas_write_cb"
  /\ \/ /\ \E r \in {"CONFLICT", "GONE", "ERR"} : Seen(t, r, "cas_err")
        /\ v_teid_free(txn[t].teid)
        /\ finish(t, "SYSTEM_FAILURE", 0, {})
     \/ /\ Seen(t, "OK", "cas_err")
        /\ Await(t, [txn[t] EXCEPT !.ver = 1], "VDP_WAIT", "vdp_create_cb",
                 VdpCmd("VDP_CREATE", txn[t].seid, txn[t].ctx))
        /\ UNCHANGED <<bg, stores, tx, ctxUse, teidAvail>>
     \/ /\ Seen(t, "OK", "cas_err") /\ CanFail("dispatch")
        /\ v_teid_free(txn[t].teid)
        /\ finish(t, "SYSTEM_FAILURE", 0, {v_sess_delete(txn[t].seid, 1)})
  /\ UNCHANGED <<smfVars, redisVars, vdp, seidUsed>>

(* V_VDP_TIMEOUT is the VDP client's own verdict: as for a transport error *)
(* the rule may have been changed, may be changed yet, or never.           *)
VdpRefused(t) == Seen(t, "REJECT", "vdp_timeout") \/ Seen(t, "ERR", "vdp_timeout")

(* Mutant of vdp_create_cb: reply as soon as the VDP accepts, and confirm  *)
(* the record in the background.                                           *)
ReplyBeforeConfirm(t) ==
  /\ txn[t].cb = "vdp_create_cb"
  /\ Seen(t, "ACCEPT", "vdp_timeout")
  /\ finish(t, "ACCEPTED", 0, {v_sess_confirm(txn[t].seid)})
  /\ UNCHANGED <<smfVars, redisVars, vdp, idVars>>

vdp_create_cb(t) ==
  /\ txn[t].cb = "vdp_create_cb"
  /\ \/ /\ VdpRefused(t)
        /\ v_teid_free(txn[t].teid)
        /\ finish(t, "REJECTED", 0, {v_sess_delete(txn[t].seid, txn[t].ver)})
     \/ /\ Seen(t, "ACCEPT", "vdp_timeout")
        /\ Await(t, txn[t], "DB_CONFIRM_WAIT", "confirm_cb",
                 v_sess_confirm(txn[t].seid))
        /\ UNCHANGED <<bg, stores, tx, ctxUse, teidAvail>>
     \/ /\ Seen(t, "ACCEPT", "vdp_timeout") /\ CanFail("dispatch")
        /\ finish(t, "SYSTEM_FAILURE", 0, {})
        /\ UNCHANGED teidAvail
  /\ UNCHANGED <<smfVars, redisVars, vdp, seidUsed>>

(* Mutant of confirm_cb: the error path gives the TEID back, as the other  *)
(* error paths do.                                                         *)
ConfirmErrorFreesTeid(t) ==
  /\ txn[t].cb = "confirm_cb"
  /\ \/ Seen(t, "OK", "confirm_err") /\ finish(t, "ACCEPTED", 0, {}) /\ UNCHANGED teidAvail
     \/ /\ Seen(t, "ERR", "confirm_err")
        /\ v_teid_free(txn[t].teid)
        /\ finish(t, "SYSTEM_FAILURE", 0, {})
  /\ UNCHANGED <<smfVars, redisVars, vdp, seidUsed>>

confirm_cb(t) ==
  /\ txn[t].cb = "confirm_cb"
  /\ \/ Seen(t, "OK", "confirm_err") /\ finish(t, "ACCEPTED", 0, {})
     \/ Seen(t, "ERR", "confirm_err") /\ finish(t, "SYSTEM_FAILURE", 0, {})
  /\ UNCHANGED <<smfVars, redisVars, vdp, idVars>>

-----------------------------------------------------------------------------
(* Session Modification.                                                   *)

(* Mutant of StartRead: a retry forgets to free the snapshot.              *)
StartReadLeaking(t, rec, cb, freed) ==
  /\ Await(t, rec, "DB_READ_WAIT", cb, NoCmd)
  /\ CtxFree(t, IF freed > 0 THEN 0 ELSE freed)
  /\ UNCHANGED <<bg, stores, tx>>

(* mod_start_read() and del_start_read(): rec is the transaction's record  *)
(* as the caller leaves it, after freeing `freed` contexts.                *)
StartRead(t, rec, cb, freed) ==
  \/ /\ Await(t, rec, "DB_READ_WAIT", cb, NoCmd)
     /\ CtxFree(t, freed)
     /\ UNCHANGED <<bg, stores, tx>>
  \/ /\ CanFail("dispatch")
     /\ finish(t, "SYSTEM_FAILURE",
               freed + CtxHeld(rec.ctx) - CtxHeld(txn[t].ctx), {})

(* mod_retrans_lookup_cb() and del_retrans_lookup_cb(): a miss takes a     *)
(* context and reads the session into it.                                  *)
LookupThenRead(t, cb) ==
  /\ \/ ReplyFromCache(t)
     \/ /\ CacheMiss(t)
        /\ \/ ~CtxAvail(t) /\ finish(t, "SYSTEM_FAILURE", 0, {})
           \/ CtxAvail(t) /\ StartRead(t, [txn[t] EXCEPT !.ctx = EmptyCtx], cb, -1)
        /\ UNCHANGED idVars
  /\ UNCHANGED <<smfVars, redisVars, vdp>>

mod_retrans_lookup_cb(t) ==
  txn[t].cb = "mod_retrans_lookup_cb" /\ LookupThenRead(t, "mod_read_cb")

(* v_sess_read(): the read fails on its way, or its answer does not        *)
(* deserialise; else it returns what Redis has, or that there is nothing.  *)
ReadFails == CanFail("read_err")

(* The session as read, snapshot and modified.                             *)
ModWrite(t) ==
  LET rec  == sess[txn[t].seid]
      next == [rec.ctx EXCEPT !.mods = Append(@, txn[t].req)]
  IN  /\ CtxAvail(t)
      /\ CtxTake(t, 1)
      /\ Await(t, [txn[t] EXCEPT !.ver = rec.ver, !.impl = rec.ctx, !.ctx = next],
               "DB_WRITE_WAIT", "mod_cas_cb",
               v_sess_cas_write(txn[t].seid, rec.ver, next, FALSE))
      /\ UNCHANGED <<bg, stores, tx>>

(* The read failed, there is no context for the snapshot, the snapshot or  *)
(* modify_session() failed, or the write was not dispatched.               *)
ModAbort(t) ==
  /\ \/ ReadFails
     \/ /\ sess[txn[t].seid].ver # 0
        /\ ~CtxAvail(t) \/ CanFail("build") \/ CanFail("dispatch")
  /\ finish(t, "SYSTEM_FAILURE", 0, {})

mod_read_cb(t) ==
  /\ txn[t].cb = "mod_read_cb"
  /\ \/ ModAbort(t)
     \/ sess[txn[t].seid].ver = 0 /\ finish(t, "NOT_FOUND", 0, {})
     \/ sess[txn[t].seid].ver # 0 /\ ModWrite(t)
  /\ UNCHANGED <<smfVars, redisVars, vdp, idVars>>

mod_cas_cb(t) ==
  LET impl == CtxHeld(txn[t].impl)
      again == [txn[t] EXCEPT !.impl = NULL, !.retry = @ + 1, !.ctx = EmptyCtx]
  IN
  /\ txn[t].cb = "mod_cas_cb"
  /\ \/ Seen(t, "ERR", "cas_err") /\ finish(t, "SYSTEM_FAILURE", impl, {})
     \/ /\ Seen(t, "OK", "cas_err")
        /\ \/ /\ Await(t, [txn[t] EXCEPT !.ver = @ + 1], "VDP_WAIT", "mod_vdp_cb",
                       VdpCmd("VDP_MODIFY", txn[t].seid, txn[t].ctx))
              /\ UNCHANGED <<bg, stores, tx, ctxUse>>
           \/ CanFail("dispatch") /\ finish(t, "SYSTEM_FAILURE", impl, {})
     \/ /\ Seen(t, "CONFLICT", "cas_err")
        /\ IF again.retry >= V_CAS_MAX_RETRY
             THEN finish(t, "SYSTEM_FAILURE", impl, {})
             ELSE StartRead(t, again, "mod_read_cb", impl)
     \/ Seen(t, "GONE", "cas_err") /\ finish(t, "NOT_FOUND", impl, {})
  /\ UNCHANGED <<smfVars, redisVars, vdp, idVars>>

(* A refusal writes the snapshot back over the modification, expecting the *)
(* version the modification created.  The snapshot is freed either way.    *)
mod_vdp_cb(t) ==
  LET prev == txn[t].impl IN
  /\ txn[t].cb = "mod_vdp_cb"
  /\ \/ /\ VdpRefused(t)
        /\ \/ /\ Await(t, [txn[t] EXCEPT !.impl = NULL], "VDP_WAIT",
                       "mod_compensate_write_cb",
                       v_sess_cas_write(txn[t].seid, txn[t].ver, prev, FALSE))
              /\ CtxFree(t, 1)
              /\ bg' = bg \cup Late(t)
              /\ UNCHANGED <<stores, tx>>
           \/ CanFail("dispatch") /\ finish(t, "SYSTEM_FAILURE", 1, {})
     \/ Seen(t, "ACCEPT", "vdp_timeout") /\ finish(t, "ACCEPTED", CtxHeld(prev), {})
  /\ UNCHANGED <<smfVars, redisVars, vdp, idVars>>

(* Mutant of mod_compensate_write_cb: a failed write-back only logs.       *)
CompensateOnlyOnSuccess(t) ==
  /\ txn[t].cb = "mod_compensate_write_cb"
  /\ Seen(t, "OK", "cas_err")
  /\ finish(t, "REJECTED", 0, {})
  /\ UNCHANGED <<smfVars, redisVars, vdp, idVars>>

(* Whatever became of the write-back, the answer is the same.              *)
mod_compensate_write_cb(t) ==
  /\ txn[t].cb = "mod_compensate_write_cb"
  /\ \E r \in {"OK", "CONFLICT", "GONE", "ERR"} : Seen(t, r, "cas_err")
  /\ finish(t, "REJECTED", 0, {})
  /\ UNCHANGED <<smfVars, redisVars, vdp, idVars>>

-----------------------------------------------------------------------------
(* Session Deletion.                                                       *)

del_retrans_lookup_cb(t) ==
  txn[t].cb = "del_retrans_lookup_cb" /\ LookupThenRead(t, "del_read_cb")

del_read_cb(t) ==
  LET rec == sess[txn[t].seid] IN
  /\ txn[t].cb = "del_read_cb"
  /\ \/ ReadFails /\ finish(t, "SYSTEM_FAILURE", 0, {})
     \/ rec.ver = 0 /\ finish(t, "NOT_FOUND", 0, {})
     \/ /\ rec.ver # 0
        /\ \/ /\ Await(t, [txn[t] EXCEPT !.ver = rec.ver, !.ctx = rec.ctx],
                       "VDP_WAIT", "del_vdp_cb",
                       VdpCmd("VDP_DELETE", txn[t].seid, NULL))
              /\ UNCHANGED <<bg, stores, tx, ctxUse>>
           \/ CanFail("dispatch") /\ finish(t, "SYSTEM_FAILURE", 0, {})
  /\ UNCHANGED <<smfVars, redisVars, vdp, idVars>>

(* Mutant of del_vdp_cb: the VDP's verdict is not looked at.               *)
DeleteRegardless(t) ==
  /\ txn[t].cb = "del_vdp_cb"
  /\ \E r \in {"ACCEPT", "REJECT", "ERR"} : Seen(t, r, "vdp_timeout")
  /\ Await(t, txn[t], "DB_WRITE_WAIT", "del_delete_cb",
           v_sess_delete(txn[t].seid, txn[t].ver))
  /\ bg' = bg \cup Late(t)
  /\ UNCHANGED <<smfVars, redisVars, vdp, idVars, stores, tx, ctxUse>>

del_vdp_cb(t) ==
  /\ txn[t].cb = "del_vdp_cb"
  /\ \/ VdpRefused(t) /\ finish(t, "REJECTED", 0, {})
     \/ /\ Seen(t, "ACCEPT", "vdp_timeout")
        /\ \/ /\ Await(t, txn[t], "DB_WRITE_WAIT", "del_delete_cb",
                       v_sess_delete(txn[t].seid, txn[t].ver))
              /\ UNCHANGED <<bg, stores, tx, ctxUse>>
           \/ CanFail("dispatch") /\ finish(t, "SYSTEM_FAILURE", 0, {})
  /\ UNCHANGED <<smfVars, redisVars, vdp, idVars>>

del_delete_cb(t) ==
  LET again == [txn[t] EXCEPT !.retry = @ + 1, !.ctx = EmptyCtx] IN
  /\ txn[t].cb = "del_delete_cb"
  /\ \/ /\ Seen(t, "OK", "del_err")
        /\ v_teid_free(txn[t].ctx.teid)
        /\ finish(t, "ACCEPTED", 0, {})
     \/ /\ \/ Seen(t, "ERR", "del_err") /\ finish(t, "SYSTEM_FAILURE", 0, {})
           \/ Seen(t, "GONE", "del_err") /\ finish(t, "NOT_FOUND", 0, {})
           \/ /\ Seen(t, "CONFLICT", "del_err")
              /\ IF again.retry >= V_CAS_MAX_RETRY
                   THEN finish(t, "SYSTEM_FAILURE", 0, {})
                   ELSE StartRead(t, again, "del_read_cb", 0)
        /\ UNCHANGED teidAvail
  /\ UNCHANGED <<smfVars, redisVars, vdp, seidUsed>>

-----------------------------------------------------------------------------
(* The SMF and the entry points of the flows.                              *)

AcceptedSeids == {r.seid : r \in {x \in tx : x.cause = "ACCEPTED" /\ x.req \in EstReq}}

(* The sessions request r can name: the SMF names one it was told of, and  *)
(* a retransmission names the same one.                                    *)
Targets(r) ==
  IF r \in EstReq \cup BadReq THEN {NULL}
  ELSE IF target[r] # NULL THEN {target[r]} ELSE AcceptedSeids

(* The SMF's retransmission timer is longer than the hard timeout          *)
(* (PLAN.md 3.5), so that without Overlap the original is over.            *)
Settled(r) ==
  /\ \A t \in Txn : txn[t].req # r
  /\ \A x \in stores : x.req # r

Entry(r) ==
  IF r \in EstReq THEN "retrans_lookup_cb"
  ELSE IF r \in ModReq THEN "mod_retrans_lookup_cb" ELSE "del_retrans_lookup_cb"

(* reply_ctx_not_found(): no transaction, no cache entry.                  *)
reply_ctx_not_found(r) ==
  /\ r \in BadReq
  /\ \/ tx' = tx \cup {[req |-> r, cause |-> "NOT_FOUND", seid |-> NULL]}
     \/ CanFail("encode") /\ UNCHANGED tx
  /\ UNCHANGED txn

(* The request is dropped without an answer: the transaction pool is       *)
(* empty, or the cache lookup was not dispatched.                          *)
Dropped(p, r) ==
  /\ r \notin BadReq
  /\ (\A i \in Slot : Live(<<p, i>>)) \/ CanFail("dispatch")
  /\ UNCHANGED <<txn, tx>>

Started(p, r, s) ==
  /\ r \notin BadReq
  /\ \E i \in Slot :
       /\ ~Live(<<p, i>>)
       /\ Await(<<p, i>>, [Idle EXCEPT !.req = r, !.seid = s], "RECV", Entry(r), NoCmd)
  /\ UNCHANGED tx

(* v_flow_handle_msg(): pod p receives request r, a first transmission or  *)
(* a later one.                                                            *)
v_flow_handle_msg(p, r) ==
  /\ xmit[r] < MaxXmit
  /\ Overlap \/ Settled(r)
  /\ xmit' = [xmit EXCEPT ![r] = @ + 1]
  /\ \E s \in Targets(r) :
       /\ target' = IF r \in EstReq THEN target ELSE [target EXCEPT ![r] = s]
       /\ reply_ctx_not_found(r) \/ Dropped(p, r) \/ Started(p, r, s)
  /\ UNCHANGED <<redisVars, vdp, bg, stores, idVars, ctxUse>>

-----------------------------------------------------------------------------
(* Redis, the VDP and time.                                                *)

(* Redis answers the command t waits for.                                  *)
SessExec(t) ==
  LET c == txn[t].cmd IN
  /\ c.op \in SessOp /\ txn[t].res = "none"
  /\ SessRun(c)
  /\ txn' = [txn EXCEPT ![t] = [@ EXCEPT !.res = SessResult(sess[c.seid], c)]]
  /\ UNCHANGED <<smfVars, cache, vdp, bg, stores, idVars, tx, ctxUse>>

(* The VDP decides on the command t waits for.                             *)
VdpExec(t) ==
  LET c == txn[t].cmd IN
  /\ c.op \in VdpOp /\ txn[t].res = "none"
  /\ \/ /\ vdp' = [vdp EXCEPT ![c.seid] = VdpEffect(@, c)]
        /\ txn' = [txn EXCEPT ![t] = [@ EXCEPT !.res = VdpAnswer(vdp[c.seid], c)]]
     \/ /\ CanFail("vdp_reject")
        /\ txn' = [txn EXCEPT ![t] = [@ EXCEPT !.res = "REJECT"]]
        /\ UNCHANGED vdp
  /\ UNCHANGED <<smfVars, redisVars, bg, stores, idVars, tx, ctxUse>>

(* A command that no transaction waits for reaches its server.             *)
BgExec(c) ==
  /\ c \in bg
  /\ bg' = bg \ {c}
  /\ \/ /\ c.op \in SessOp
        /\ SessRun(c)
        /\ UNCHANGED vdp
     \/ /\ c.op \in VdpOp
        /\ vdp' = [vdp EXCEPT ![c.seid] = VdpEffect(@, c)]
        /\ UNCHANGED <<sess, refused>>
  /\ UNCHANGED <<smfVars, cache, txn, stores, idVars, tx, ctxUse>>

(* v_retrans_store()'s SETEX arrives, overwriting what was there.          *)
StoreExec(x) ==
  /\ x \in stores
  /\ stores' = stores \ {x}
  /\ cache' = [cache EXCEPT ![x.req] = x]
  /\ UNCHANGED <<smfVars, txn, sess, refused, vdp, bg, idVars, tx, ctxUse>>

(* A command without a waiting transaction is lost on its way.             *)
BgLost ==
  /\ \/ CanFail("bg_lost") /\ \E c \in bg : bg' = bg \ {c} /\ UNCHANGED stores
     \/ CanFail("store_lost") /\ \E x \in stores : stores' = stores \ {x} /\ UNCHANGED bg
  /\ UNCHANGED <<smfVars, txn, redisVars, vdp, idVars, tx, ctxUse>>

(* The pending TTL (30 s) runs out.  A transaction lives for at most the   *)
(* hard timeout (2 s), so never under the one that created the record.     *)
PendingExpires(s) ==
  /\ sess[s].ttl
  /\ \A t \in Txn : ~(txn[t].seid = s /\ txn[t].req \in EstReq)
  /\ sess' = [sess EXCEPT ![s] = NoSession]
  /\ UNCHANGED <<smfVars, txn, cache, refused, vdp, bg, stores, idVars, tx, ctxUse>>

CacheExpires(r) ==
  /\ CanFail("cache_expiry") /\ cache[r] # NULL
  /\ cache' = [cache EXCEPT ![r] = NULL]
  /\ UNCHANGED <<smfVars, txn, sess, refused, vdp, bg, stores, idVars, tx, ctxUse>>

(* What the sweeper issues, by the state the transaction waits in.         *)
TimeoutCommands(rec) ==
  CASE rec.st = "VDP_WAIT" /\ rec.ver = 0 -> {v_sess_delete(rec.seid, 1)}
    [] rec.st = "DB_CONFIRM_WAIT"         -> {v_sess_confirm(rec.seid)}
    [] OTHER                              -> {}

(* timeout_handler(): the answer did not come within the hard timeout (and *)
(* is taken never to come).  Only t->ctx and t->req are released.          *)
timeout_handler(t) ==
  /\ CanFail("hard_timeout") /\ Live(t)
  /\ bg' = bg \cup TimeoutCommands(txn[t]) \cup Late(t)
  /\ CtxFree(t, CtxHeld(txn[t].ctx))
  /\ txn' = [txn EXCEPT ![t] = Idle]
  /\ UNCHANGED <<smfVars, redisVars, vdp, stores, idVars, tx>>

(* A pod dies and is replaced: its transactions and its pool are gone, the *)
(* commands it had sent are not.                                           *)
PodCrash(p) ==
  /\ CanFail("crash")
  /\ \E i \in Slot : Live(<<p, i>>)
  /\ bg' = bg \cup UNION {Late(<<p, i>>) : i \in Slot}
  /\ txn' = [t \in Txn |-> IF t[1] = p THEN Idle ELSE txn[t]]
  /\ ctxUse' = [ctxUse EXCEPT ![p] = 0]
  /\ UNCHANGED <<smfVars, redisVars, vdp, stores, idVars, tx>>

-----------------------------------------------------------------------------
Init ==
  /\ xmit = [r \in Req |-> 0]
  /\ target = [r \in ModReq \cup DelReq |-> NULL]
  /\ txn = [t \in Txn |-> Idle]
  /\ sess = [s \in Seid |-> NoSession]
  /\ cache = [r \in Req |-> NULL]
  /\ refused = {}
  /\ vdp = [s \in Seid |-> NULL]
  /\ bg = {}
  /\ stores = {}
  /\ seidUsed = {}
  /\ teidAvail = [d \in Teid |-> 1]
  /\ tx = {}
  /\ ctxUse = [p \in Pod |-> 0]

EstCallback(t) ==
  retrans_lookup_cb(t) \/ cas_write_cb(t) \/ vdp_create_cb(t) \/ confirm_cb(t)

ModCallback(t) ==
  \/ mod_retrans_lookup_cb(t) \/ mod_read_cb(t) \/ mod_cas_cb(t)
  \/ mod_vdp_cb(t) \/ mod_compensate_write_cb(t)

DelCallback(t) ==
  del_retrans_lookup_cb(t) \/ del_read_cb(t) \/ del_vdp_cb(t) \/ del_delete_cb(t)

Progress(t) ==
  EstCallback(t) \/ ModCallback(t) \/ DelCallback(t) \/ SessExec(t) \/ VdpExec(t)

Next ==
  \/ \E p \in Pod, r \in Req : v_flow_handle_msg(p, r)
  \/ \E t \in Txn : Progress(t) \/ timeout_handler(t)
  \/ \E c \in bg : BgExec(c)
  \/ \E x \in stores : StoreExec(x)
  \/ \E s \in Seid : PendingExpires(s)
  \/ \E r \in Req : CacheExpires(r)
  \/ \E p \in Pod : PodCrash(p)
  \/ BgLost

Spec == Init /\ [][Next]_vars

(* The event loops keep running and Redis, the VDP and the TTLs do their   *)
(* part; the SMF owes nothing, and no failure ever has to happen.          *)
Fairness ==
  /\ \A t \in Txn : WF_vars(Progress(t))
  /\ WF_vars(\E c \in bg : BgExec(c))
  /\ WF_vars(\E x \in stores : StoreExec(x))
  /\ \A s \in Seid : WF_vars(PendingExpires(s))

FairSpec == Spec /\ Fairness

-----------------------------------------------------------------------------
(* Properties.                                                             *)

Confirmed(s) == sess[s].ver # 0 /\ ~sess[s].ttl

ModsOf(s) == IF sess[s].ver = 0 THEN {} ELSE {sess[s].ctx.mods[i] : i \in DOMAIN sess[s].ctx.mods}

(* PLAN.md Change 1, "every session the SMF believes exists is in Redis":  *)
(* once an establishment was answered with ACCEPTED, its record is in      *)
(* Redis without a TTL, until the SMF asks for the session's deletion.     *)
(* The exception is the code's: a PERSIST that Redis refused is taken for  *)
(* done by confirm_reply_cb(), and the accepted session expires.           *)
AcceptedDurable ==
  \A s \in AcceptedSeids \ refused : Confirmed(s) \/ \E d \in DelReq : target[d] = s

(* v_teid_free(): a TEID is given back only by whoever unmade its last     *)
(* session, and once: no two confirmed sessions share a TEID, and none of  *)
(* theirs is on offer.                                                     *)
TeidExclusive ==
  \A s \in Seid : Confirmed(s) =>
    /\ teidAvail[sess[s].ctx.teid] = 0
    /\ \A q \in Seid \ {s} : Confirmed(q) => sess[q].ctx.teid # sess[s].ctx.teid

(* The same of the data plane, as long as the VDP's verdicts are known     *)
(* (no V_VDP_TIMEOUT): a rule's TEID is not on offer, and is not in the    *)
(* rule of another session.                                                *)
RuleTeidExclusive ==
  \A s \in Seid : vdp[s] # NULL =>
    /\ teidAvail[vdp[s].teid] = 0
    /\ \A q \in Seid \ {s} : vdp[q] # NULL => vdp[q].teid # vdp[s].teid

(* PLAN.md 5.2, "both end up applied": a modification that was answered    *)
(* with ACCEPTED is in the session's record for as long as there is one,   *)
(* whatever other modifications and write-backs do.                        *)
AcceptedModsApplied ==
  \A x \in tx : x.cause = "ACCEPTED" /\ x.req \in ModReq =>
    sess[x.seid].ver = 0 \/ x.req \in ModsOf(x.seid)

(* PLAN.md 5.3: after a deletion was answered with ACCEPTED there is no    *)
(* record and no forwarding rule, and no late write or rule brings one     *)
(* back.                                                                   *)
DeletedIsGone ==
  \A x \in tx : x.cause = "ACCEPTED" /\ x.req \in DelReq =>
    sess[x.seid].ver = 0 /\ vdp[x.seid] = NULL

(* PLAN.md 5.1 and 5.3, the order of Redis and the VDP: there is no        *)
(* forwarding rule for a session that Redis does not know.                 *)
RuleHasRecord == \A s \in Seid : vdp[s] # NULL => sess[s].ver # 0

(* finish()'s comment, "a same-seq retransmit gets the identical answer":  *)
(* all replies to one request are the same.                                *)
SameAnswer == \A x, y \in tx : x.req = y.req => x = y

(* PLAN.md 8.1, "every timeout path frees mempool objects; assert          *)
(* baseline": the contexts taken from a pod's pool are the ones its        *)
(* transactions hold.                                                      *)
CtxBaseline ==
  \A p \in Pod :
    ctxUse[p] = Cardinality({i \in Slot : txn[<<p, i>>].ctx # NULL})
                + Cardinality({i \in Slot : txn[<<p, i>>].impl # NULL})

(* Every flow ends: a request that a pod works on is answered, and its     *)
(* transaction returned to the pool, CAS conflicts and retries included.   *)
EveryFlowEnds ==
  \A r \in Req :
    (\E t \in Txn : txn[t].req = r)
      ~> ((\A t \in Txn : txn[t].req # r) /\ \E x \in tx : x.req = r)

(* PLAN.md 5.1, the two-phase commit: once the flow that was given a SEID  *)
(* has ended, the outcome is for good either a session the SMF was told    *)
(* of, or no record (deleted, or expired with the pending TTL) and no      *)
(* forwarding rule.                                                        *)
EstablishmentResolves ==
  \A s \in Seid :
    s \in seidUsed ~> [](s \in AcceptedSeids \/ (sess[s].ver = 0 /\ vdp[s] = NULL))

(* PLAN.md 9.3, "no leaked TEID": a TEID taken from the ring ends up in a  *)
(* session record or on the free list.                                     *)
TeidReclaimed ==
  \A d \in Teid :
    teidAvail[d] = 0 ~>
      (teidAvail[d] > 0 \/ \E s \in Seid : sess[s].ver # 0 /\ sess[s].ctx.teid = d)

-----------------------------------------------------------------------------
(* The inductive invariant behind AcceptedDurable, in named parts.         *)

EstWait == {"cas_write_cb", "vdp_create_cb", "confirm_cb"}
EstCb == EstWait \cup {"retrans_lookup_cb"}
ModCb == {"mod_retrans_lookup_cb", "mod_read_cb", "mod_cas_cb", "mod_vdp_cb",
          "mod_compensate_write_cb"}
DelCb == {"del_retrans_lookup_cb", "del_read_cb", "del_vdp_cb", "del_delete_cb"}

(* An establishment in progress holds SEID s.                              *)
Establishing(t, s) == txn[t].cb \in EstWait /\ txn[t].seid = s

(* The retransmit cache only ever repeats a reply.                         *)
CacheRepeats ==
  /\ stores \subseteq tx
  /\ \A r \in Req : cache[r] = NULL \/ cache[r] \in tx

(* A SEID belongs to at most one establishment, and the SMF hears of it    *)
(* only when that is over.                                                 *)
SeidOnce ==
  /\ AcceptedSeids \subseteq seidUsed
  /\ \A t \in Txn, s \in Seid : Establishing(t, s) =>
       /\ s \in seidUsed /\ s \notin AcceptedSeids
       /\ \A u \in Txn : Establishing(u, s) => u = t

(* The SMF names only sessions it was told of, and a malformed SEID none.  *)
TargetKnown ==
  /\ \A r \in ModReq \cup DelReq : target[r] = NULL \/ target[r] \in AcceptedSeids
  /\ \A r \in BadReq : target[r] = NULL

(* What a transaction with record rec holds, by the callback it waits for. *)
Shape(rec) ==
  /\ rec.cb \in EstCb => rec.req \in EstReq
  /\ rec.cb \in EstWait => rec.seid \in Seid
  /\ rec.cb \in ModCb => rec.req \in ModReq /\ rec.seid \in Seid
  /\ rec.cb \in DelCb =>
       rec.req \in DelReq /\ rec.seid \in Seid /\ target[rec.req] = rec.seid
  /\ rec.cb \in {"mod_cas_cb", "mod_vdp_cb"} => rec.impl \in Ctx
  /\ rec.cb = "cas_write_cb" => rec.cmd.op = "CAS" /\ rec.cmd.seid = rec.seid
  /\ rec.cb = "confirm_cb" => rec.cmd.op = "PERSIST" /\ rec.cmd.seid = rec.seid
  /\ rec.cb \in {"mod_vdp_cb", "mod_compensate_write_cb"} => rec.ver # 0
  /\ rec.st = "VDP_WAIT" =>
       rec.cb \in {"vdp_create_cb", "del_vdp_cb", "mod_vdp_cb", "mod_compensate_write_cb"}
  /\ rec.st = "DB_CONFIRM_WAIT" => rec.cb = "confirm_cb"

FlowShape == \A t \in Txn : Shape(txn[t])

(* A session may be deleted when the SMF asked for it, or when it will     *)
(* never hear of it.                                                       *)
Deletable(s) ==
  \/ \E d \in DelReq : target[d] = s
  \/ s \in seidUsed /\ s \notin AcceptedSeids /\ \A t \in Txn : ~Establishing(t, s)

CommandOK(c) ==
  /\ c.op \in SessOp => c.seid \in Seid
  /\ c.op = "CAS" => c.ctx \in Ctx /\ (c.ttl => c.ver = 0)
  /\ c.op = "DEL" => Deletable(c.seid)

CommandsOK == (\A t \in Txn : CommandOK(txn[t].cmd)) /\ (\A c \in bg : CommandOK(c))

RecordHasCtx == \A s \in Seid : sess[s].ver # 0 => sess[s].ctx \in Ctx

(* An establishment whose write was acknowledged has its record, and one   *)
(* whose confirmation was acknowledged has it without a TTL, unless Redis  *)
(* refused it.                                                             *)
EstRecord ==
  \A t \in Txn :
    /\ \/ txn[t].cb \in {"vdp_create_cb", "confirm_cb"}
       \/ txn[t].cb = "cas_write_cb" /\ txn[t].res = "OK"
       => sess[txn[t].seid].ver # 0
    /\ txn[t].cb = "confirm_cb" /\ txn[t].res = "OK" =>
         ~sess[txn[t].seid].ttl \/ txn[t].seid \in refused

(* The conjunction: in every state, v_flow's transactions, the commands    *)
(* under way and Redis agree well enough for AcceptedDurable to survive    *)
(* any step.                                                               *)
DurabilityInv ==
  /\ TypeOK /\ CacheRepeats /\ SeidOnce /\ TargetKnown /\ FlowShape
  /\ CommandsOK /\ RecordHasCtx /\ EstRecord /\ AcceptedDurable

=============================================================================
