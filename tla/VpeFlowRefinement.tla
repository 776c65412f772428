------------------------- MODULE VpeFlowRefinement -------------------------
(***************************************************************************)
(* The flows implement the session registry: the Redis records, written by *)
(* version CAS from any number of pods, are one history per session.       *)
(***************************************************************************)
EXTENDS VpeFlow

(* The write that creates the record of s is still on its way.             *)
Creates(c, s) == c.op = "CAS" /\ c.seid = s /\ c.ver = 0

BeingCreated(s) ==
  \/ \E t \in Txn : txn[t].res = "none" /\ Creates(txn[t].cmd, s)
  \/ \E c \in bg : Creates(c, s)

(* The refinement mapping: an absent record is one that is not there yet   *)
(* or one that never comes (back).                                         *)
regOf ==
  [s \in Seid |->
     IF sess[s].ver # 0
       THEN [phase |-> IF sess[s].ttl THEN "pending" ELSE "confirmed",
             mods |-> sess[s].ctx.mods]
       ELSE [phase |-> IF s \notin seidUsed \/ BeingCreated(s) THEN "fresh" ELSE "gone",
             mods |-> << >>]]

Registry == INSTANCE SessionRegistry WITH reg <- regOf

(* PLAN.md Change 2, "version CAS instead of ownership": no update of a    *)
(* session is lost or applied to stale state, a write-back takes back      *)
(* nothing but its own modification, and a deleted or expired session is   *)
(* never written again.                                                    *)
ImplementsRegistry == Registry!RegSpec

-----------------------------------------------------------------------------
(* The inductive invariant behind AcceptedModsApplied, DeletedIsGone and   *)
(* ImplementsRegistry, in named parts, beside DurabilityInv.               *)

(* The flow that was given SEID s ended and the SMF never heard of s.      *)
Abandoned(s) ==
  s \in seidUsed /\ s \notin AcceptedSeids /\ \A t \in Txn : ~Establishing(t, s)

Contains(mods, m) == \E i \in 1 .. Len(mods) : mods[i] = m

(* The modification of t is in the record it wrote, and t will report so   *)
(* unless the VDP refuses.                                                 *)
Committed(t) ==
  txn[t].cb = "mod_vdp_cb" \/ (txn[t].cb = "mod_cas_cb" /\ txn[t].res = "OK")

(* Someone but t reported modification m of session s, or may yet.         *)
ReportedBut(t, m, s) ==
  \/ \E x \in tx : x.cause = "ACCEPTED" /\ x.req = m /\ x.seid = s
  \/ \E u \in Txn : u # t /\ Committed(u) /\ txn[u].req = m /\ txn[u].seid = s

Reported(m, s) ==
  \/ \E x \in tx : x.cause = "ACCEPTED" /\ x.req = m /\ x.seid = s
  \/ \E u \in Txn : Committed(u) /\ txn[u].req = m /\ txn[u].seid = s

(* The write that creates the record of s.                                 *)
Creation(c, s) == c = v_sess_cas_write(s, 0, c.ctx, TRUE) /\ c.ctx.mods = << >>

(* Version v of session s was made, and a later one or none is there.      *)
Reached(s, v) == sess[s].ver = 0 \/ v <= sess[s].ver

(* A write of an existing session under way: if it succeeds it applies one *)
(* modification to the record, or takes the last one back, and keeps all   *)
(* that were reported.                                                     *)
UpdateOK(c) ==
  /\ c.seid \in AcceptedSeids /\ Reached(c.seid, c.ver)
  /\ sess[c.seid].ver = c.ver =>
       /\ LET mods == sess[c.seid].ctx.mods IN
            \/ \E m \in ModReq : c.ctx.mods = Append(mods, m)
            \/ mods # << >> /\ c.ctx.mods = SubSeq(mods, 1, Len(mods) - 1)
       /\ \A m \in ModReq : Reported(m, c.seid) => Contains(c.ctx.mods, m)

(* t wrote version v: while that is the record, it is the snapshot with    *)
(* t's modification, and the snapshot keeps what the others reported.      *)
Wrote(t, v) ==
  LET s == txn[t].seid IN
  /\ Reached(s, v)
  /\ sess[s].ver = v =>
       /\ sess[s].ctx.mods = Append(txn[t].impl.mods, txn[t].req)
       /\ \A m \in ModReq : ReportedBut(t, m, s) => Contains(txn[t].impl.mods, m)

(* A free transaction holds nothing; only the flow that has the SEID       *)
(* creates its record and first rule; flows that change a session are      *)
(* about one the SMF was told of; and a deletion whose rule or record is   *)
(* gone finds it so for good.                                              *)
TxnOK(t) ==
  /\ txn[t].st = "FREE" => txn[t] = Idle
  /\ txn[t].cb = "cas_write_cb" =>
       /\ Creation(txn[t].cmd, txn[t].seid)
       /\ txn[t].res = "none" => sess[txn[t].seid].ver = 0
  /\ txn[t].cmd.op = "CAS" /\ txn[t].cmd.ver = 0 => txn[t].cb = "cas_write_cb"
  /\ txn[t].cmd.op = "VDP_CREATE" =>
       txn[t].cb = "vdp_create_cb" /\ txn[t].cmd.seid = txn[t].seid
  /\ txn[t].cb \in ModCb \cup DelCb =>
       /\ txn[t].seid \in AcceptedSeids
       /\ txn[t].cmd # NoCmd => txn[t].cmd.seid = txn[t].seid
  /\ txn[t].cb = "del_vdp_cb" => txn[t].cmd.op = "VDP_DELETE"
  /\ \/ txn[t].cb = "del_vdp_cb" /\ txn[t].res = "ACCEPT"
     \/ txn[t].cb = "del_delete_cb"
     => vdp[txn[t].seid] = NULL
  /\ txn[t].cb = "del_delete_cb" =>
       txn[t].cmd.op = "DEL" /\ (txn[t].res = "OK" => sess[txn[t].seid].ver = 0)

(* What a modification in progress knows of the record.                    *)
ModOK(t) ==
  /\ txn[t].cb = "mod_cas_cb" =>
       /\ txn[t].ver # 0
       /\ txn[t].cmd = v_sess_cas_write(txn[t].seid, txn[t].ver, txn[t].cmd.ctx, FALSE)
       /\ txn[t].cmd.ctx.mods = Append(txn[t].impl.mods, txn[t].req)
       /\ txn[t].res = "none" /\ sess[txn[t].seid].ver = txn[t].ver =>
            sess[txn[t].seid].ctx.mods = txn[t].impl.mods
       /\ txn[t].res = "OK" => Wrote(t, txn[t].ver + 1)
  /\ txn[t].cb = "mod_vdp_cb" => Wrote(t, txn[t].ver)

WriteOK(t) ==
  txn[t].res = "none" /\ txn[t].cmd.op = "CAS" /\ txn[t].cmd.ver # 0 => UpdateOK(txn[t].cmd)

(* A command that nobody waits for: the one that creates a session, or its *)
(* rule, was left behind by a flow that ended, and there is no other.      *)
LeftOK(c) ==
  /\ c.op = "CAS" /\ c.ver = 0 =>
       /\ Abandoned(c.seid) /\ Creation(c, c.seid) /\ sess[c.seid].ver = 0
       /\ \A d \in bg : d.op = "CAS" /\ d.ver = 0 /\ d.seid = c.seid => d = c
  /\ c.op = "VDP_CREATE" => Abandoned(c.seid)
  /\ c.op = "CAS" /\ c.ver # 0 => UpdateOK(c)

(* An absent record is the empty one, and an unused SEID has none.         *)
AbsentIsEmpty ==
  \A s \in Seid :
    /\ sess[s].ver = 0 => sess[s] = NoSession
    /\ s \notin seidUsed => sess[s].ver = 0

(* The record has every modification that was or may yet be reported.      *)
ReportedApplied ==
  \A s \in Seid, m \in ModReq :
    sess[s].ver # 0 /\ Reported(m, s) => Contains(sess[s].ctx.mods, m)

(* Positive answers name sessions the SMF was told of.                     *)
AnswersKnown ==
  \A x \in tx : x.cause = "ACCEPTED" /\ x.req \in ModReq \cup DelReq => x.seid \in AcceptedSeids

(* The conjunction: what every transaction, every command left under way,  *)
(* every record and every reply satisfy.                                   *)
HistoryInv ==
  /\ \A t \in Txn : TxnOK(t) /\ ModOK(t) /\ WriteOK(t)
  /\ \A c \in bg : LeftOK(c)
  /\ AbsentIsEmpty /\ ReportedApplied /\ AnswersKnown /\ DeletedIsGone

=============================================================================
