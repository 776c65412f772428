-------------------------- MODULE SessionRegistry --------------------------
(***************************************************************************)
(* What the pods together promise about the session records in Redis: each *)
(* session has one history.  It is created once, modifications are applied *)
(* to it one after the other, each to the outcome of the one before; only  *)
(* the most recent one can be taken back; and once it is gone it stays     *)
(* gone.                                                                   *)
(***************************************************************************)
EXTENDS Naturals, Sequences

CONSTANTS Seid, ModReq

VARIABLE reg    \* the history of each session

Phase == {"fresh", "pending", "confirmed", "gone"}

(* A session in a phase, with the modifications in effect, oldest first.   *)
Session(phase, mods) == [phase |-> phase, mods |-> mods]

Exists(s) == reg[s].phase \in {"pending", "confirmed"}

RegInit == reg = [s \in Seid |-> Session("fresh", << >>)]

Become(s, phase, mods) == reg' = [reg EXCEPT ![s] = Session(phase, mods)]

Create(s) == reg[s].phase = "fresh" /\ Become(s, "pending", << >>)

(* The SEID was handed out and no record will ever be written for it.      *)
Burn(s) == reg[s].phase = "fresh" /\ Become(s, "gone", << >>)

Confirm(s) == reg[s].phase = "pending" /\ Become(s, "confirmed", reg[s].mods)

Apply(s, m) == Exists(s) /\ Become(s, reg[s].phase, Append(reg[s].mods, m))

Undo(s) ==
  /\ Exists(s) /\ reg[s].mods # << >>
  /\ Become(s, reg[s].phase, SubSeq(reg[s].mods, 1, Len(reg[s].mods) - 1))

Remove(s) == Exists(s) /\ Become(s, "gone", << >>)

RegNext ==
  \E s \in Seid :
    \/ Create(s) \/ Burn(s) \/ Confirm(s) \/ Undo(s) \/ Remove(s)
    \/ \E m \in ModReq : Apply(s, m)

RegSpec == RegInit /\ [][RegNext]_reg

=============================================================================
