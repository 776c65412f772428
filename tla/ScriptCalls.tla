---------------------------- MODULE ScriptCalls ----------------------------
(***************************************************************************)
(* What v_db_evalsha() promises its callers, v_sess_store and v_id_alloc:  *)
(* an accepted call is answered exactly once, its script runs at most      *)
(* once, and a reply of Redis tells whether it ran.  A failure tells       *)
(* nothing: the script may have run, may run later, or never.              *)
(***************************************************************************)
EXTENDS Naturals

CONSTANT Call

VARIABLES
  accepted,   \* the return code: "none" before the call, "OK" or "ERR"
  answer,     \* what the callback was given, "none" before it
  ran         \* how often the script ran

vars == <<accepted, answer, ran>>

Open(c) == accepted[c] = "OK" /\ answer[c] = "none"

Init ==
  /\ accepted = [c \in Call |-> "none"]
  /\ answer = [c \in Call |-> "none"]
  /\ ran = [c \in Call |-> 0]

(* A refused call has no callback and no effect.                           *)
Refuse(c) ==
  /\ accepted[c] = "none"
  /\ accepted' = [accepted EXCEPT ![c] = "ERR"]
  /\ UNCHANGED <<answer, ran>>

(* An accepted one may already have failed when v_db_evalsha() returns.    *)
Accept(c) ==
  /\ accepted[c] = "none"
  /\ accepted' = [accepted EXCEPT ![c] = "OK"]
  /\ answer' \in {answer, [answer EXCEPT ![c] = "fail"]}
  /\ UNCHANGED ran

(* Redis runs the script, for a caller that waits or one that was told of  *)
(* a failure.                                                              *)
Run(c) ==
  /\ accepted[c] = "OK" /\ answer[c] \in {"none", "fail"} /\ ran[c] = 0
  /\ ran' = [ran EXCEPT ![c] = 1]
  /\ UNCHANGED <<accepted, answer>>

(* Redis's own reply, which says whether the script ran.                   *)
Report(c) ==
  /\ Open(c)
  /\ \E a \in IF ran[c] = 1 THEN {"ok"} ELSE {"error", "noscript"} :
       answer' = [answer EXCEPT ![c] = a]
  /\ UNCHANGED <<accepted, ran>>

(* A lost connection fails all the calls it carried, run or not.           *)
Fail(C) ==
  /\ \A c \in C : Open(c)
  /\ answer' = [c \in Call |-> IF c \in C THEN "fail" ELSE answer[c]]
  /\ UNCHANGED <<accepted, ran>>

Next ==
  \/ \E c \in Call : Refuse(c) \/ Accept(c) \/ Run(c) \/ Report(c)
  \/ \E C \in SUBSET Call : Fail(C)

(* Every open call is answered in the end.                                 *)
Fairness == \A c \in Call : WF_vars(Report(c) \/ Fail({c}))

Spec == Init /\ [][Next]_vars /\ Fairness
=============================================================================
