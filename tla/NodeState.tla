----------------------------- MODULE NodeState -----------------------------
(***************************************************************************)
(* v_node_state.c: the Recovery Time Stamp and the SMF association of the  *)
(* UPF node, kept in Redis so that all its replicas show the same ones.    *)
(* Pods start, crash and restart at any time, as in a rolling update; a    *)
(* forced new timestamp marks a deliberate cold start.                     *)
(*                                                                         *)
(* time(NULL) is a clock of whole seconds that the pods share; it may tick *)
(* between any two steps.  The two keys may be on different shards, so     *)
(* each pod has a connection for either.                                   *)
(***************************************************************************)
EXTENDS Integers, Sequences, FiniteSets, Functions

CONSTANTS
  Pod,        \* replicas of the service
  Smf,        \* hashes of SMF node ids, positive
  PoolCap,    \* V_NODE_STATE_PENDING_POOL_CAP
  MaxClock,   \* bound: the last second of a behaviour
  MaxCalls,   \* bound: calls in a behaviour, main()'s load not counted
  MaxFail,    \* bound: crashes and broken connections in a behaviour
  Faults      \* the failures the environment may produce

ASSUME NodeAssumption ==
  /\ Smf \subseteq Nat \ {0}
  /\ {PoolCap, MaxClock} \subseteq Nat \ {0}
  /\ {MaxCalls, MaxFail} \subseteq Nat

ASSUME NodeFaultAssumption ==
  Faults \subseteq {"disconnect", "error"}

Conn == {"recovery", "assoc"}

(* Redis keeps the smf field when the association is cleared.              *)
AssocHash == [associated : {"nil", "0", "1"}, smf : Smf \cup {0}]

EmptyHash == [associated |-> "nil", smf |-> 0]

VARIABLES
  clock,        \* time(NULL)
  recovery,     \* Redis: upf:<nodeid>:recovery, 0 when the key is absent
  coldStarts,   \* how many forced timestamps Redis has stored
  assoc,        \* Redis: the hash upf:<nodeid>:assoc
  partner,      \* the SMF whose association is in force, 0 when none is
  phase,        \* of each pod: "down", "init", "loading" or "serving"
  node,         \* g_recovery_ts, g_recovery_ts_ready and where the value is from
  poolFree,     \* objects left in each pod's g_pool
  sent,         \* commands Redis has not run, per pod and connection
  replies,      \* replies on their way back
  late,         \* commands of broken connections that Redis may still run
  answered,     \* what a pod's last v_node_state_query_associated() told
  calls, fails

bounds == <<calls, fails>>
redis  == <<recovery, coldStarts, assoc, partner>>
vars   == <<clock, redis, phase, node, poolFree, sent, replies, late, answered, bounds>>

Op == {"LOAD", "FORCE", "SET", "CLEAR", "QUERY"}
Command == [op : Op, value : Nat]

(* A reply: its kind as recovery_reply_cb() and assoc_query_reply_cb() see *)
(* it, its content (for a query also the partner then), and the cold start *)
(* in which Redis answered.                                                *)
Reply ==
  [op : Op, kind : {"lost", "error", "status", "nil", "string", "array"},
   value : Nat, hash : AssocHash, era : Nat]

(* ts and ready as the code keeps them; era and from say which cold start  *)
(* the value belongs to and which kind of reply gave it.                   *)
NodeRecord ==
  [ts : Nat, ready : BOOLEAN, era : Nat,
   from : {"none", "error", "status", "nil", "string"}]

Unloaded == [ts |-> 0, ready |-> FALSE, era |-> 0, from |-> "none"]

(* What a query told, and the partner when Redis answered it.              *)
Answer == [status : {"none", "ERR", "OK"}, associated : BOOLEAN,
           smf : Nat, truth : Smf \cup {0}]

(* Types: the globals of v_node_state.c in every pod and its two keys.     *)
NodeTypeOK ==
  /\ clock \in 1 .. MaxClock /\ recovery \in 0 .. MaxClock
  /\ coldStarts \in Nat /\ assoc \in AssocHash /\ partner \in Smf \cup {0}
  /\ phase \in [Pod -> {"down", "init", "loading", "serving"}]
  /\ node \in [Pod -> NodeRecord]
  /\ poolFree \in [Pod -> 0 .. PoolCap]
  /\ sent \in [Pod -> [Conn -> Seq(Command)]]
  /\ replies \in [Pod -> [Conn -> Seq(Reply)]]
  /\ late \subseteq Command
  /\ answered \in [Pod -> Answer]
  /\ calls \in 0 .. MaxCalls
  /\ fails \in 0 .. MaxFail

ConnOf(op) == IF op \in {"LOAD", "FORCE"} THEN "recovery" ELSE "assoc"

NoAnswer == [status |-> "none", associated |-> FALSE, smf |-> 0, truth |-> 0]

-----------------------------------------------------------------------------
(* A pod's life.                                                           *)

(* No pod is up yet; Redis may hold what an earlier Deployment left.       *)
Init ==
  /\ clock = 1 /\ recovery \in {0, 1} /\ coldStarts = 0
  /\ partner \in Smf \cup {0}
  /\ assoc = IF partner = 0 THEN EmptyHash ELSE [associated |-> "1", smf |-> partner]
  /\ phase = [p \in Pod |-> "down"]
  /\ node = [p \in Pod |-> Unloaded]
  /\ poolFree = [p \in Pod |-> PoolCap]
  /\ sent = [p \in Pod |-> [c \in Conn |-> << >>]]
  /\ replies = [p \in Pod |-> [c \in Conn |-> << >>]]
  /\ late = {}
  /\ answered = [p \in Pod |-> NoAnswer]
  /\ calls = 0 /\ fails = 0

(* v_node_state_init(): a new pool, and no timestamp yet.                  *)
v_node_state_init(p) ==
  /\ phase[p] = "down"
  /\ phase' = [phase EXCEPT ![p] = "init"]
  /\ node' = [node EXCEPT ![p] = Unloaded]
  /\ poolFree' = [poolFree EXCEPT ![p] = PoolCap]
  /\ answered' = [answered EXCEPT ![p] = NoAnswer]
  /\ UNCHANGED <<clock, redis, sent, replies, late, bounds>>

(* pending_get() and v_port_db_cmd(): the object is put back when the      *)
(* command cannot be dispatched.  No caller looks at the return code.      *)
Issue(p, op, value) ==
  \/ /\ poolFree[p] > 0
     /\ sent' = [sent EXCEPT ![p][ConnOf(op)] =
                   Append(@, [op |-> op, value |-> value])]
     /\ poolFree' = [poolFree EXCEPT ![p] = @ - 1]
  \/ /\ poolFree[p] = 0 \/ "disconnect" \in Faults
     /\ UNCHANGED <<sent, poolFree>>

(* v_node_state_load_recovery_ts(), as main() calls it once.               *)
v_node_state_load_recovery_ts(p) ==
  /\ phase[p] = "init"
  /\ phase' = [phase EXCEPT ![p] = "loading"]
  /\ Issue(p, "LOAD", clock)
  /\ UNCHANGED <<clock, redis, node, replies, late, answered, bounds>>

(* main() waits for the timestamp, but not for ever: it launches the       *)
(* workers without one rather than give up.                                *)
wait_until(p) ==
  /\ phase[p] = "loading"
  /\ phase' = [phase EXCEPT ![p] = "serving"]
  /\ UNCHANGED <<clock, redis, node, poolFree, sent, replies, late, answered, bounds>>

(* v_node_state_force_new_recovery_ts(), from an operator's cold start.    *)
v_node_state_force_new_recovery_ts(p) ==
  /\ phase[p] = "serving" /\ calls < MaxCalls
  /\ calls' = calls + 1
  /\ Issue(p, "FORCE", clock)
  /\ UNCHANGED <<clock, redis, phase, node, replies, late, answered, fails>>

(* v_node_state_set_associated(), v_node_state_clear_associated() and      *)
(* v_node_state_query_associated(), from whichever pod the SMF reaches.    *)
AssociationCall(p, op, value) ==
  /\ phase[p] = "serving" /\ calls < MaxCalls
  /\ calls' = calls + 1
  /\ Issue(p, op, value)
  /\ UNCHANGED <<clock, redis, phase, node, replies, late, answered, fails>>

(* A crash, or v_node_state_fini(): everything in memory is gone, Redis    *)
(* may still run what was sent.                                            *)
Crash(p) ==
  /\ phase[p] # "down" /\ fails < MaxFail
  /\ fails' = fails + 1
  /\ phase' = [phase EXCEPT ![p] = "down"]
  /\ node' = [node EXCEPT ![p] = Unloaded]
  /\ poolFree' = [poolFree EXCEPT ![p] = PoolCap]
  /\ sent' = [sent EXCEPT ![p] = [c \in Conn |-> << >>]]
  /\ late' \in {late, late \cup UNION {Range(sent[p][c]) : c \in Conn}}
  /\ replies' = [replies EXCEPT ![p] = [c \in Conn |-> << >>]]
  /\ answered' = [answered EXCEPT ![p] = NoAnswer]
  /\ UNCHANGED <<clock, redis, calls>>

Tick ==
  /\ clock < MaxClock /\ clock' = clock + 1
  /\ UNCHANGED <<redis, phase, node, poolFree, sent, replies, late, answered, bounds>>

-----------------------------------------------------------------------------
(* Callbacks.                                                              *)

(* Mutant of Timestamp: the pod keeps its own time whatever Redis had.     *)
TimestampOwn(r) == clock

(* recovery_reply_cb(): a string is the value of an earlier start, and     *)
(* every other reply is taken for NIL, with the time of the reply.         *)
Timestamp(r) == IF r.kind = "string" THEN r.value ELSE clock

recovery_reply_cb(p, r) ==
  /\ node' = IF r.kind = "lost" THEN node
             ELSE [node EXCEPT ![p] = [ts |-> Timestamp(r), ready |-> TRUE,
                                       era |-> r.era, from |-> r.kind]]
  /\ UNCHANGED answered

(* Mutant of Told: a cleared association is told with its old SMF.         *)
ToldStale(r) ==
  IF r.kind # "array" THEN [NoAnswer EXCEPT !.status = "ERR"]
  ELSE [status |-> "OK", associated |-> r.hash.smf # 0, smf |-> r.hash.smf,
        truth |-> r.value]

(* assoc_query_reply_cb(): the smf field counts only while associated.     *)
Told(r) ==
  IF r.kind # "array" THEN [NoAnswer EXCEPT !.status = "ERR"]
  ELSE [status |-> "OK", associated |-> r.hash.associated = "1",
        smf |-> IF r.hash.associated = "1" THEN r.hash.smf ELSE 0,
        truth |-> r.value]

assoc_query_reply_cb(p, r) ==
  answered' = [answered EXCEPT ![p] = Told(r)] /\ UNCHANGED node

(* simple_ack_cb() only forwards the status.                               *)
simple_ack_cb(p, r) == UNCHANGED <<node, answered>>

(* Mutant of Released: a lost reply keeps its pending object.              *)
ReleasedUnlessLost(p, r) ==
  poolFree' = [poolFree EXCEPT ![p] = IF r.kind = "lost" THEN @ ELSE @ + 1]

(* Mutant of Released: a callback that meets an error puts it back twice.  *)
ReleasedTwice(p, r) ==
  poolFree' = [poolFree EXCEPT ![p] = IF r.kind = "error" THEN @ + 2 ELSE @ + 1]

(* Every callback puts its pending object back before anything else.       *)
Released(p, r) == poolFree' = [poolFree EXCEPT ![p] = @ + 1]

Callback(p, c) ==
  /\ replies[p][c] # << >>
  /\ replies' = [replies EXCEPT ![p][c] = Tail(@)]
  /\ LET r == Head(replies[p][c]) IN
       /\ Released(p, r)
       /\ \/ r.op \in {"LOAD", "FORCE"} /\ recovery_reply_cb(p, r)
          \/ r.op = "QUERY" /\ assoc_query_reply_cb(p, r)
          \/ r.op \in {"SET", "CLEAR"} /\ simple_ack_cb(p, r)
  /\ UNCHANGED <<clock, redis, phase, sent, late, bounds>>

-----------------------------------------------------------------------------
(* Redis.                                                                  *)

(* Mutant of Stored: SET without NX overwrites the timestamp.              *)
StoredAnyway(cmd) ==
  IF cmd.op \in {"LOAD", "FORCE"} THEN cmd.value ELSE recovery

(* The recovery key after a command: SET NX keeps a value that is there.   *)
Stored(cmd) ==
  IF cmd.op = "FORCE" \/ (cmd.op = "LOAD" /\ recovery = 0) THEN cmd.value
  ELSE recovery

(* The association hash after a command.                                   *)
Hash(cmd) ==
  CASE cmd.op = "SET"   -> [associated |-> "1", smf |-> cmd.value]
    [] cmd.op = "CLEAR" -> [assoc EXCEPT !.associated = "0"]
    [] OTHER            -> assoc

Run(cmd) ==
  /\ recovery' = Stored(cmd)
  /\ coldStarts' = IF cmd.op = "FORCE" THEN coldStarts + 1 ELSE coldStarts
  /\ assoc' = Hash(cmd)
  /\ partner' = CASE cmd.op = "SET"   -> cmd.value
                  [] cmd.op = "CLEAR" -> 0
                  [] OTHER            -> partner

(* The reply to a command that was run: SET NX GET returns the value that  *)
(* was there, HMGET both fields.                                           *)
ReplyTo(cmd) ==
  LET kind == CASE cmd.op = "LOAD" /\ recovery = 0 -> "nil"
                [] cmd.op = "LOAD" /\ recovery # 0 -> "string"
                [] cmd.op = "QUERY"                -> "array"
                [] OTHER                           -> "status"
  IN [op |-> cmd.op, kind |-> kind,
      era |-> IF cmd.op \in {"LOAD", "FORCE"} THEN coldStarts' ELSE 0,
      value |-> CASE kind = "string" -> recovery
                  [] kind = "array"  -> partner
                  [] OTHER           -> 0,
      hash |-> IF kind = "array" THEN assoc ELSE EmptyHash]

(* A reply without content: an error of Redis or, from hiredis, none.      *)
NoReply(op, kind) ==
  [op |-> op, kind |-> kind, value |-> 0, hash |-> EmptyHash, era |-> coldStarts]

(* One command of a pod is run, or answered with an error.                 *)
RedisExec(p, c) ==
  /\ sent[p][c] # << >>
  /\ sent' = [sent EXCEPT ![p][c] = Tail(@)]
  /\ LET cmd == Head(sent[p][c]) IN
       \/ /\ Run(cmd)
          /\ replies' = [replies EXCEPT ![p][c] = Append(@, ReplyTo(cmd))]
       \/ /\ "error" \in Faults
          /\ replies' = [replies EXCEPT ![p][c] = Append(@, NoReply(cmd.op, "error"))]
          /\ UNCHANGED redis
  /\ UNCHANGED <<clock, phase, node, poolFree, late, answered, bounds>>

(* A command of a connection that is gone reaches Redis after all.         *)
LateExec(cmd) ==
  /\ cmd \in late
  /\ late' = late \ {cmd}
  /\ Run(cmd)
  /\ UNCHANGED <<clock, phase, node, poolFree, sent, replies, answered, bounds>>

(* A connection breaks: the callbacks of all its outstanding commands run  *)
(* without a reply, whether Redis ran them or not.                         *)
Disconnect(p, c) ==
  /\ "disconnect" \in Faults /\ fails < MaxFail /\ fails' = fails + 1
  /\ sent[p][c] \o replies[p][c] # << >>
  /\ replies' = [replies EXCEPT ![p][c] =
       LET ops == [i \in DOMAIN replies[p][c] |-> replies[p][c][i].op]
                    \o [i \in DOMAIN sent[p][c] |-> sent[p][c][i].op]
       IN  [i \in DOMAIN ops |-> NoReply(ops[i], "lost")]]
  /\ sent' = [sent EXCEPT ![p][c] = << >>]
  /\ late' \in {late, late \cup Range(sent[p][c])}
  /\ UNCHANGED <<clock, redis, phase, node, poolFree, answered, calls>>

-----------------------------------------------------------------------------

Next ==
  \/ Tick
  \/ \E cmd \in late : LateExec(cmd)
  \/ \E p \in Pod :
       \/ v_node_state_init(p)
       \/ v_node_state_load_recovery_ts(p)
       \/ wait_until(p)
       \/ v_node_state_force_new_recovery_ts(p)
       \/ \E s \in Smf : AssociationCall(p, "SET", s)
       \/ AssociationCall(p, "CLEAR", 0)
       \/ AssociationCall(p, "QUERY", 0)
       \/ Crash(p)
       \/ \E c \in Conn : Callback(p, c) \/ RedisExec(p, c) \/ Disconnect(p, c)

Spec == Init /\ [][Next]_vars

-----------------------------------------------------------------------------
(* Properties.                                                             *)

(* v_node_state.h: the timestamp "must be identical across every replica": *)
(* two pods that have one from the same cold start have the same one.      *)
OneTimestamp ==
  \A p, q \in Pod :
    node[p].ready /\ node[q].ready /\ node[p].era = node[q].era
      => node[p].ts = node[q].ts

(* v_node_state_load_recovery_ts(): a pod that finds a timestamp adopts    *)
(* the one all later pods of that cold start will find, whatever crashes,  *)
(* restarts and racing loads come between.                                 *)
FoundIsShared ==
  \A p \in Pod :
    node[p].from = "string" =>
      /\ node[p].era = coldStarts => node[p].ts = recovery
      /\ \A q \in Pod : node[q].from = "string" /\ node[q].era = node[p].era
                          => node[q].ts = node[p].ts

(* recovery_reply_cb(): whatever the order of ticks, restarts, racing and  *)
(* late commands, a timestamp is never from the future and, unless Redis   *)
(* answered with an error, never older than the one stored in its era.     *)
NotBackdated ==
  \A p \in Pod :
    node[p].ready /\ node[p].era = coldStarts /\ node[p].from # "error"
      => node[p].ts <= clock /\ node[p].ts >= recovery

(* v_node_state_query_associated(): every pod, one that boots in the       *)
(* middle of an association too, is told the association that was in force *)
(* when Redis answered, and no SMF when there is none.                     *)
QueryTruth ==
  \A p \in Pod :
    answered[p].status = "OK" =>
      /\ answered[p].smf = answered[p].truth
      /\ answered[p].associated <=> answered[p].truth # 0

(* pending_get() and the callbacks: no pending object is lost or returned  *)
(* twice, in failures and restarts included.                               *)
NodePoolBaseline ==
  \A p \in Pod :
    poolFree[p] + Len(sent[p]["recovery"]) + Len(replies[p]["recovery"])
      + Len(sent[p]["assoc"]) + Len(replies[p]["assoc"]) = PoolCap
=============================================================================
