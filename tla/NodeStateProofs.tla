-------------------------- MODULE NodeStateProofs --------------------------
(***************************************************************************)
(* Proofs about NodeState for any number of pods and SMFs, any bounds and  *)
(* any set of failures: what a pod reads of the node's keys is what the    *)
(* cluster has, and no pending object is lost.                             *)
(*                                                                         *)
(* The queues of commands and replies matter only as sets: Unrun and       *)
(* Incoming say what they hold, a lemma per kind of step says how they     *)
(* change, and the invariant speaks of nothing else.                       *)
(***************************************************************************)
EXTENDS NodeState, TLAPS

RecoveryOp == {"LOAD", "FORCE"}

(* A command that Redis may still run.                                     *)
Unrun(cmd) ==
  \/ cmd \in late
  \/ \E p \in Pod, c \in Conn : \E i \in 1 .. Len(sent[p][c]) : sent[p][c][i] = cmd

(* A reply that some callback will be given.                               *)
Incoming(r) ==
  \E p \in Pod, c \in Conn : \E i \in 1 .. Len(replies[p][c]) : replies[p][c][i] = r

(* A pod that is down has nothing under way.                               *)
DownIsQuiet ==
  \A p \in Pod : phase[p] = "down" =>
    \A c \in Conn : sent[p][c] = << >> /\ replies[p][c] = << >>

(* A timestamp on its way is from the past, an SMF is one.                 *)
CommandOK(cmd) ==
  /\ cmd \in Command
  /\ cmd.op \in RecoveryOp => cmd.value \in 1 .. clock
  /\ cmd.op = "SET" => cmd.value \in Smf

(* The hash h tells that SMF s is associated, or for 0 that none is.       *)
Tells(h, s) ==
  /\ s \in Smf \cup {0}
  /\ h.associated = "1" <=> s # 0
  /\ s # 0 => h.smf = s

(* A value that was given by a reply of kind k in cold start e: the key    *)
(* exists since, and a string is its value for as long as e lasts.         *)
ValueOK(k, e, v) ==
  /\ e <= coldStarts
  /\ e = coldStarts /\ k \in {"nil", "status", "string"} => recovery # 0
  /\ e = coldStarts /\ k = "string" => v = recovery

ReplyOK(r) ==
  /\ r \in Reply
  /\ r.op \in RecoveryOp => r.kind # "array" /\ ValueOK(r.kind, r.era, r.value)
  /\ r.kind = "string" => r.op \in RecoveryOp /\ r.value <= clock
  /\ r.kind = "array" => Tells(r.hash, r.value)

NodeOK(n) ==
  /\ n.ready <=> n.from # "none"
  /\ n.ready => n.ts <= clock /\ ValueOK(n.from, n.era, n.ts)
  /\ n.from # "error" /\ n.era = coldStarts /\ n.ready => n.ts >= recovery

(* Some pod was or will be told that v is the timestamp of cold start e.   *)
Says(e, v) ==
  \/ \E p \in Pod : node[p].from = "string" /\ node[p].era = e /\ node[p].ts = v
  \/ \E r : Incoming(r) /\ r.kind = "string" /\ r.era = e /\ r.value = v

OneValuePerEra == \A e, v, w : Says(e, v) /\ Says(e, w) => v = w

(* The inductive invariant: the pods' memories, the connections and the    *)
(* two Redis keys agree.                                                   *)
NodeInv ==
  /\ NodeTypeOK /\ NodePoolBaseline /\ DownIsQuiet
  /\ recovery <= clock /\ Tells(assoc, partner)
  /\ \A cmd : Unrun(cmd) => CommandOK(cmd)
  /\ \A r : Incoming(r) => ReplyOK(r)
  /\ \A p \in Pod : NodeOK(node[p])
  /\ OneValuePerEra
  /\ QueryTruth

-----------------------------------------------------------------------------
(* How the queues change.                                                  *)

(* There are two connections, one for each key.                            *)
LEMMA ConnFacts ==
  /\ Conn = {"recovery", "assoc"} /\ "recovery" # "assoc"
  /\ \A op \in Op : ConnOf(op) \in Conn
BY DEF Conn, ConnOf

(* A function on 1 .. n is a sequence, and back.                           *)
LEMMA SeqFromFunction ==
  ASSUME NEW S, NEW n \in Nat, NEW f \in [1 .. n -> S]
  PROVE  f \in Seq(S) /\ Len(f) = n
OBVIOUS

(* What a sequence is as a function.                                       *)
LEMMA SeqIsFunction ==
  ASSUME NEW S, NEW s \in Seq(S)
  PROVE  DOMAIN s = 1 .. Len(s) /\ Len(s) \in Nat /\ \A i \in 1 .. Len(s) : s[i] \in S
OBVIOUS

(* The length of a concatenation.                                          *)
LEMMA LenConcat ==
  ASSUME NEW S, NEW s \in Seq(S), NEW t \in Seq(S)
  PROVE  s \o t \in Seq(S) /\ Len(s \o t) = Len(s) + Len(t)
OBVIOUS

(* A length is a number.                                                   *)
LEMMA LenNat == ASSUME NEW S, NEW s \in Seq(S) PROVE Len(s) \in Nat
OBVIOUS

(* One of several parts that add up to m is at most m.                     *)
LEMMA PoolBound ==
  \A f, a, b, c, d, m \in Nat : f + a + b + c + d = m => f \in 0 .. m
OBVIOUS

(* A step touches only connection k of pod p, ...                          *)
OnlyConn(p, k) ==
  /\ sent' \in [Pod -> [Conn -> Seq(Command)]]
  /\ replies' \in [Pod -> [Conn -> Seq(Reply)]]
  /\ poolFree' \in [Pod -> Nat]
  /\ \A q \in Pod : q # p => /\ sent'[q] = sent[q] /\ replies'[q] = replies[q]
                             /\ poolFree'[q] = poolFree[q]
  /\ \A c \in Conn : c # k => sent'[p][c] = sent[p][c] /\ replies'[p][c] = replies[p][c]

(* ... and what it takes from the pool it puts on that connection, and     *)
(* back: x objects, y commands and z replies more.                         *)
Moves(p, k, x, y, z) ==
  /\ poolFree'[p] = poolFree[p] + x
  /\ Len(sent'[p][k]) = Len(sent[p][k]) + y
  /\ Len(replies'[p][k]) = Len(replies[p][k]) + z
  /\ {x, y, z} \subseteq Int /\ x + y + z = 0

(* Such a step keeps every pool whole.                                     *)
LEMMA PoolStep ==
  ASSUME NodeTypeOK, NodePoolBaseline, NEW p \in Pod, NEW k \in Conn, OnlyConn(p, k),
         NEW x, NEW y, NEW z, Moves(p, k, x, y, z)
  PROVE  NodePoolBaseline' /\ poolFree' \in [Pod -> 0 .. PoolCap]
<1>1. ASSUME NEW q \in Pod, NEW c \in Conn
      PROVE  /\ Len(sent[q][c]) \in Nat /\ Len(replies[q][c]) \in Nat
             /\ Len(sent'[q][c]) \in Nat /\ Len(replies'[q][c]) \in Nat
  <2>1. sent[q][c] \in Seq(Command) /\ replies[q][c] \in Seq(Reply)
    BY DEF NodeTypeOK
  <2>2. sent'[q][c] \in Seq(Command) /\ replies'[q][c] \in Seq(Reply)
    BY DEF OnlyConn
  <2> QED
    BY <2>1, <2>2, LenNat
<1>2. ASSUME NEW q \in Pod PROVE poolFree[q] \in Nat /\ poolFree'[q] \in Nat
  BY DEF NodeTypeOK, OnlyConn
<1>3. "recovery" \in Conn /\ "assoc" \in Conn
  BY ConnFacts
<1>4. ASSUME NEW q \in Pod
      PROVE  poolFree'[q] + Len(sent'[q]["recovery"]) + Len(replies'[q]["recovery"])
               + Len(sent'[q]["assoc"]) + Len(replies'[q]["assoc"]) = PoolCap
  <2>1. poolFree[q] + Len(sent[q]["recovery"]) + Len(replies[q]["recovery"])
          + Len(sent[q]["assoc"]) + Len(replies[q]["assoc"]) = PoolCap
    BY DEF NodePoolBaseline
  <2>2. CASE q # p
    BY <2>1, <2>2 DEF OnlyConn
  <2>3. CASE q = p /\ k = "recovery"
    <3>1. sent'[p]["assoc"] = sent[p]["assoc"] /\ replies'[p]["assoc"] = replies[p]["assoc"]
      BY <2>3, ConnFacts DEF OnlyConn
    <3> DEFINE f == poolFree[p]
               a == Len(sent[p]["recovery"])
               b == Len(replies[p]["recovery"])
               c == Len(sent[p]["assoc"])
               d == Len(replies[p]["assoc"])
    <3>2. f \in Int /\ a \in Int /\ b \in Int /\ c \in Int /\ d \in Int
      BY <1>1, <1>2, <1>3
    <3>3. f + a + b + c + d = PoolCap
      BY <2>1, <2>3
    <3>4. x \in Int /\ y \in Int /\ z \in Int /\ x + y + z = 0
      BY DEF Moves
    <3> HIDE DEF f, a, b, c, d
    <3>5. (f + x) + (a + y) + (b + z) + c + d = PoolCap
      BY <3>2, <3>3, <3>4
    <3> QED
      BY <2>3, <3>1, <3>5 DEF Moves, f, a, b, c, d
  <2>4. CASE q = p /\ k = "assoc"
    <3>1. /\ sent'[p]["recovery"] = sent[p]["recovery"]
          /\ replies'[p]["recovery"] = replies[p]["recovery"]
      BY <2>4, ConnFacts DEF OnlyConn
    <3> DEFINE f == poolFree[p]
               a == Len(sent[p]["recovery"])
               b == Len(replies[p]["recovery"])
               c == Len(sent[p]["assoc"])
               d == Len(replies[p]["assoc"])
    <3>2. f \in Int /\ a \in Int /\ b \in Int /\ c \in Int /\ d \in Int
      BY <1>1, <1>2, <1>3
    <3>3. f + a + b + c + d = PoolCap
      BY <2>1, <2>4
    <3>4. x \in Int /\ y \in Int /\ z \in Int /\ x + y + z = 0
      BY DEF Moves
    <3> HIDE DEF f, a, b, c, d
    <3>5. (f + x) + a + b + (c + y) + (d + z) = PoolCap
      BY <3>2, <3>3, <3>4
    <3> QED
      BY <2>4, <3>1, <3>5 DEF Moves, f, a, b, c, d
  <2> QED
    BY <2>2, <2>3, <2>4, ConnFacts
<1>5. NodePoolBaseline'
  BY <1>4 DEF NodePoolBaseline
<1>6. ASSUME NEW q \in Pod PROVE poolFree'[q] \in 0 .. PoolCap
  <2>1. /\ poolFree'[q] \in Nat /\ PoolCap \in Nat
        /\ Len(sent'[q]["recovery"]) \in Nat /\ Len(replies'[q]["recovery"]) \in Nat
        /\ Len(sent'[q]["assoc"]) \in Nat /\ Len(replies'[q]["assoc"]) \in Nat
    BY <1>1, <1>2, <1>3, NodeAssumption
  <2> QED
    BY <1>4, <2>1, PoolBound
<1> QED
  BY <1>5, <1>6 DEF OnlyConn

(* A call that was dispatched is one more command, and nothing else moves. *)
LEMMA IssueFacts ==
  ASSUME NodeTypeOK, NodePoolBaseline, NEW p \in Pod, NEW op \in Op, NEW v \in Nat,
         Issue(p, op, v), UNCHANGED <<replies, late>>
  PROVE  /\ sent' \in [Pod -> [Conn -> Seq(Command)]]
         /\ poolFree' \in [Pod -> 0 .. PoolCap]
         /\ NodePoolBaseline'
         /\ \A cmd : Unrun(cmd)' => Unrun(cmd) \/ cmd = [op |-> op, value |-> v]
         /\ \A q \in Pod : q # p => sent'[q] = sent[q]
<1> DEFINE new == [op |-> op, value |-> v]
<1>1. new \in Command /\ ConnOf(op) \in Conn
  BY ConnFacts DEF Command
<1>2. CASE UNCHANGED <<sent, poolFree>>
  BY <1>2 DEF NodeTypeOK, NodePoolBaseline, Unrun
<1>3. CASE /\ poolFree[p] > 0
           /\ sent' = [sent EXCEPT ![p][ConnOf(op)] = Append(@, new)]
           /\ poolFree' = [poolFree EXCEPT ![p] = @ - 1]
  <2> DEFINE k == ConnOf(op)
  <2>1. sent \in [Pod -> [Conn -> Seq(Command)]] /\ sent[p][k] \in Seq(Command)
    BY <1>1 DEF NodeTypeOK
  <2>2. /\ Append(sent[p][k], new) \in Seq(Command)
        /\ Len(Append(sent[p][k], new)) = Len(sent[p][k]) + 1
        /\ \A i \in 1 .. Len(sent[p][k]) : Append(sent[p][k], new)[i] = sent[p][k][i]
        /\ Append(sent[p][k], new)[Len(sent[p][k]) + 1] = new
    BY <1>1, <2>1
  <2>3. /\ sent' \in [Pod -> [Conn -> Seq(Command)]]
        /\ sent'[p][k] = Append(sent[p][k], new)
        /\ \A c \in Conn : c # k => sent'[p][c] = sent[p][c]
        /\ \A q \in Pod : q # p => sent'[q] = sent[q]
    BY <1>1, <1>3, <2>1, <2>2
  <2>4. /\ poolFree' \in [Pod -> Nat] /\ poolFree'[p] = poolFree[p] + (-1)
        /\ \A q \in Pod : q # p => poolFree'[q] = poolFree[q]
    BY <1>3 DEF NodeTypeOK
  <2>5. NodePoolBaseline' /\ poolFree' \in [Pod -> 0 .. PoolCap]
    <3>1. OnlyConn(p, k)
      BY <1>1, <2>3, <2>4 DEF OnlyConn, NodeTypeOK
    <3>2. Moves(p, k, -1, 1, 0)
      BY <1>1, <2>2, <2>3, <2>4 DEF Moves, NodeTypeOK
    <3> QED
      BY <1>1, <3>1, <3>2, PoolStep
  <2>6. ASSUME NEW cmd, Unrun(cmd)' PROVE Unrun(cmd) \/ cmd = new
    <3>1. CASE cmd \in late
      BY <3>1 DEF Unrun
    <3>2. CASE cmd \notin late
      <4>1. PICK q \in Pod, c \in Conn : \E i \in 1 .. Len(sent'[q][c]) : sent'[q][c][i] = cmd
        BY <2>6, <3>2 DEF Unrun
      <4>2. PICK i \in 1 .. Len(sent'[q][c]) : sent'[q][c][i] = cmd
        BY <4>1
      <4>3. CASE q = p /\ c = k
        <5>1. i \in 1 .. Len(sent[p][k]) \/ i = Len(sent[p][k]) + 1
          BY <2>1, <2>2, <2>3, <4>2, <4>3
        <5> QED
          BY <1>1, <2>2, <2>3, <4>2, <4>3, <5>1 DEF Unrun
      <4>4. CASE ~(q = p /\ c = k)
        BY <2>3, <4>2, <4>4 DEF Unrun
      <4> QED
        BY <4>3, <4>4
    <3> QED
      BY <3>1, <3>2
  <2> QED
    BY <2>3, <2>5, <2>6
<1> QED
  BY <1>2, <1>3 DEF Issue

(* A command that is run leaves its connection and its reply is queued.    *)
AnswersWith(p, k, r) ==
  /\ sent[p][k] # << >>
  /\ sent' = [sent EXCEPT ![p][k] = Tail(@)]
  /\ replies' = [replies EXCEPT ![p][k] = Append(@, r)]
  /\ UNCHANGED <<poolFree, late>>

(* How the queues change when Redis answers a command with r.              *)
LEMMA ExecFacts ==
  ASSUME NodeTypeOK, NodePoolBaseline, NEW p \in Pod, NEW k \in Conn, NEW r \in Reply,
         AnswersWith(p, k, r)
  PROVE  /\ sent' \in [Pod -> [Conn -> Seq(Command)]]
         /\ replies' \in [Pod -> [Conn -> Seq(Reply)]]
         /\ NodePoolBaseline'
         /\ Unrun(Head(sent[p][k]))
         /\ \A cmd : Unrun(cmd)' => Unrun(cmd)
         /\ \A x : Incoming(x)' => Incoming(x) \/ x = r
         /\ \A q \in Pod : q # p => sent'[q] = sent[q] /\ replies'[q] = replies[q]
<1> DEFINE s == sent[p][k]
           t == replies[p][k]
<1>0. /\ s # << >> /\ sent' = [sent EXCEPT ![p][k] = Tail(@)]
      /\ replies' = [replies EXCEPT ![p][k] = Append(@, r)] /\ UNCHANGED <<poolFree, late>>
  BY DEF AnswersWith
<1>1. s \in Seq(Command) /\ t \in Seq(Reply)
  BY DEF NodeTypeOK
<1>2. /\ Len(s) >= 1 /\ Tail(s) \in Seq(Command) /\ Len(Tail(s)) = Len(s) - 1
      /\ \A i \in 1 .. Len(Tail(s)) : i + 1 \in 1 .. Len(s) /\ Tail(s)[i] = s[i + 1]
      /\ 1 \in 1 .. Len(s) /\ Head(s) = s[1]
  BY <1>0, <1>1
<1>3. /\ Append(t, r) \in Seq(Reply) /\ Len(Append(t, r)) = Len(t) + 1
      /\ \A i \in 1 .. Len(t) : Append(t, r)[i] = t[i]
      /\ Append(t, r)[Len(t) + 1] = r
  BY <1>1
<1>4. /\ sent' \in [Pod -> [Conn -> Seq(Command)]] /\ sent'[p][k] = Tail(s)
      /\ \A c \in Conn : c # k => sent'[p][c] = sent[p][c]
      /\ \A q \in Pod : q # p => sent'[q] = sent[q]
  BY <1>0, <1>2 DEF NodeTypeOK
<1>5. /\ replies' \in [Pod -> [Conn -> Seq(Reply)]] /\ replies'[p][k] = Append(t, r)
      /\ \A c \in Conn : c # k => replies'[p][c] = replies[p][c]
      /\ \A q \in Pod : q # p => replies'[q] = replies[q]
  BY <1>0, <1>3 DEF NodeTypeOK
<1>6. NodePoolBaseline'
  <2>1. OnlyConn(p, k)
    BY <1>0, <1>4, <1>5 DEF OnlyConn, NodeTypeOK
  <2>2. Moves(p, k, 0, -1, 1)
    BY <1>0, <1>1, <1>2, <1>3, <1>4, <1>5 DEF Moves, NodeTypeOK
  <2> QED
    BY <2>1, <2>2, PoolStep
<1>7. Unrun(Head(s))
  BY <1>2 DEF Unrun
<1>8. ASSUME NEW cmd, Unrun(cmd)' PROVE Unrun(cmd)
  <2>1. CASE cmd \in late
    BY <2>1 DEF Unrun
  <2>2. CASE cmd \notin late
    <3>1. PICK q \in Pod, c \in Conn : \E i \in 1 .. Len(sent'[q][c]) : sent'[q][c][i] = cmd
      BY <1>0, <1>8, <2>2 DEF Unrun
    <3>2. PICK i \in 1 .. Len(sent'[q][c]) : sent'[q][c][i] = cmd
      BY <3>1
    <3>3. CASE q = p /\ c = k
      <4>1. i + 1 \in 1 .. Len(s) /\ s[i + 1] = cmd
        BY <1>2, <1>4, <3>2, <3>3
      <4> QED
        BY <4>1 DEF Unrun
    <3>4. CASE ~(q = p /\ c = k)
      BY <1>4, <3>2, <3>4 DEF Unrun
    <3> QED
      BY <3>3, <3>4
  <2> QED
    BY <2>1, <2>2
<1>9. ASSUME NEW x, Incoming(x)' PROVE Incoming(x) \/ x = r
  <2>1. PICK q \in Pod, c \in Conn : \E i \in 1 .. Len(replies'[q][c]) : replies'[q][c][i] = x
    BY <1>9 DEF Incoming
  <2>2. PICK i \in 1 .. Len(replies'[q][c]) : replies'[q][c][i] = x
    BY <2>1
  <2>3. CASE q = p /\ c = k
    <3>1. i \in 1 .. Len(t) \/ i = Len(t) + 1
      BY <1>1, <1>3, <1>5, <2>2, <2>3
    <3> QED
      BY <1>3, <1>5, <2>2, <2>3, <3>1 DEF Incoming
  <2>4. CASE ~(q = p /\ c = k)
    BY <1>5, <2>2, <2>4 DEF Incoming
  <2> QED
    BY <2>3, <2>4
<1> QED
  BY <1>4, <1>5, <1>6, <1>7, <1>8, <1>9

(* A callback takes the first reply and puts its object back.              *)
LEMMA CallbackFacts ==
  ASSUME NodeTypeOK, NodePoolBaseline, NEW p \in Pod, NEW k \in Conn,
         replies[p][k] # << >>,
         replies' = [replies EXCEPT ![p][k] = Tail(@)],
         Released(p, Head(replies[p][k])), UNCHANGED sent
  PROVE  /\ replies' \in [Pod -> [Conn -> Seq(Reply)]]
         /\ poolFree' \in [Pod -> 0 .. PoolCap]
         /\ NodePoolBaseline'
         /\ Incoming(Head(replies[p][k]))
         /\ \A x : Incoming(x)' => Incoming(x)
         /\ \A q \in Pod : q # p => replies'[q] = replies[q]
<1> DEFINE t == replies[p][k]
<1>1. t \in Seq(Reply)
  BY DEF NodeTypeOK
<1>2. /\ Len(t) >= 1 /\ Tail(t) \in Seq(Reply) /\ Len(Tail(t)) = Len(t) - 1
      /\ \A i \in 1 .. Len(Tail(t)) : i + 1 \in 1 .. Len(t) /\ Tail(t)[i] = t[i + 1]
      /\ 1 \in 1 .. Len(t) /\ Head(t) = t[1]
  BY <1>1
<1>3. /\ replies' \in [Pod -> [Conn -> Seq(Reply)]] /\ replies'[p][k] = Tail(t)
      /\ \A c \in Conn : c # k => replies'[p][c] = replies[p][c]
      /\ \A q \in Pod : q # p => replies'[q] = replies[q]
  BY <1>2 DEF NodeTypeOK
<1>4. /\ poolFree' \in [Pod -> Nat] /\ poolFree'[p] = poolFree[p] + 1
      /\ \A q \in Pod : q # p => poolFree'[q] = poolFree[q]
  BY DEF NodeTypeOK, Released
<1>5. NodePoolBaseline' /\ poolFree' \in [Pod -> 0 .. PoolCap]
  <2>1. OnlyConn(p, k)
    BY <1>3, <1>4 DEF OnlyConn, NodeTypeOK
  <2>2. Moves(p, k, 1, 0, -1)
    BY <1>1, <1>2, <1>3, <1>4 DEF Moves, NodeTypeOK
  <2> QED
    BY <2>1, <2>2, PoolStep
<1>6. Incoming(Head(t))
  BY <1>2 DEF Incoming
<1>7. ASSUME NEW x, Incoming(x)' PROVE Incoming(x)
  <2>1. PICK q \in Pod, c \in Conn : \E i \in 1 .. Len(replies'[q][c]) : replies'[q][c][i] = x
    BY <1>7 DEF Incoming
  <2>2. PICK i \in 1 .. Len(replies'[q][c]) : replies'[q][c][i] = x
    BY <2>1
  <2>3. CASE q = p /\ c = k
    BY <1>2, <1>3, <2>2, <2>3 DEF Incoming
  <2>4. CASE ~(q = p /\ c = k)
    BY <1>3, <2>2, <2>4 DEF Incoming
  <2> QED
    BY <2>3, <2>4
<1> QED
  BY <1>3, <1>5, <1>6, <1>7

(* A connection that breaks turns what is outstanding into lost replies.   *)
LEMMA DisconnectFacts ==
  ASSUME NodeTypeOK, NodePoolBaseline, NEW p \in Pod, NEW k \in Conn, Disconnect(p, k)
  PROVE  /\ sent' \in [Pod -> [Conn -> Seq(Command)]]
         /\ replies' \in [Pod -> [Conn -> Seq(Reply)]]
         /\ NodePoolBaseline'
         /\ \A cmd : Unrun(cmd)' => Unrun(cmd)
         /\ \A x : Incoming(x)' => Incoming(x) \/ \E op \in Op : x = NoReply(op, "lost")
         /\ \A q \in Pod : q # p => sent'[q] = sent[q] /\ replies'[q] = replies[q]
<1> DEFINE s == sent[p][k]
           t == replies[p][k]
           u == [i \in DOMAIN t |-> t[i].op]
           v == [i \in DOMAIN s |-> s[i].op]
           ops == u \o v
           new == [i \in DOMAIN ops |-> NoReply(ops[i], "lost")]
<1>1. s \in Seq(Command) /\ t \in Seq(Reply)
  BY DEF NodeTypeOK
<1>2. u \in Seq(Op) /\ v \in Seq(Op) /\ Len(u) = Len(t) /\ Len(v) = Len(s)
  <2>1. /\ DOMAIN t = 1 .. Len(t) /\ Len(t) \in Nat /\ \A i \in 1 .. Len(t) : t[i] \in Reply
        /\ DOMAIN s = 1 .. Len(s) /\ Len(s) \in Nat /\ \A i \in 1 .. Len(s) : s[i] \in Command
    BY <1>1, SeqIsFunction
  <2>2. u \in [1 .. Len(t) -> Op] /\ v \in [1 .. Len(s) -> Op]
    BY <2>1 DEF Reply, Command
  <2> QED
    BY <2>1, <2>2, SeqFromFunction
<1>3. ops \in Seq(Op) /\ Len(ops) = Len(t) + Len(s)
  <2> HIDE DEF u, v
  <2>1. ops \in Seq(Op) /\ Len(ops) = Len(u) + Len(v)
    BY <1>2, LenConcat
  <2> HIDE DEF ops
  <2> QED
    BY <1>2, <2>1
<1>4. \A op \in Op : NoReply(op, "lost") \in Reply
  BY DEF NoReply, Reply, EmptyHash, AssocHash, NodeTypeOK
<1>5. /\ new \in Seq(Reply) /\ Len(new) = Len(t) + Len(s)
      /\ \A i \in 1 .. Len(new) : \E op \in Op : new[i] = NoReply(op, "lost")
  <2> HIDE DEF ops
  <2>1. DOMAIN ops = 1 .. Len(ops) /\ Len(ops) \in Nat /\ \A i \in 1 .. Len(ops) : ops[i] \in Op
    BY <1>3, SeqIsFunction
  <2>2. /\ new \in [1 .. Len(ops) -> Reply]
        /\ \A i \in 1 .. Len(ops) : new[i] = NoReply(ops[i], "lost")
    BY <1>4, <2>1
  <2>3. new \in Seq(Reply) /\ Len(new) = Len(ops)
    BY <2>1, <2>2, SeqFromFunction
  <2> QED
    BY <1>3, <2>1, <2>2, <2>3
<1> HIDE DEF new
<1>7. /\ replies' = [replies EXCEPT ![p][k] = new]
      /\ sent' = [sent EXCEPT ![p][k] = << >>]
      /\ late' = late \/ late' = late \cup Range(s)
      /\ UNCHANGED poolFree
  BY DEF Disconnect, new
<1>8. /\ sent' \in [Pod -> [Conn -> Seq(Command)]] /\ sent'[p][k] = << >>
      /\ \A c \in Conn : c # k => sent'[p][c] = sent[p][c]
      /\ \A q \in Pod : q # p => sent'[q] = sent[q]
  BY <1>7 DEF NodeTypeOK
<1>9. /\ replies' \in [Pod -> [Conn -> Seq(Reply)]] /\ replies'[p][k] = new
      /\ \A c \in Conn : c # k => replies'[p][c] = replies[p][c]
      /\ \A q \in Pod : q # p => replies'[q] = replies[q]
  BY <1>5, <1>7 DEF NodeTypeOK
<1>10. NodePoolBaseline'
  <2>1. OnlyConn(p, k)
    BY <1>7, <1>8, <1>9 DEF OnlyConn, NodeTypeOK
  <2>2. Moves(p, k, 0, -Len(s), Len(s))
    BY <1>1, <1>5, <1>7, <1>8, <1>9 DEF Moves, NodeTypeOK
  <2> QED
    BY <2>1, <2>2, PoolStep
<1>11. ASSUME NEW cmd, Unrun(cmd)' PROVE Unrun(cmd)
  <2>1. CASE cmd \in late'
    <3>1. cmd \in Range(s) => \E i \in 1 .. Len(s) : s[i] = cmd
      BY <1>1 DEF Range
    <3> QED
      BY <1>7, <2>1, <3>1 DEF Unrun
  <2>2. CASE cmd \notin late'
    <3>1. PICK q \in Pod, c \in Conn : \E i \in 1 .. Len(sent'[q][c]) : sent'[q][c][i] = cmd
      BY <1>11, <2>2 DEF Unrun
    <3>2. ~(q = p /\ c = k)
      BY <1>8, <3>1
    <3>3. sent'[q][c] = sent[q][c]
      BY <1>8, <3>2
    <3>4. \E i \in 1 .. Len(sent[q][c]) : sent[q][c][i] = cmd
      BY <3>1, <3>3
    <3> QED
      BY <3>4 DEF Unrun
  <2> QED
    BY <2>1, <2>2
<1>12. ASSUME NEW x, Incoming(x)'
       PROVE  Incoming(x) \/ \E op \in Op : x = NoReply(op, "lost")
  <2>1. PICK q \in Pod, c \in Conn : \E i \in 1 .. Len(replies'[q][c]) : replies'[q][c][i] = x
    BY <1>12 DEF Incoming
  <2>2. CASE q = p /\ c = k
    BY <1>5, <1>9, <2>1, <2>2
  <2>3. CASE ~(q = p /\ c = k)
    BY <1>9, <2>1, <2>3 DEF Incoming
  <2> QED
    BY <2>2, <2>3
<1> QED
  BY <1>8, <1>9, <1>10, <1>11, <1>12

(* A crash forgets a pod's queues; its commands may become late ones.      *)
LEMMA CrashFacts ==
  ASSUME NodeTypeOK, NodePoolBaseline, NEW p \in Pod, Crash(p)
  PROVE  /\ sent' \in [Pod -> [Conn -> Seq(Command)]]
         /\ replies' \in [Pod -> [Conn -> Seq(Reply)]]
         /\ poolFree' \in [Pod -> 0 .. PoolCap]
         /\ NodePoolBaseline'
         /\ \A cmd : Unrun(cmd)' => Unrun(cmd)
         /\ \A x : Incoming(x)' => Incoming(x)
         /\ \A c \in Conn : sent'[p][c] = << >> /\ replies'[p][c] = << >>
         /\ \A q \in Pod : q # p => sent'[q] = sent[q] /\ replies'[q] = replies[q]
<1>1. /\ sent' \in [Pod -> [Conn -> Seq(Command)]]
      /\ replies' \in [Pod -> [Conn -> Seq(Reply)]]
      /\ \A c \in Conn : sent'[p][c] = << >> /\ replies'[p][c] = << >>
      /\ \A q \in Pod : q # p => sent'[q] = sent[q] /\ replies'[q] = replies[q]
  BY DEF Crash, NodeTypeOK
<1>2. /\ poolFree' \in [Pod -> 0 .. PoolCap] /\ poolFree'[p] = PoolCap
      /\ \A q \in Pod : q # p => poolFree'[q] = poolFree[q]
  BY NodeAssumption DEF Crash, NodeTypeOK
<1>3. ASSUME NEW q \in Pod
      PROVE  poolFree'[q] + Len(sent'[q]["recovery"]) + Len(replies'[q]["recovery"])
               + Len(sent'[q]["assoc"]) + Len(replies'[q]["assoc"]) = PoolCap
  <2>1. CASE q = p
    <3>1. /\ sent'[p]["recovery"] = << >> /\ replies'[p]["recovery"] = << >>
          /\ sent'[p]["assoc"] = << >> /\ replies'[p]["assoc"] = << >>
      BY <1>1, ConnFacts
    <3>2. PoolCap + 0 + 0 + 0 + 0 = PoolCap
      BY NodeAssumption
    <3> QED
      BY <1>2, <2>1, <3>1, <3>2
  <2>2. CASE q # p
    BY <1>1, <1>2, <2>2 DEF NodePoolBaseline
  <2> QED
    BY <2>1, <2>2
<1>4. ASSUME NEW cmd, Unrun(cmd)' PROVE Unrun(cmd)
  <2>1. CASE cmd \in late
    BY <2>1 DEF Unrun
  <2>2. CASE cmd \in late' /\ cmd \notin late
    <3>1. PICK c \in Conn : cmd \in Range(sent[p][c])
      BY <2>2 DEF Crash
    <3>2. sent[p][c] \in Seq(Command)
      BY DEF NodeTypeOK
    <3>3. \E i \in 1 .. Len(sent[p][c]) : sent[p][c][i] = cmd
      BY <3>1, <3>2 DEF Range
    <3> QED
      BY <3>3 DEF Unrun
  <2>3. CASE cmd \notin late'
    <3>1. PICK q \in Pod, c \in Conn : \E i \in 1 .. Len(sent'[q][c]) : sent'[q][c][i] = cmd
      BY <1>4, <2>3 DEF Unrun
    <3>2. q # p
      BY <1>1, <3>1
    <3> QED
      BY <1>1, <3>1, <3>2 DEF Unrun
  <2> QED
    BY <2>1, <2>2, <2>3
<1>5. ASSUME NEW x, Incoming(x)' PROVE Incoming(x)
  <2>1. PICK q \in Pod, c \in Conn : \E i \in 1 .. Len(replies'[q][c]) : replies'[q][c][i] = x
    BY <1>5 DEF Incoming
  <2>2. q # p
    BY <1>1, <2>1
  <2> QED
    BY <1>1, <2>1, <2>2 DEF Incoming
<1> QED
  BY <1>1, <1>2, <1>3, <1>4, <1>5 DEF NodePoolBaseline

-----------------------------------------------------------------------------
(* What Redis does to the facts that travel.                               *)

(* What is true of a command, a reply or a pod's timestamp stays true when *)
(* time passes and Redis runs commands: within one cold start the key      *)
(* changes only when it is created, and whoever has a value knows it was.  *)
LEMMA FactsPersist ==
  ASSUME NodeInv, clock' \in clock .. MaxClock,
         UNCHANGED redis \/ \E cmd : CommandOK(cmd) /\ Run(cmd)
  PROVE  /\ recovery' \in 0 .. MaxClock /\ recovery' <= clock' /\ coldStarts' \in Nat
         /\ assoc' \in AssocHash /\ partner' \in Smf \cup {0} /\ Tells(assoc, partner)'
         /\ coldStarts' >= coldStarts
         /\ \A x : CommandOK(x) => CommandOK(x)'
         /\ \A x : ReplyOK(x) => ReplyOK(x)'
         /\ \A x \in NodeRecord : NodeOK(x) => NodeOK(x)'
<1>1. /\ clock \in 1 .. MaxClock /\ recovery \in 0 .. MaxClock /\ coldStarts \in Nat
      /\ assoc \in AssocHash /\ partner \in Smf \cup {0} /\ recovery <= clock
      /\ Tells(assoc, partner) /\ MaxClock \in Nat /\ Smf \subseteq Nat \ {0}
  BY NodeAssumption DEF NodeInv, NodeTypeOK
<1>2. /\ recovery' \in 0 .. MaxClock /\ recovery' <= clock' /\ coldStarts' \in Nat
      /\ coldStarts' >= coldStarts
      /\ coldStarts' = coldStarts /\ recovery # 0 => recovery' = recovery
  <2>1. CASE UNCHANGED redis
    BY <1>1, <2>1 DEF redis
  <2>2. ASSUME NEW cmd, CommandOK(cmd), Run(cmd)
        PROVE  <1>2!:
    BY <1>1, <2>2 DEF CommandOK, Run, Stored, RecoveryOp, Command, Op
  <2> QED
    BY <2>1, <2>2
<1>3. assoc' \in AssocHash /\ partner' \in Smf \cup {0} /\ Tells(assoc, partner)'
  <2>1. CASE UNCHANGED redis
    BY <1>1, <2>1 DEF redis, Tells
  <2>2. ASSUME NEW cmd, CommandOK(cmd), Run(cmd)
        PROVE  <1>3!:
    <3>1. CASE cmd.op = "SET"
      BY <1>1, <2>2, <3>1 DEF CommandOK, Run, Hash, AssocHash, Tells
    <3>2. CASE cmd.op = "CLEAR"
      BY <1>1, <2>2, <3>2 DEF CommandOK, Run, Hash, AssocHash, Tells
    <3>3. CASE cmd.op \notin {"SET", "CLEAR"}
      BY <1>1, <2>2, <3>3 DEF CommandOK, Run, Hash, Tells
    <3> QED
      BY <3>1, <3>2, <3>3
  <2> QED
    BY <2>1, <2>2
<1>4. \A x : CommandOK(x) => CommandOK(x)'
  BY <1>1 DEF CommandOK
<1>5. ASSUME NEW k, NEW e \in Nat, NEW v \in Nat, ValueOK(k, e, v) PROVE ValueOK(k, e, v)'
  BY <1>1, <1>2, <1>5 DEF ValueOK
<1>6. ASSUME NEW x, ReplyOK(x) PROVE ReplyOK(x)'
  BY <1>1, <1>5, <1>6 DEF ReplyOK, Reply, Tells
<1>7. ASSUME NEW x \in NodeRecord, NodeOK(x) PROVE NodeOK(x)'
  <2>1. x.ts \in Nat /\ x.era \in Nat /\ x.from \in {"none", "error", "status", "nil", "string"}
    BY DEF NodeRecord
  <2>2. x.ready => x.ts <= clock' /\ ValueOK(x.from, x.era, x.ts)'
    BY <1>1, <1>5, <1>7, <2>1 DEF NodeOK
  <2>3. x.from # "error" /\ x.era = coldStarts' /\ x.ready => x.ts >= recovery'
    BY <1>1, <1>2, <1>7, <2>1 DEF NodeOK, ValueOK
  <2> QED
    BY <1>7, <2>2, <2>3 DEF NodeOK
<1> QED
  BY <1>2, <1>3, <1>4, <1>6, <1>7

(* A string that Redis sends now agrees with all that were sent before.    *)
LEMMA EraStep ==
  ASSUME NodeInv,
         \A e, v : Says(e, v)' => Says(e, v) \/ (e = coldStarts /\ v = recovery)
  PROVE  OneValuePerEra'
<1>1. ASSUME NEW v, Says(coldStarts, v) PROVE v = recovery
  <2>1. CASE \E p \in Pod : node[p].from = "string" /\ node[p].era = coldStarts /\ node[p].ts = v
    BY <2>1 DEF NodeInv, NodeOK, ValueOK
  <2>2. CASE \E r : Incoming(r) /\ r.kind = "string" /\ r.era = coldStarts /\ r.value = v
    BY <2>2 DEF NodeInv, ReplyOK, ValueOK
  <2> QED
    BY <1>1, <2>1, <2>2 DEF Says
<1>2. \A e, v, w : Says(e, v) /\ Says(e, w) => v = w
  BY DEF NodeInv, OneValuePerEra
<1>3. \A e, v, w : Says(e, v)' /\ Says(e, w)' => v = w
  BY <1>1, <1>2
<1> QED
  BY <1>3 DEF OneValuePerEra

-----------------------------------------------------------------------------
(* One step per action.                                                    *)

(* Steps that leave Redis alone, send only what is right and give no pod a *)
(* new timestamp keep the facts that travel.                               *)
LEMMA QuietStep ==
  ASSUME NodeInv, clock' \in clock .. MaxClock, UNCHANGED redis,
         \A cmd : Unrun(cmd)' => Unrun(cmd) \/ CommandOK(cmd),
         \A x : Incoming(x)' =>
           Incoming(x) \/ \E op \in Op : x = NoReply(op, "lost") \/ x = NoReply(op, "error"),
         \A q \in Pod : node'[q] = node[q] \/ node'[q] = Unloaded
  PROVE  /\ recovery' \in 0 .. MaxClock /\ coldStarts' \in Nat
         /\ assoc' \in AssocHash /\ partner' \in Smf \cup {0}
         /\ recovery' <= clock' /\ Tells(assoc, partner)'
         /\ \A cmd : Unrun(cmd)' => CommandOK(cmd)'
         /\ \A r : Incoming(r)' => ReplyOK(r)'
         /\ \A q \in Pod : NodeOK(node[q])'
         /\ OneValuePerEra'
<1>1. /\ recovery' \in 0 .. MaxClock /\ recovery' <= clock' /\ coldStarts' \in Nat
      /\ assoc' \in AssocHash /\ partner' \in Smf \cup {0} /\ Tells(assoc, partner)'
      /\ \A x : CommandOK(x) => CommandOK(x)'
      /\ \A x : ReplyOK(x) => ReplyOK(x)'
      /\ \A x \in NodeRecord : NodeOK(x) => NodeOK(x)'
  BY FactsPersist
<1>2. \A cmd : Unrun(cmd)' => CommandOK(cmd)'
  BY <1>1 DEF NodeInv
<1>3. ASSUME NEW op \in Op, NEW x, x = NoReply(op, "lost") \/ x = NoReply(op, "error")
      PROVE  ReplyOK(x)' /\ x.kind # "string"
  <2>1. x \in Reply /\ x.kind \in {"lost", "error"} /\ x.era = coldStarts
    BY <1>3 DEF NoReply, Reply, EmptyHash, AssocHash, NodeInv, NodeTypeOK
  <2>2. coldStarts' = coldStarts /\ coldStarts \in Nat
    BY DEF redis, NodeInv, NodeTypeOK
  <2> QED
    BY <2>1, <2>2 DEF ReplyOK, ValueOK
<1>4. \A r : Incoming(r)' => ReplyOK(r)'
  BY <1>1, <1>3 DEF NodeInv
<1>5. ASSUME NEW q \in Pod PROVE NodeOK(node[q])'
  <2>1. CASE node'[q] = node[q]
    <3>1. node[q] \in NodeRecord /\ NodeOK(node[q])
      BY DEF NodeInv, NodeTypeOK
    <3>2. \A x \in NodeRecord : x = node[q] => NodeOK(x)'
      BY <1>1, <3>1
    <3> QED
      BY <2>1, <3>1, <3>2 DEF NodeOK, ValueOK
  <2>2. CASE node'[q] = Unloaded
    BY <2>2 DEF NodeOK, Unloaded
  <2> QED
    BY <2>1, <2>2
<1>6. ASSUME NEW e, NEW v, Says(e, v)' PROVE Says(e, v)
  <2>1. CASE \E q \in Pod : node'[q].from = "string" /\ node'[q].era = e /\ node'[q].ts = v
    BY <2>1 DEF Says, Unloaded
  <2>2. CASE \E r : Incoming(r)' /\ r.kind = "string" /\ r.era = e /\ r.value = v
    BY <1>3, <2>2 DEF Says
  <2> QED
    BY <1>6, <2>1, <2>2 DEF Says
<1>7. OneValuePerEra'
  BY <1>6, EraStep
<1> QED
  BY <1>1, <1>2, <1>4, <1>5, <1>7

(* The commands that outlive their connection are commands.                *)
LEMMA LateIsCommandNext ==
  ASSUME \A cmd : Unrun(cmd)' => CommandOK(cmd)' PROVE late' \subseteq Command
BY DEF Unrun, CommandOK

(* Time passes.                                                            *)
LEMMA TickStep == ASSUME NodeInv, Tick PROVE NodeInv'
<1>1. /\ clock' \in clock .. MaxClock /\ clock' \in 1 .. MaxClock
      /\ UNCHANGED <<redis, phase, node, poolFree, sent, replies, late, answered, bounds>>
  BY NodeAssumption DEF Tick, NodeInv, NodeTypeOK
<1>2. /\ \A cmd : Unrun(cmd)' => Unrun(cmd)
      /\ \A x : Incoming(x)' => Incoming(x)
  BY <1>1 DEF Unrun, Incoming
<1>3. /\ recovery' <= clock' /\ Tells(assoc, partner)'
      /\ \A cmd : Unrun(cmd)' => CommandOK(cmd)'
      /\ \A r : Incoming(r)' => ReplyOK(r)'
      /\ \A q \in Pod : NodeOK(node[q])'
      /\ OneValuePerEra'
  BY <1>1, <1>2, QuietStep
<1>4. NodeTypeOK'
  BY <1>1 DEF NodeInv, NodeTypeOK, redis, bounds
<1>5. NodePoolBaseline' /\ DownIsQuiet' /\ QueryTruth'
  BY <1>1 DEF NodeInv, NodePoolBaseline, DownIsQuiet, QueryTruth
<1> QED
  BY <1>3, <1>4, <1>5 DEF NodeInv

(* The wait of main() for the recovery timestamp ends.                     *)
LEMMA WaitStep == ASSUME NodeInv, NEW p \in Pod, wait_until(p) PROVE NodeInv'
<1>1. /\ clock' \in clock .. MaxClock /\ phase' \in [Pod -> {"down", "init", "loading", "serving"}]
      /\ \A q \in Pod : phase'[q] = "down" => phase[q] = "down"
      /\ UNCHANGED <<clock, redis, node, poolFree, sent, replies, late, answered, bounds>>
  BY NodeAssumption DEF wait_until, NodeInv, NodeTypeOK
<1>2. /\ \A cmd : Unrun(cmd)' => Unrun(cmd)
      /\ \A x : Incoming(x)' => Incoming(x)
  BY <1>1 DEF Unrun, Incoming
<1>3. /\ recovery' <= clock' /\ Tells(assoc, partner)'
      /\ \A cmd : Unrun(cmd)' => CommandOK(cmd)'
      /\ \A r : Incoming(r)' => ReplyOK(r)'
      /\ \A q \in Pod : NodeOK(node[q])'
      /\ OneValuePerEra'
  BY <1>1, <1>2, QuietStep
<1>4. NodeTypeOK'
  BY <1>1 DEF NodeInv, NodeTypeOK, redis, bounds
<1>5. NodePoolBaseline' /\ DownIsQuiet' /\ QueryTruth'
  BY <1>1 DEF NodeInv, NodePoolBaseline, DownIsQuiet, QueryTruth
<1> QED
  BY <1>3, <1>4, <1>5 DEF NodeInv

(* v_node_state_init() may make a new pool because a pod that was down has *)
(* nothing out of it.                                                      *)
LEMMA InitStep == ASSUME NodeInv, NEW p \in Pod, v_node_state_init(p) PROVE NodeInv'
<1>1. /\ clock' \in clock .. MaxClock /\ phase' \in [Pod -> {"down", "init", "loading", "serving"}]
      /\ \A q \in Pod : phase'[q] = "down" => phase[q] = "down"
      /\ UNCHANGED <<clock, redis, sent, replies, late, bounds>>
  BY NodeAssumption DEF v_node_state_init, NodeInv, NodeTypeOK
<1>2. /\ \A cmd : Unrun(cmd)' => Unrun(cmd)
      /\ \A x : Incoming(x)' => Incoming(x)
  BY <1>1 DEF Unrun, Incoming
<1>3. /\ node' \in [Pod -> NodeRecord]
      /\ \A q \in Pod : node'[q] = node[q] \/ node'[q] = Unloaded
  BY DEF v_node_state_init, NodeInv, NodeTypeOK, Unloaded, NodeRecord
<1>4. /\ recovery' <= clock' /\ Tells(assoc, partner)'
      /\ \A cmd : Unrun(cmd)' => CommandOK(cmd)'
      /\ \A r : Incoming(r)' => ReplyOK(r)'
      /\ \A q \in Pod : NodeOK(node[q])'
      /\ OneValuePerEra'
  BY <1>1, <1>2, <1>3, QuietStep
<1>5. poolFree' = poolFree
  <2>1. \A c \in Conn : sent[p][c] = << >> /\ replies[p][c] = << >>
    BY DEF v_node_state_init, NodeInv, DownIsQuiet
  <2>2. poolFree[p] + 0 + 0 + 0 + 0 = PoolCap
    BY <2>1, ConnFacts DEF NodeInv, NodePoolBaseline
  <2>3. poolFree[p] = PoolCap
    BY <2>2, NodeAssumption DEF NodeInv, NodeTypeOK
  <2> QED
    BY <2>3 DEF v_node_state_init, NodeInv, NodeTypeOK
<1>6. /\ answered' \in [Pod -> Answer]
      /\ \A q \in Pod : answered'[q] = answered[q] \/ answered'[q] = NoAnswer
  BY DEF v_node_state_init, NodeInv, NodeTypeOK, NoAnswer, Answer
<1>7. NodeTypeOK'
  BY <1>1, <1>3, <1>5, <1>6 DEF NodeInv, NodeTypeOK, redis, bounds
<1>8. QueryTruth'
  BY <1>6 DEF NodeInv, QueryTruth, NoAnswer
<1>9. NodePoolBaseline' /\ DownIsQuiet'
  BY <1>1, <1>5 DEF NodeInv, NodePoolBaseline, DownIsQuiet
<1> QED
  BY <1>4, <1>7, <1>8, <1>9 DEF NodeInv

(* Every call of v_node_state.h issues at most one command, a right one.   *)
LEMMA CallStep ==
  ASSUME NodeInv, NEW p \in Pod, NEW op \in Op, NEW v \in Nat,
         CommandOK([op |-> op, value |-> v]), phase[p] # "down", Issue(p, op, v),
         phase' \in [Pod -> {"down", "init", "loading", "serving"}],
         \A q \in Pod : phase'[q] = "down" => phase[q] = "down",
         calls' \in 0 .. MaxCalls,
         UNCHANGED <<clock, redis, node, replies, late, answered, fails>>
  PROVE  NodeInv'
<1>1. /\ sent' \in [Pod -> [Conn -> Seq(Command)]]
      /\ poolFree' \in [Pod -> 0 .. PoolCap]
      /\ NodePoolBaseline'
      /\ \A cmd : Unrun(cmd)' => Unrun(cmd) \/ cmd = [op |-> op, value |-> v]
      /\ \A q \in Pod : q # p => sent'[q] = sent[q]
  BY IssueFacts DEF NodeInv
<1>2. clock' \in clock .. MaxClock /\ UNCHANGED redis /\ \A q \in Pod : node'[q] = node[q]
  BY NodeAssumption DEF NodeInv, NodeTypeOK
<1>3. /\ \A cmd : Unrun(cmd)' => Unrun(cmd) \/ CommandOK(cmd)
      /\ \A x : Incoming(x)' => Incoming(x)
  BY <1>1 DEF Incoming
<1>4. /\ recovery' <= clock' /\ Tells(assoc, partner)'
      /\ \A cmd : Unrun(cmd)' => CommandOK(cmd)'
      /\ \A r : Incoming(r)' => ReplyOK(r)'
      /\ \A q \in Pod : NodeOK(node[q])'
      /\ OneValuePerEra'
  BY <1>2, <1>3, QuietStep
<1>5. NodeTypeOK'
  BY <1>1 DEF NodeInv, NodeTypeOK, redis
<1>6. DownIsQuiet'
  BY <1>1 DEF NodeInv, DownIsQuiet
<1>7. QueryTruth'
  BY DEF NodeInv, QueryTruth
<1> QED
  BY <1>1, <1>4, <1>5, <1>6, <1>7 DEF NodeInv

(* v_node_state_load_recovery_ts() preserves the invariant.                *)
LEMMA LoadStep ==
  ASSUME NodeInv, NEW p \in Pod, v_node_state_load_recovery_ts(p) PROVE NodeInv'
<1>1. "LOAD" \in Op /\ clock \in Nat /\ CommandOK([op |-> "LOAD", value |-> clock])
  BY DEF NodeInv, NodeTypeOK, CommandOK, Command, Op, RecoveryOp
<1>2. /\ phase[p] # "down" /\ phase' \in [Pod -> {"down", "init", "loading", "serving"}]
      /\ \A q \in Pod : phase'[q] = "down" => phase[q] = "down"
  BY DEF v_node_state_load_recovery_ts, NodeInv, NodeTypeOK
<1>3. /\ Issue(p, "LOAD", clock) /\ calls' \in 0 .. MaxCalls
      /\ UNCHANGED <<clock, redis, node, replies, late, answered, fails>>
  BY DEF v_node_state_load_recovery_ts, bounds, NodeInv, NodeTypeOK
<1> QED
  BY <1>1, <1>2, <1>3, CallStep

(* v_node_state_force_new_recovery_ts() preserves the invariant.           *)
LEMMA ForceStep ==
  ASSUME NodeInv, NEW p \in Pod, v_node_state_force_new_recovery_ts(p) PROVE NodeInv'
<1>1. "FORCE" \in Op /\ clock \in Nat /\ CommandOK([op |-> "FORCE", value |-> clock])
  BY DEF NodeInv, NodeTypeOK, CommandOK, Command, Op, RecoveryOp
<1>2. /\ phase[p] # "down" /\ phase' \in [Pod -> {"down", "init", "loading", "serving"}]
      /\ \A q \in Pod : phase'[q] = "down" => phase[q] = "down"
  BY DEF v_node_state_force_new_recovery_ts, NodeInv, NodeTypeOK
<1>3. /\ Issue(p, "FORCE", clock) /\ calls' \in 0 .. MaxCalls
      /\ UNCHANGED <<clock, redis, node, replies, late, answered, fails>>
  BY NodeAssumption DEF v_node_state_force_new_recovery_ts, NodeInv, NodeTypeOK
<1> QED
  BY <1>1, <1>2, <1>3, CallStep

(* The calls on the association preserve the invariant.                    *)
LEMMA AssociationStep ==
  ASSUME NodeInv, NEW p \in Pod, NEW op \in {"SET", "CLEAR", "QUERY"}, NEW v \in Smf \cup {0},
         op = "SET" => v \in Smf, AssociationCall(p, op, v)
  PROVE  NodeInv'
<1>1. op \in Op /\ v \in Nat /\ CommandOK([op |-> op, value |-> v])
  BY NodeAssumption DEF CommandOK, Command, Op, RecoveryOp
<1>2. /\ phase[p] # "down" /\ phase' \in [Pod -> {"down", "init", "loading", "serving"}]
      /\ \A q \in Pod : phase'[q] = "down" => phase[q] = "down"
  BY DEF AssociationCall, NodeInv, NodeTypeOK
<1>3. /\ Issue(p, op, v) /\ calls' \in 0 .. MaxCalls
      /\ UNCHANGED <<clock, redis, node, replies, late, answered, fails>>
  BY NodeAssumption DEF AssociationCall, NodeInv, NodeTypeOK
<1> QED
  BY <1>1, <1>2, <1>3, CallStep

(* A crash loses the memory of a pod and leaves its commands on their way. *)
LEMMA CrashStep == ASSUME NodeInv, NEW p \in Pod, Crash(p) PROVE NodeInv'
<1>1. /\ sent' \in [Pod -> [Conn -> Seq(Command)]]
      /\ replies' \in [Pod -> [Conn -> Seq(Reply)]]
      /\ poolFree' \in [Pod -> 0 .. PoolCap]
      /\ NodePoolBaseline'
      /\ \A cmd : Unrun(cmd)' => Unrun(cmd)
      /\ \A x : Incoming(x)' => Incoming(x)
      /\ \A c \in Conn : sent'[p][c] = << >> /\ replies'[p][c] = << >>
      /\ \A q \in Pod : q # p => sent'[q] = sent[q] /\ replies'[q] = replies[q]
  BY CrashFacts DEF NodeInv
<1>2. /\ clock' \in clock .. MaxClock /\ UNCHANGED <<clock, redis, calls>>
      /\ fails' \in 0 .. MaxFail
      /\ phase' \in [Pod -> {"down", "init", "loading", "serving"}]
      /\ \A q \in Pod : q # p => phase'[q] = phase[q]
  BY NodeAssumption DEF Crash, NodeInv, NodeTypeOK
<1>3. /\ node' \in [Pod -> NodeRecord]
      /\ \A q \in Pod : node'[q] = node[q] \/ node'[q] = Unloaded
  BY DEF Crash, NodeInv, NodeTypeOK, Unloaded, NodeRecord
<1>4. /\ recovery' <= clock' /\ Tells(assoc, partner)'
      /\ \A cmd : Unrun(cmd)' => CommandOK(cmd)'
      /\ \A r : Incoming(r)' => ReplyOK(r)'
      /\ \A q \in Pod : NodeOK(node[q])'
      /\ OneValuePerEra'
  BY <1>1, <1>2, <1>3, QuietStep
<1>5. /\ answered' \in [Pod -> Answer]
      /\ \A q \in Pod : answered'[q] = answered[q] \/ answered'[q] = NoAnswer
  BY DEF Crash, NodeInv, NodeTypeOK, NoAnswer, Answer
<1>6. NodeTypeOK'
  <2>1. late' \subseteq Command
    BY <1>4, LateIsCommandNext
  <2>2. NodeTypeOK
    BY DEF NodeInv
  <2> QED
    BY <1>1, <1>2, <1>3, <1>5, <2>1, <2>2 DEF NodeTypeOK, redis
<1>7. QueryTruth'
  BY <1>5 DEF NodeInv, QueryTruth, NoAnswer
<1>8. DownIsQuiet'
  BY <1>1, <1>2 DEF NodeInv, DownIsQuiet
<1> QED
  BY <1>1, <1>4, <1>6, <1>7, <1>8 DEF NodeInv

(* A lost connection ends its commands with an error.                      *)
LEMMA DisconnectStep ==
  ASSUME NodeInv, NEW p \in Pod, NEW k \in Conn, Disconnect(p, k) PROVE NodeInv'
<1>1. /\ sent' \in [Pod -> [Conn -> Seq(Command)]]
      /\ replies' \in [Pod -> [Conn -> Seq(Reply)]]
      /\ NodePoolBaseline'
      /\ \A cmd : Unrun(cmd)' => Unrun(cmd)
      /\ \A x : Incoming(x)' => Incoming(x) \/ \E op \in Op : x = NoReply(op, "lost")
      /\ \A q \in Pod : q # p => sent'[q] = sent[q] /\ replies'[q] = replies[q]
  BY DisconnectFacts DEF NodeInv
<1>2. /\ clock' \in clock .. MaxClock /\ fails' \in 0 .. MaxFail
      /\ UNCHANGED <<clock, redis, phase, node, poolFree, answered, calls>>
  BY NodeAssumption DEF Disconnect, NodeInv, NodeTypeOK
<1>3. /\ recovery' <= clock' /\ Tells(assoc, partner)'
      /\ \A cmd : Unrun(cmd)' => CommandOK(cmd)'
      /\ \A r : Incoming(r)' => ReplyOK(r)'
      /\ \A q \in Pod : NodeOK(node[q])'
      /\ OneValuePerEra'
  BY <1>1, <1>2, QuietStep
<1>4. NodeTypeOK'
  BY <1>1, <1>2, <1>3, LateIsCommandNext DEF NodeInv, NodeTypeOK, redis
<1>5. QueryTruth'
  BY <1>2 DEF NodeInv, QueryTruth
<1>6. DownIsQuiet'
  <2>1. phase[p] # "down"
    <3>1. sent[p][k] \o replies[p][k] # << >>
      BY DEF Disconnect
    <3>2. << >> \o << >> = << >>
      OBVIOUS
    <3> QED
      BY <3>1, <3>2 DEF NodeInv, DownIsQuiet
  <2> QED
    BY <1>1, <1>2, <2>1 DEF NodeInv, DownIsQuiet
<1> QED
  BY <1>1, <1>3, <1>4, <1>5, <1>6 DEF NodeInv

(* A callback gives its pod what the reply says; the time it takes for an  *)
(* answer without a value is later than every value in Redis.              *)
LEMMA CallbackStep ==
  ASSUME NodeInv, NEW p \in Pod, NEW k \in Conn, Callback(p, k) PROVE NodeInv'
<1> DEFINE r == Head(replies[p][k])
<1>1. /\ replies' \in [Pod -> [Conn -> Seq(Reply)]]
      /\ poolFree' \in [Pod -> 0 .. PoolCap]
      /\ NodePoolBaseline'
      /\ Incoming(r)
      /\ \A x : Incoming(x)' => Incoming(x)
      /\ \A q \in Pod : q # p => replies'[q] = replies[q]
  <2>1. /\ replies[p][k] # << >> /\ replies' = [replies EXCEPT ![p][k] = Tail(@)]
        /\ Released(p, Head(replies[p][k])) /\ UNCHANGED sent
    BY DEF Callback
  <2> QED
    BY <2>1, CallbackFacts DEF NodeInv
<1>2. /\ UNCHANGED <<clock, redis, phase, sent, late, bounds>> /\ replies[p][k] # << >>
      /\ \/ r.op \in {"LOAD", "FORCE"} /\ recovery_reply_cb(p, r)
         \/ r.op = "QUERY" /\ assoc_query_reply_cb(p, r)
         \/ r.op \in {"SET", "CLEAR"} /\ simple_ack_cb(p, r)
  BY DEF Callback
<1>3. ReplyOK(r) /\ r \in Reply
  BY <1>1 DEF NodeInv, ReplyOK
<1> HIDE DEF r
<1>4. clock' \in clock .. MaxClock /\ clock \in Nat
  BY <1>2, NodeAssumption DEF NodeInv, NodeTypeOK
<1>5. /\ recovery' <= clock' /\ Tells(assoc, partner)'
      /\ \A x : CommandOK(x) => CommandOK(x)'
      /\ \A x : ReplyOK(x) => ReplyOK(x)'
      /\ \A x \in NodeRecord : NodeOK(x) => NodeOK(x)'
  BY <1>2, <1>4, FactsPersist
<1>6. \A cmd : Unrun(cmd)' => CommandOK(cmd)'
  BY <1>2, <1>5 DEF NodeInv, Unrun
<1>7. \A x : Incoming(x)' => ReplyOK(x)'
  BY <1>1, <1>5 DEF NodeInv
<1> DEFINE n == [ts |-> Timestamp(r), ready |-> TRUE, era |-> r.era, from |-> r.kind]
<1>8. node' = node \/ (r.op \in RecoveryOp /\ r.kind # "lost" /\ node' = [node EXCEPT ![p] = n])
  BY <1>2 DEF recovery_reply_cb, assoc_query_reply_cb, simple_ack_cb, RecoveryOp
<1>9. ASSUME r.op \in RecoveryOp, r.kind # "lost"
      PROVE  n \in NodeRecord /\ NodeOK(n)
  <2>1. /\ r.kind \in {"error", "status", "nil", "string"} /\ r.era \in Nat /\ r.value \in Nat
        /\ ValueOK(r.kind, r.era, r.value)
    BY <1>3, <1>9 DEF ReplyOK, Reply
  <2>2. Timestamp(r) \in Nat /\ (r.kind # "string" => Timestamp(r) = clock)
        /\ (r.kind = "string" => Timestamp(r) = r.value)
    BY <1>4, <2>1 DEF Timestamp
  <2>3. n \in NodeRecord
    BY <2>1, <2>2 DEF NodeRecord
  <2>4. Timestamp(r) <= clock
    BY <1>3, <1>4, <2>2 DEF ReplyOK
  <2> QED
    BY <2>1, <2>2, <2>3, <2>4, <1>4 DEF NodeOK, ValueOK, NodeInv, NodeTypeOK
<1> HIDE DEF n
<1>10. node' \in [Pod -> NodeRecord] /\ \A q \in Pod : node'[q] = node[q] \/ (q = p /\ node'[q] = n)
  BY <1>8, <1>9 DEF NodeInv, NodeTypeOK
<1>11. ASSUME NEW q \in Pod PROVE NodeOK(node[q])'
  <2>1. node'[q] \in NodeRecord /\ NodeOK(node'[q])
    <3>1. CASE node'[q] = node[q]
      BY <3>1 DEF NodeInv, NodeTypeOK
    <3>2. CASE node'[q] # node[q]
      BY <1>8, <1>9, <1>10, <3>2
    <3> QED
      BY <3>1, <3>2
  <2>2. \A x \in NodeRecord : x = node'[q] => NodeOK(x)'
    BY <1>5, <2>1
  <2> QED
    BY <2>1, <2>2 DEF NodeOK, ValueOK
<1>12. OneValuePerEra'
  <2>1. ASSUME NEW e, NEW v, Says(e, v)' PROVE Says(e, v)
    <3>1. CASE \E q \in Pod : node'[q].from = "string" /\ node'[q].era = e /\ node'[q].ts = v
      <4>1. PICK q \in Pod : node'[q].from = "string" /\ node'[q].era = e /\ node'[q].ts = v
        BY <3>1
      <4>2. CASE node'[q] = node[q]
        BY <4>1, <4>2 DEF Says
      <4>3. CASE node'[q] = n
        <5>1. r.kind = "string" /\ r.era = e /\ r.value = v
          BY <4>1, <4>3 DEF n, Timestamp
        <5> QED
          BY <1>1, <5>1 DEF Says, r
      <4> QED
        BY <1>10, <4>2, <4>3
    <3>2. CASE \E x : Incoming(x)' /\ x.kind = "string" /\ x.era = e /\ x.value = v
      BY <1>1, <3>2 DEF Says
    <3> QED
      BY <2>1, <3>1, <3>2 DEF Says
  <2> QED
    BY <2>1, EraStep
<1>13. answered' = answered \/ answered' = [answered EXCEPT ![p] = Told(r)]
  BY <1>2 DEF recovery_reply_cb, assoc_query_reply_cb, simple_ack_cb
<1>14. /\ Told(r) \in Answer
       /\ Told(r).status = "OK" =>
            Told(r).smf = Told(r).truth /\ (Told(r).associated <=> Told(r).truth # 0)
  <2>1. CASE r.kind # "array"
    BY <2>1 DEF Told, NoAnswer, Answer
  <2>2. CASE r.kind = "array"
    <3>1. Tells(r.hash, r.value) /\ r.hash.smf \in Nat /\ r.value \in Smf \cup {0}
      BY <1>3, <2>2, NodeAssumption DEF ReplyOK, Reply, AssocHash, Tells
    <3> QED
      BY <2>2, <3>1 DEF Told, Answer, Tells
  <2> QED
    BY <2>1, <2>2
<1>15. answered' \in [Pod -> Answer] /\ QueryTruth'
  BY <1>13, <1>14 DEF NodeInv, NodeTypeOK, QueryTruth
<1>16. NodeTypeOK'
  BY <1>1, <1>2, <1>10, <1>15 DEF NodeInv, NodeTypeOK, redis, bounds
<1>17. DownIsQuiet'
  BY <1>1, <1>2 DEF NodeInv, DownIsQuiet
<1> QED
  BY <1>1, <1>5, <1>6, <1>7, <1>11, <1>12, <1>15, <1>16, <1>17 DEF NodeInv

(* A reply says what was true when Redis ran the command.                  *)
LEMMA ReplyToFacts ==
  ASSUME NodeInv, NEW cmd, CommandOK(cmd), Run(cmd), UNCHANGED clock, NEW r, r = ReplyTo(cmd)
  PROVE  /\ r \in Reply /\ ReplyOK(r)'
         /\ r.kind = "string" => r.era = coldStarts /\ r.value = recovery
<1>1. /\ clock \in Nat /\ recovery \in Nat /\ coldStarts \in Nat /\ recovery <= clock
      /\ assoc \in AssocHash /\ partner \in Nat /\ Tells(assoc, partner)
  BY NodeAssumption DEF NodeInv, NodeTypeOK
<1>2. cmd.op \in Op /\ cmd.value \in Nat /\ (cmd.op \in RecoveryOp => cmd.value \in 1 .. clock)
  BY DEF CommandOK, Command
<1>3. EmptyHash \in AssocHash
  BY DEF EmptyHash, AssocHash
<1>4. CASE cmd.op = "LOAD"
  <2>1. coldStarts' = coldStarts /\ recovery' = IF recovery = 0 THEN cmd.value ELSE recovery
    BY <1>4 DEF Run, Stored
  <2>2. CASE recovery = 0
    <3>1. r = [op |-> "LOAD", kind |-> "nil", era |-> coldStarts, value |-> 0,
                          hash |-> EmptyHash]
      BY <1>4, <2>1, <2>2 DEF ReplyTo
    <3> QED
      BY <1>1, <1>2, <1>3, <1>4, <2>1, <2>2, <3>1
         DEF ReplyOK, ValueOK, Reply, Op, RecoveryOp
  <2>3. CASE recovery # 0
    <3>1. r = [op |-> "LOAD", kind |-> "string", era |-> coldStarts,
                          value |-> recovery, hash |-> EmptyHash]
      BY <1>4, <2>1, <2>3 DEF ReplyTo
    <3> QED
      BY <1>1, <1>3, <1>4, <2>1, <2>3, <3>1
         DEF ReplyOK, ValueOK, Reply, Op, RecoveryOp
  <2> QED
    BY <2>2, <2>3
<1>5. CASE cmd.op = "FORCE"
  <2>1. coldStarts' = coldStarts + 1 /\ recovery' = cmd.value
    BY <1>5 DEF Run, Stored
  <2>2. r = [op |-> "FORCE", kind |-> "status", era |-> coldStarts + 1, value |-> 0,
                        hash |-> EmptyHash]
    BY <1>5, <2>1 DEF ReplyTo
  <2> QED
    BY <1>1, <1>2, <1>3, <1>5, <2>1, <2>2 DEF ReplyOK, ValueOK, Reply, Op, RecoveryOp
<1>6. CASE cmd.op = "QUERY"
  <2>1. r = [op |-> "QUERY", kind |-> "array", era |-> 0, value |-> partner,
                        hash |-> assoc]
    BY <1>6 DEF ReplyTo
  <2> QED
    BY <1>1, <1>6, <2>1 DEF ReplyOK, Reply, Op, RecoveryOp, Tells
<1>7. CASE cmd.op \in {"SET", "CLEAR"}
  <2>1. r = [op |-> cmd.op, kind |-> "status", era |-> 0, value |-> 0,
                        hash |-> EmptyHash]
    BY <1>7 DEF ReplyTo
  <2> QED
    BY <1>1, <1>2, <1>3, <1>7, <2>1 DEF ReplyOK, Reply, Op, RecoveryOp
<1> QED
  BY <1>2, <1>4, <1>5, <1>6, <1>7 DEF Op

(* Redis runs the oldest command of a connection.                          *)
LEMMA ExecStep ==
  ASSUME NodeInv, NEW p \in Pod, NEW k \in Conn, RedisExec(p, k) PROVE NodeInv'
<1> DEFINE cmd == Head(sent[p][k])
<1>1. /\ sent[p][k] # << >>
      /\ sent' = [sent EXCEPT ![p][k] = Tail(@)]
      /\ UNCHANGED <<clock, phase, node, poolFree, late, answered, bounds>>
  BY DEF RedisExec
<1>2. CommandOK(cmd) /\ cmd.op \in Op
  <2>1. sent[p][k] \in Seq(Command)
    BY DEF NodeInv, NodeTypeOK
  <2>2. 1 \in 1 .. Len(sent[p][k]) /\ cmd = sent[p][k][1]
    BY <1>1, <2>1
  <2>3. Unrun(cmd)
    BY <2>2 DEF Unrun
  <2> QED
    BY <2>3 DEF NodeInv, CommandOK, Command
<1> HIDE DEF cmd
<1>3. PICK r : /\ replies' = [replies EXCEPT ![p][k] = Append(@, r)]
               /\ \/ Run(cmd) /\ r = ReplyTo(cmd)
                  \/ UNCHANGED redis /\ r = NoReply(cmd.op, "error")
  <2>1. \/ Run(cmd) /\ replies' = [replies EXCEPT ![p][k] = Append(@, ReplyTo(cmd))]
        \/ /\ replies' = [replies EXCEPT ![p][k] = Append(@, NoReply(cmd.op, "error"))]
           /\ UNCHANGED redis
    BY DEF RedisExec, cmd
  <2> QED
    BY <2>1
<1>4. /\ r \in Reply /\ ReplyOK(r)'
      /\ r.kind = "string" => r.era = coldStarts /\ r.value = recovery
  <2>1. CASE Run(cmd) /\ r = ReplyTo(cmd)
    BY <1>1, <1>2, <2>1, ReplyToFacts
  <2>2. CASE UNCHANGED redis /\ r = NoReply(cmd.op, "error")
    <3>1. r \in Reply /\ r.kind = "error" /\ r.era = coldStarts
      BY <1>2, <2>2 DEF NoReply, Reply, EmptyHash, AssocHash, NodeInv, NodeTypeOK
    <3>2. coldStarts' = coldStarts /\ coldStarts \in Nat
      BY <2>2 DEF redis, NodeInv, NodeTypeOK
    <3> QED
      BY <3>1, <3>2 DEF ReplyOK, ValueOK
  <2> QED
    BY <1>3, <2>1, <2>2
<1>5. /\ sent' \in [Pod -> [Conn -> Seq(Command)]]
      /\ replies' \in [Pod -> [Conn -> Seq(Reply)]]
      /\ NodePoolBaseline'
      /\ \A x : Unrun(x)' => Unrun(x)
      /\ \A x : Incoming(x)' => Incoming(x) \/ x = r
      /\ \A q \in Pod : q # p => sent'[q] = sent[q] /\ replies'[q] = replies[q]
  <2>1. NodeTypeOK /\ NodePoolBaseline
    BY DEF NodeInv
  <2>2. AnswersWith(p, k, r)
    BY <1>1, <1>3 DEF AnswersWith
  <2> QED
    BY <1>4, <2>1, <2>2, ExecFacts
<1>6. clock' \in clock .. MaxClock
  BY <1>1, NodeAssumption DEF NodeInv, NodeTypeOK
<1>7. /\ recovery' \in 0 .. MaxClock /\ recovery' <= clock' /\ coldStarts' \in Nat
      /\ assoc' \in AssocHash /\ partner' \in Smf \cup {0} /\ Tells(assoc, partner)'
      /\ \A x : CommandOK(x) => CommandOK(x)'
      /\ \A x : ReplyOK(x) => ReplyOK(x)'
      /\ \A x \in NodeRecord : NodeOK(x) => NodeOK(x)'
  BY <1>2, <1>3, <1>6, FactsPersist
<1>8. /\ \A x : Unrun(x)' => CommandOK(x)'
      /\ \A x : Incoming(x)' => ReplyOK(x)'
  BY <1>4, <1>5, <1>7 DEF NodeInv
<1>9. ASSUME NEW q \in Pod PROVE NodeOK(node[q])'
  <2>1. node[q] \in NodeRecord /\ NodeOK(node[q]) /\ node'[q] = node[q]
    BY <1>1 DEF NodeInv, NodeTypeOK
  <2>2. \A x \in NodeRecord : x = node[q] => NodeOK(x)'
    BY <1>7, <2>1
  <2> QED
    BY <2>1, <2>2 DEF NodeOK, ValueOK
<1>10. OneValuePerEra'
  <2>1. ASSUME NEW e, NEW v, Says(e, v)'
        PROVE  Says(e, v) \/ (e = coldStarts /\ v = recovery)
    <3>1. CASE \E q \in Pod : node'[q].from = "string" /\ node'[q].era = e /\ node'[q].ts = v
      BY <1>1, <3>1 DEF Says
    <3>2. CASE \E x : Incoming(x)' /\ x.kind = "string" /\ x.era = e /\ x.value = v
      BY <1>4, <1>5, <3>2 DEF Says
    <3> QED
      BY <2>1, <3>1, <3>2 DEF Says
  <2> QED
    BY <2>1, EraStep
<1>11. NodeTypeOK'
  BY <1>1, <1>5, <1>7 DEF NodeInv, NodeTypeOK, bounds
<1>12. QueryTruth'
  BY <1>1 DEF NodeInv, QueryTruth
<1>13. DownIsQuiet'
  <2>1. phase[p] # "down"
    BY <1>1 DEF NodeInv, DownIsQuiet
  <2>2. ASSUME NEW q \in Pod, phase'[q] = "down", NEW c \in Conn
        PROVE  sent'[q][c] = << >> /\ replies'[q][c] = << >>
    <3>1. q # p /\ phase[q] = "down"
      BY <1>1, <2>1, <2>2
    <3> QED
      BY <1>5, <3>1 DEF NodeInv, DownIsQuiet
  <2> QED
    BY <2>2 DEF DownIsQuiet
<1> QED
  BY <1>5, <1>7, <1>8, <1>9, <1>10, <1>11, <1>12, <1>13 DEF NodeInv

(* Redis runs a command whose sender has given up.                         *)
LEMMA LateStep ==
  ASSUME NodeInv, NEW cmd \in late, LateExec(cmd) PROVE NodeInv'
<1>1. /\ Run(cmd) /\ late' = late \ {cmd}
      /\ UNCHANGED <<clock, phase, node, poolFree, sent, replies, answered, bounds>>
  BY DEF LateExec
<1>2. CommandOK(cmd)
  BY DEF NodeInv, Unrun
<1>3. /\ \A x : Unrun(x)' => Unrun(x)
      /\ \A x : Incoming(x)' => Incoming(x)
      /\ clock' \in clock .. MaxClock
  BY <1>1, NodeAssumption DEF Unrun, Incoming, NodeInv, NodeTypeOK
<1>4. /\ recovery' \in 0 .. MaxClock /\ recovery' <= clock' /\ coldStarts' \in Nat
      /\ assoc' \in AssocHash /\ partner' \in Smf \cup {0} /\ Tells(assoc, partner)'
      /\ \A x : CommandOK(x) => CommandOK(x)'
      /\ \A x : ReplyOK(x) => ReplyOK(x)'
      /\ \A x \in NodeRecord : NodeOK(x) => NodeOK(x)'
  BY <1>1, <1>2, <1>3, FactsPersist
<1>5. /\ \A x : Unrun(x)' => CommandOK(x)'
      /\ \A x : Incoming(x)' => ReplyOK(x)'
  BY <1>3, <1>4 DEF NodeInv
<1>6. ASSUME NEW q \in Pod PROVE NodeOK(node[q])'
  <2>1. node[q] \in NodeRecord /\ NodeOK(node[q]) /\ node'[q] = node[q]
    BY <1>1 DEF NodeInv, NodeTypeOK
  <2>2. \A x \in NodeRecord : x = node[q] => NodeOK(x)'
    BY <1>4, <2>1
  <2> QED
    BY <2>1, <2>2 DEF NodeOK, ValueOK
<1>7. OneValuePerEra'
  <2>1. ASSUME NEW e, NEW v, Says(e, v)' PROVE Says(e, v)
    BY <1>1, <1>3, <2>1 DEF Says
  <2> QED
    BY <2>1, EraStep
<1>8. NodeTypeOK'
  BY <1>1, <1>4 DEF NodeInv, NodeTypeOK, bounds
<1>9. NodePoolBaseline' /\ QueryTruth' /\ DownIsQuiet'
  BY <1>1 DEF NodeInv, NodePoolBaseline, QueryTruth, DownIsQuiet
<1> QED
  BY <1>4, <1>5, <1>6, <1>7, <1>8, <1>9 DEF NodeInv

-----------------------------------------------------------------------------
(* The theorems.                                                           *)

(* The invariant holds at the start.                                       *)
LEMMA NodeInvInit == Init => NodeInv
<1> SUFFICES ASSUME Init PROVE NodeInv
  OBVIOUS
<1>1. /\ Smf \subseteq Nat \ {0} /\ PoolCap \in Nat \ {0} /\ MaxClock \in Nat \ {0}
      /\ MaxCalls \in Nat /\ MaxFail \in Nat
  BY NodeAssumption
<1>2. /\ sent \in [Pod -> [Conn -> Seq(Command)]]
      /\ replies \in [Pod -> [Conn -> Seq(Reply)]]
      /\ \A p \in Pod, c \in Conn : sent[p][c] = << >> /\ replies[p][c] = << >>
  BY DEF Init
<1>3. assoc \in AssocHash /\ partner \in Smf \cup {0} /\ Tells(assoc, partner)
  BY <1>1 DEF Init, AssocHash, EmptyHash, Tells
<1>4. NodeTypeOK
  <2>1. node \in [Pod -> NodeRecord] /\ answered \in [Pod -> Answer]
    BY DEF Init, Unloaded, NodeRecord, NoAnswer, Answer
  <2> QED
    BY <1>1, <1>2, <1>3, <2>1 DEF Init, NodeTypeOK
<1>5. (\A cmd : ~Unrun(cmd)) /\ (\A r : ~Incoming(r))
  BY <1>2 DEF Init, Unrun, Incoming
<1>6. \A p \in Pod : NodeOK(node[p]) /\ node[p].from # "string"
  BY DEF Init, NodeOK, Unloaded
<1>7. NodePoolBaseline
  <2> SUFFICES ASSUME NEW p \in Pod
               PROVE  poolFree[p] + Len(sent[p]["recovery"]) + Len(replies[p]["recovery"])
                        + Len(sent[p]["assoc"]) + Len(replies[p]["assoc"]) = PoolCap
    BY DEF NodePoolBaseline
  <2>1. /\ sent[p]["recovery"] = << >> /\ replies[p]["recovery"] = << >>
        /\ sent[p]["assoc"] = << >> /\ replies[p]["assoc"] = << >>
    BY <1>2, ConnFacts
  <2>2. poolFree[p] = PoolCap /\ PoolCap + 0 + 0 + 0 + 0 = PoolCap
    BY <1>1 DEF Init
  <2> QED
    BY <2>1, <2>2
<1>8. OneValuePerEra /\ QueryTruth /\ DownIsQuiet /\ recovery <= clock
  BY <1>2, <1>5, <1>6 DEF Init, OneValuePerEra, Says, QueryTruth, NoAnswer, DownIsQuiet
<1> QED
  BY <1>3, <1>4, <1>5, <1>6, <1>7, <1>8 DEF NodeInv

(* Every step preserves the invariant.                                     *)
LEMMA NodeInvNext == NodeInv /\ [Next]_vars => NodeInv'
<1> SUFFICES ASSUME NodeInv, [Next]_vars PROVE NodeInv'
  OBVIOUS
<1>1. CASE Tick
  BY <1>1, TickStep
<1>2. CASE \E cmd \in late : LateExec(cmd)
  BY <1>2, LateStep
<1>3. ASSUME NEW p \in Pod, v_node_state_init(p) PROVE NodeInv'
  BY <1>3, InitStep
<1>4. ASSUME NEW p \in Pod, v_node_state_load_recovery_ts(p) PROVE NodeInv'
  BY <1>4, LoadStep
<1>5. ASSUME NEW p \in Pod, wait_until(p) PROVE NodeInv'
  BY <1>5, WaitStep
<1>6. ASSUME NEW p \in Pod, v_node_state_force_new_recovery_ts(p) PROVE NodeInv'
  BY <1>6, ForceStep
<1>7. ASSUME NEW p \in Pod, NEW s \in Smf, AssociationCall(p, "SET", s) PROVE NodeInv'
  BY <1>7, AssociationStep
<1>8. ASSUME NEW p \in Pod, AssociationCall(p, "CLEAR", 0) \/ AssociationCall(p, "QUERY", 0)
      PROVE  NodeInv'
  BY <1>8, AssociationStep
<1>9. ASSUME NEW p \in Pod, Crash(p) PROVE NodeInv'
  BY <1>9, CrashStep
<1>10. ASSUME NEW p \in Pod, NEW c \in Conn, Callback(p, c) PROVE NodeInv'
  BY <1>10, CallbackStep
<1>11. ASSUME NEW p \in Pod, NEW c \in Conn, RedisExec(p, c) PROVE NodeInv'
  BY <1>11, ExecStep
<1>12. ASSUME NEW p \in Pod, NEW c \in Conn, Disconnect(p, c) PROVE NodeInv'
  BY <1>12, DisconnectStep
<1>13. CASE UNCHANGED vars
  <2>1. /\ UNCHANGED <<clock, recovery, coldStarts, assoc, partner>>
        /\ UNCHANGED <<phase, node, poolFree, sent, replies, late, answered, calls, fails>>
    BY <1>13 DEF vars, redis, bounds
  <2>2. NodeTypeOK' /\ DownIsQuiet' /\ QueryTruth'
    BY <2>1 DEF NodeInv, NodeTypeOK, DownIsQuiet, QueryTruth
  <2>3. NodePoolBaseline'
    BY <2>1 DEF NodeInv, NodePoolBaseline
  <2>4. clock' \in clock .. MaxClock /\ UNCHANGED redis
    BY <2>1, NodeAssumption DEF redis, NodeInv, NodeTypeOK
  <2>5. (\A cmd : Unrun(cmd)' => Unrun(cmd)) /\ (\A x : Incoming(x)' => Incoming(x))
    BY <2>1 DEF Unrun, Incoming
  <2>6. \A q \in Pod : node'[q] = node[q]
    BY <2>1
  <2> QED
    BY <2>2, <2>3, <2>4, <2>5, <2>6, QuietStep DEF NodeInv
<1> QED
  BY <1>1, <1>2, <1>3, <1>4, <1>5, <1>6, <1>7, <1>8, <1>9, <1>10, <1>11, <1>12, <1>13
     DEF Next

(* v_node_state.c: what pods remember, what is on its way and the two      *)
(* Redis keys agree in every reachable state.                              *)
THEOREM NodeInvariant == Spec => []NodeInv
BY NodeInvInit, NodeInvNext, PTL DEF Spec

(* Type correctness of v_node_state.c's globals and of its two Redis keys  *)
(* in every pod, whatever restarts, breaks or comes late.                  *)
THEOREM NodeTypeCorrect == Spec => []NodeTypeOK
<1>1. NodeInv => NodeTypeOK
  BY DEF NodeInv
<1> QED
  BY <1>1, NodeInvariant, PTL

(* A pending object is in the pool, with a command or with a reply: none   *)
(* is lost or returned twice by pending_get() and the callbacks.           *)
THEOREM NodePoolWhole == Spec => []NodePoolBaseline
<1>1. NodeInv => NodePoolBaseline
  BY DEF NodeInv
<1> QED
  BY <1>1, NodeInvariant, PTL

(* v_node_state_query_associated() tells the association that was in force *)
(* when Redis answered, for any number of pods and SMFs.                   *)
THEOREM QueryIsTrue == Spec => []QueryTruth
<1>1. NodeInv => QueryTruth
  BY DEF NodeInv
<1> QED
  BY <1>1, NodeInvariant, PTL

(* recovery_reply_cb(): no pod ever announces a timestamp of the future,   *)
(* nor one that is older than the node's, errors of Redis apart.           *)
THEOREM NeverBackdated == Spec => []NotBackdated
<1>1. NodeInv => NotBackdated
  BY DEF NodeInv, NodeOK, NotBackdated
<1> QED
  BY <1>1, NodeInvariant, PTL

(* Pods that find a timestamp in Redis all show the same one within a cold *)
(* start, the one Redis still has while it lasts.                          *)
THEOREM FoundTimestampShared == Spec => []FoundIsShared
<1>1. NodeInv => FoundIsShared
  <2> SUFFICES ASSUME NodeInv, NEW p \in Pod, node[p].from = "string"
               PROVE  /\ node[p].era = coldStarts => node[p].ts = recovery
                      /\ \A q \in Pod : node[q].from = "string" /\ node[q].era = node[p].era
                                          => node[q].ts = node[p].ts
    BY DEF FoundIsShared
  <2>1. node[p].era = coldStarts => node[p].ts = recovery
    BY DEF NodeInv, NodeOK, ValueOK
  <2>2. ASSUME NEW q \in Pod, node[q].from = "string", node[q].era = node[p].era
        PROVE  node[q].ts = node[p].ts
    BY <2>2 DEF NodeInv, OneValuePerEra, Says
  <2> QED
    BY <2>1, <2>2
<1> QED
  BY <1>1, NodeInvariant, PTL
=============================================================================
