--------------------------- MODULE DbScriptProofs ---------------------------
(***************************************************************************)
(* Proofs about DbScript for any number of shards, scripts and calls, any  *)
(* pool sizes and any faults: a call of v_db_evalsha() is answered exactly *)
(* once, its script has run at most once, one retry is enough, and no pool *)
(* object is lost or put back twice.                                       *)
(*                                                                         *)
(* The invariant follows the commands of each connection.  A call that is  *)
(* open has one command on its way and no other has any (Owned, OneOwner); *)
(* what Redis has done and still may do for it can be told from where that *)
(* command is and whether the call was retried (SentOK, ReplyOK).  What a  *)
(* broken connection leaves for Redis to run later belongs to calls that   *)
(* were told of the failure and whose script has not run (LateInv).        *)
(***************************************************************************)
EXTENDS DbScript, FiniteSetTheorems, SequenceTheorems, TLAPS

(* Position i of the commands of a connection belongs to call c.           *)
CallAt(s, i, c) == i \in 1 .. Len(Outstanding(s)) /\ Outstanding(s)[i].call = c

Owned(c) == \E s \in Shard, i \in Nat : CallAt(s, i, c)

OneOwner(c) ==
  \A s, t \in Shard, i, j \in Nat : CallAt(s, i, c) /\ CallAt(t, j, c) => s = t /\ i = j

(* Accepted and not answered yet.                                          *)
OpenCalls == {c \in Call : call[c].ret = "OK" /\ call[c].answers = << >>}

CallOK(c) ==
  /\ Owned(c) <=> c \in OpenCalls
  /\ OneOwner(c)
  /\ call[c].ret # "OK" => call[c].answers = << >> /\ call[c].ran = 0
  /\ Len(call[c].answers) <= 1
  /\ call[c].answers = <<"noscript">> => flushes[call[c].shard] > call[c].spared
  /\ call[c].ret = "OK" => call[c].spared <= flushes[call[c].shard] + 1
  /\ call[c].retried => call[c].ret = "OK" /\ call[c].spared <= flushes[call[c].shard]

(* A command says which call it is for.                                    *)
CommandOK(s, cmd) ==
  /\ cmd.op = "EVALSHA" => cmd.call \in Call
  /\ cmd.call \in Call => /\ call[cmd.call].shard = s /\ call[cmd.call].script = cmd.script
                          /\ cmd.op = "LOAD" => call[cmd.call].retried

(* Enough losses of the script cache to explain another NOSCRIPT.          *)
Explained(s, c) ==
  IF call[c].retried THEN flushes[s] > call[c].spared ELSE flushes[s] >= call[c].spared

(* What Redis has not run yet: it runs the call's script for the first     *)
(* time, and knows it unless it has lost it.                               *)
SentOK(s, cmd) ==
  LET c == cmd.call IN
  c \in Call =>
    /\ call[c].ran = 0
    /\ cmd.op = "EVALSHA" => cmd.script \in cache[s] \/ Explained(s, c)

(* What Redis has run, and the client has not heard of.                    *)
ReplyOK(s, r) ==
  LET c == r.cmd.call IN
  c \in Call =>
    /\ call[c].ran = IF r.cmd.op = "EVALSHA" /\ r.result = "ok" THEN 1 ELSE 0
    /\ r.cmd.op = "EVALSHA" /\ r.result = "noscript" => Explained(s, c)
    /\ r.cmd.op = "LOAD" /\ r.result = "ok" => r.cmd.script \in cache[s] \/ Explained(s, c)

(* The commands of all shards, and those that load a script.               *)
AllAt == {sc \in Shard \X (1 .. PendingCap) : sc[2] \in DOMAIN Outstanding(sc[1])}
LoadsAt == {sc \in Shard \X (1 .. PendingCap) : sc[2] \in Loads(sc[1])}

Counts ==
  /\ IsFiniteSet(OpenCalls) /\ evalFree = EvalCap - Cardinality(OpenCalls)
  /\ IsFiniteSet(LoadsAt) /\ loadFree = LoadCap - Cardinality(LoadsAt)
  /\ IsFiniteSet(AllAt) /\ dbFree = PendingCap - Cardinality(AllAt)

(* The inductive invariant.                                                *)
ScriptInv ==
  /\ ScriptTypeOK
  /\ Counts
  /\ \A s \in Shard :
       /\ Len(Outstanding(s)) <= PendingCap
       /\ \A i \in 1 .. Len(Outstanding(s)) : CommandOK(s, Outstanding(s)[i])
       /\ \A i \in 1 .. Len(sent[s]) : SentOK(s, sent[s][i])
       /\ \A i \in 1 .. Len(replies[s]) : ReplyOK(s, replies[s][i])
  /\ \A c \in Call : CallOK(c)

(* An EVALSHA of a broken connection: its call failed, and has not run.    *)
LateOK(s, cmd) ==
  LET c == cmd.call IN
  cmd.op = "EVALSHA" =>
    /\ c \in Call /\ call[c].shard = s /\ call[c].script = cmd.script
    /\ call[c].ret = "OK" /\ call[c].answers = <<"fail">> /\ call[c].ran = 0

LateInv == \A s \in Shard : \A cmd \in late[s] : LateOK(s, cmd)

-----------------------------------------------------------------------------
(* Counting.                                                               *)

(* What an injective function maps to is as many.                          *)
LEMMA CardImage ==
  ASSUME NEW S, IsFiniteSet(S), NEW T, NEW f \in [S -> T],
         \A x, y \in S : f[x] = f[y] => x = y, \A t \in T : \E x \in S : f[x] = t
  PROVE  IsFiniteSet(T) /\ Cardinality(T) = Cardinality(S)
<1>1. f \in Bijection(S, T)
  BY DEF Bijection, Injection, Surjection, IsInjective
<1>2. ExistsBijection(S, T)
  BY <1>1 DEF ExistsBijection
<1> QED
  BY <1>2, FS_Bijection

(* An interval that starts at 1 has as many members as its end says.       *)
LEMMA CardTo ==
  ASSUME NEW n \in Nat
  PROVE  IsFiniteSet(1 .. n) /\ Cardinality(1 .. n) = n
<1>1. IsFiniteSet(1 .. n) /\ Cardinality(1 .. n) = IF 1 > n THEN 0 ELSE n - 1 + 1
  BY FS_Interval
<1> QED
  BY <1>1

(* The positions of one shard.                                             *)
LEMMA CardPair ==
  ASSUME NEW s, NEW I, IsFiniteSet(I)
  PROVE  IsFiniteSet({s} \X I) /\ Cardinality({s} \X I) = Cardinality(I)
<1> DEFINE f == [i \in I |-> <<s, i>>]
<1>1. f \in [I -> {s} \X I]
  OBVIOUS
<1>2. \A x, y \in I : f[x] = f[y] => x = y
  OBVIOUS
<1>3. \A t \in {s} \X I : \E x \in I : f[x] = t
  OBVIOUS
<1> HIDE DEF f
<1> QED
  BY <1>1, <1>2, <1>3, CardImage

(* Positions that move up or down.                                         *)
LEMMA CardShift ==
  ASSUME NEW S \in SUBSET Int, IsFiniteSet(S), NEW h \in Int, NEW T \in SUBSET Int,
         \A i \in Int : i \in T <=> i + h \in S
  PROVE  IsFiniteSet(T) /\ Cardinality(T) = Cardinality(S)
<1> DEFINE f == [i \in S |-> i - h]
<1>1. \A i \in S : i - h \in T
  <2>1. \A i \in S : (i - h) + h = i
    OBVIOUS
  <2> QED
    BY <2>1
<1>2. f \in [S -> T]
  BY <1>1
<1>3. \A x, y \in S : f[x] = f[y] => x = y
  OBVIOUS
<1>4. \A t \in T : \E x \in S : f[x] = t
  <2>1. \A t \in T : t + h \in S /\ (t + h) - h = t
    OBVIOUS
  <2> QED
    BY <2>1
<1> HIDE DEF f
<1> QED
  BY <1>2, <1>3, <1>4, CardImage

(* The size of a disjoint union.                                           *)
LEMMA CardUnion ==
  ASSUME NEW S, NEW T, IsFiniteSet(S), IsFiniteSet(T), \A x \in S : x \notin T
  PROVE  /\ IsFiniteSet(S \cup T) /\ Cardinality(S \cup T) = Cardinality(S) + Cardinality(T)
         /\ Cardinality(S) \in Nat /\ Cardinality(T) \in Nat
<1>1. S \cap T = {}
  OBVIOUS
<1>2. Cardinality(S \cap T) = 0
  BY <1>1, FS_EmptySet
<1>3. Cardinality(S) \in Nat /\ Cardinality(T) \in Nat
  BY FS_CardinalityType
<1>4. /\ IsFiniteSet(S \cup T)
      /\ Cardinality(S \cup T) = Cardinality(S) + Cardinality(T) - Cardinality(S \cap T)
  BY FS_Union
<1> QED
  BY <1>2, <1>3, <1>4

(* The positions of shard s change from A to B.                            *)
Swapped(P, PP, s, A, B) ==
  /\ \A i : <<s, i>> \in P <=> i \in A
  /\ PP = (P \ ({s} \X A)) \cup ({s} \X B)

(* What that does to their number.                                         *)
LEMMA CardSwap ==
  ASSUME NEW P, NEW PP, NEW s, NEW A, NEW B,
         IsFiniteSet(P), IsFiniteSet(A), IsFiniteSet(B), Swapped(P, PP, s, A, B)
  PROVE  /\ IsFiniteSet(PP) /\ Cardinality(PP) + Cardinality(A) = Cardinality(P) + Cardinality(B)
         /\ Cardinality(PP) \in Nat /\ Cardinality(A) \in Nat
         /\ Cardinality(P) \in Nat /\ Cardinality(B) \in Nat
         /\ Cardinality(A) <= Cardinality(P)
<1> USE DEF Swapped
<1> DEFINE Q == P \ ({s} \X A)
<1>1. P = Q \cup ({s} \X A) /\ \A x \in Q : x \notin {s} \X A /\ x \notin {s} \X B
  <2>1. \A x \in {s} \X A : x \in P
    OBVIOUS
  <2>2. \A x \in Q : x \notin {s} \X B
    <3> SUFFICES ASSUME NEW b \in B, <<s, b>> \in Q PROVE FALSE
      OBVIOUS
    <3> QED
      OBVIOUS
  <2> QED
    BY <2>1, <2>2
<1>2. IsFiniteSet(Q)
  BY FS_Subset
<1>3. /\ IsFiniteSet({s} \X A) /\ Cardinality({s} \X A) = Cardinality(A)
      /\ IsFiniteSet({s} \X B) /\ Cardinality({s} \X B) = Cardinality(B)
  BY CardPair
<1> HIDE DEF Q
<1>4. Cardinality(P) = Cardinality(Q) + Cardinality(A) /\ Cardinality(Q) \in Nat /\ Cardinality(A) \in Nat
  <2>1. /\ Cardinality(Q) \in Nat /\ Cardinality({s} \X A) \in Nat
        /\ Cardinality(Q \cup ({s} \X A)) = Cardinality(Q) + Cardinality({s} \X A)
    BY <1>1, <1>2, <1>3, CardUnion
  <2> QED
    BY <1>1, <1>3, <2>1
<1>5. /\ IsFiniteSet(PP) /\ Cardinality(PP) = Cardinality(Q) + Cardinality(B) /\ Cardinality(B) \in Nat
  <2>1. PP = Q \cup ({s} \X B)
    BY DEF Q
  <2>2. /\ IsFiniteSet(Q \cup ({s} \X B)) /\ Cardinality({s} \X B) \in Nat
        /\ Cardinality(Q \cup ({s} \X B)) = Cardinality(Q) + Cardinality({s} \X B)
    BY <1>1, <1>2, <1>3, CardUnion
  <2> QED
    BY <1>3, <2>1, <2>2
<1>6. PICK p \in Int, pp \in Int, q \in Nat, a \in Nat, b \in Nat :
        /\ p = Cardinality(P) /\ pp = Cardinality(PP) /\ q = Cardinality(Q)
        /\ a = Cardinality(A) /\ b = Cardinality(B)
  BY <1>4, <1>5
<1>7. p = q + a /\ pp = q + b
  BY <1>4, <1>5, <1>6
<1>8. pp + a = p + b /\ p \in Nat /\ pp \in Nat /\ a <= p
  BY <1>7
<1> QED
  BY <1>5, <1>6, <1>8

-----------------------------------------------------------------------------
(* The commands of a connection.                                           *)

(* The commands of the replies rs, then the commands q.                    *)
Commands(rs, q) == [i \in DOMAIN rs |-> rs[i].cmd] \o q

(* The elements of a concatenation, in terms of its parts.                 *)
LEMMA Joined ==
  ASSUME NEW S, NEW p \in Seq(S), NEW q \in Seq(S)
  PROVE  /\ p \o q \in Seq(S) /\ Len(p \o q) = Len(p) + Len(q)
         /\ Len(p) \in Nat /\ Len(q) \in Nat
         /\ \A i \in 1 .. Len(p) : (p \o q)[i] = p[i]
         /\ \A i \in 1 .. Len(q) : (p \o q)[Len(p) + i] = q[i]
<1> DEFINE n == Len(p)
           m == Len(q)
           r == p \o q
<1>1. /\ r \in Seq(S) /\ Len(r) = n + m /\ n \in Nat /\ m \in Nat
      /\ \A i \in 1 .. n + m : r[i] = IF i <= n THEN p[i] ELSE q[i - n]
  BY ConcatProperties
<1> HIDE DEF n, m, r
<1>2. \A i \in 1 .. n : r[i] = p[i]
  BY <1>1
<1>3. ASSUME NEW i \in 1 .. m PROVE r[n + i] = q[i]
  <2>1. n + i \in 1 .. n + m /\ ~(n + i <= n) /\ (n + i) - n = i
    BY <1>1
  <2> QED
    BY <1>1, <2>1
<1> QED
  BY <1>1, <1>2, <1>3 DEF n, m, r

(* The commands of a connection are those of its replies, then the rest.   *)
LEMMA CommandsAre ==
  ASSUME NEW rs \in Seq(Reply), NEW q \in Seq(Command)
  PROVE  /\ Commands(rs, q) \in Seq(Command)
         /\ Len(Commands(rs, q)) = Len(rs) + Len(q) /\ Len(rs) \in Nat /\ Len(q) \in Nat
         /\ \A i \in 1 .. Len(rs) : Commands(rs, q)[i] = rs[i].cmd
         /\ \A i \in 1 .. Len(q) : Commands(rs, q)[Len(rs) + i] = q[i]
         /\ \A i \in 1 .. Len(rs) + Len(q) : i \in 1 .. Len(rs) \/ i - Len(rs) \in 1 .. Len(q)
<1> DEFINE c == [i \in DOMAIN rs |-> rs[i].cmd]
           n == Len(rs)
           m == Len(q)
<1>1. n \in Nat /\ m \in Nat /\ DOMAIN rs = 1 .. n /\ \A i \in 1 .. n : rs[i] \in Reply
  OBVIOUS
<1>2. c = [i \in 1 .. n |-> rs[i].cmd] /\ \A i \in 1 .. n : rs[i].cmd \in Command
  BY <1>1 DEF Reply
<1>3. c \in Seq(Command) /\ Len(c) = n /\ \A i \in 1 .. n : c[i] = rs[i].cmd
  BY <1>1, <1>2
<1>4. Commands(rs, q) = c \o q
  BY DEF Commands
<1> HIDE DEF c
<1>5. /\ c \o q \in Seq(Command) /\ Len(c \o q) = n + m
      /\ \A i \in 1 .. n : (c \o q)[i] = c[i]
      /\ \A i \in 1 .. m : (c \o q)[n + i] = q[i]
  <2>1. /\ c \o q \in Seq(Command) /\ Len(c \o q) = Len(c) + m
        /\ \A i \in 1 .. Len(c) : (c \o q)[i] = c[i]
        /\ \A i \in 1 .. m : (c \o q)[Len(c) + i] = q[i]
    <3>1. c \in Seq(Command)
      BY <1>3
    <3> HIDE DEF m
    <3>2. ASSUME NEW d, d = c
          PROVE  /\ d \o q \in Seq(Command) /\ Len(d \o q) = Len(d) + Len(q)
                 /\ \A i \in 1 .. Len(d) : (d \o q)[i] = d[i]
                 /\ \A i \in 1 .. Len(q) : (d \o q)[Len(d) + i] = q[i]
      BY <3>1, <3>2, Joined
    <3> QED
      BY <3>2 DEF m
  <2>2. Len(c) = n
    BY <1>3
  <2> HIDE DEF n, m
  <2> QED
    BY <2>1, <2>2
<1>6. \A i \in 1 .. n + m : i \in 1 .. n \/ i - n \in 1 .. m
  BY <1>1
<1> QED
  BY <1>1, <1>3, <1>4, <1>5, <1>6

(* Outstanding(s) is such a sequence.                                      *)
LEMMA OutstandingIs ==
  ASSUME ScriptTypeOK, NEW s \in Shard
  PROVE  /\ replies[s] \in Seq(Reply) /\ sent[s] \in Seq(Command)
         /\ Outstanding(s) = Commands(replies[s], sent[s])
         /\ Outstanding(s) \in Seq(Command)
         /\ DOMAIN Outstanding(s) = 1 .. Len(Outstanding(s)) /\ Len(Outstanding(s)) \in Nat
<1>1. replies[s] \in Seq(Reply) /\ sent[s] \in Seq(Command)
  BY DEF ScriptTypeOK
<1>2. Outstanding(s) = Commands(replies[s], sent[s])
  BY DEF Outstanding, Commands
<1>3. Outstanding(s) \in Seq(Command)
  BY <1>1, <1>2, CommandsAre
<1> QED
  BY <1>1, <1>2, <1>3

(* The first h commands leave and those of q arrive.                       *)
Shifted(o, oo, h, q) ==
  /\ oo \in Seq(Command) /\ q \in Seq(Command) /\ h \in 0 .. Len(o)
  /\ Len(oo) = Len(o) - h + Len(q)
  /\ \A i \in 1 .. Len(o) - h : oo[i] = o[i + h]
  /\ \A i \in 1 .. Len(q) : oo[Len(o) - h + i] = q[i]

(* v_port_db_cmd() adds commands,                                          *)
LEMMA CommandsSent ==
  ASSUME NEW rs \in Seq(Reply), NEW q \in Seq(Command), NEW p \in Seq(Command)
  PROVE  Shifted(Commands(rs, q), Commands(rs, q \o p), 0, p)
<1> DEFINE o == Commands(rs, q)
           oo == Commands(rs, q \o p)
           n == Len(rs)
           m == Len(q)
           k == Len(p)
           x == q \o p
<1>1. x \in Seq(Command) /\ Len(x) = m + k /\ m \in Nat /\ k \in Nat
      /\ (\A i \in 1 .. m : x[i] = q[i]) /\ (\A i \in 1 .. k : x[m + i] = p[i])
  BY Joined
<1>2. /\ o \in Seq(Command) /\ Len(o) = n + m /\ n \in Nat
      /\ \A i \in 1 .. n : o[i] = rs[i].cmd
      /\ \A i \in 1 .. m : o[n + i] = q[i]
  BY CommandsAre
<1> HIDE DEF x
<1>3. /\ oo \in Seq(Command) /\ Len(oo) = n + (m + k)
      /\ \A i \in 1 .. n : oo[i] = rs[i].cmd
      /\ \A i \in 1 .. m + k : oo[n + i] = x[i]
  <2>1. /\ Commands(rs, x) \in Seq(Command) /\ Len(Commands(rs, x)) = n + Len(x)
        /\ \A i \in 1 .. n : Commands(rs, x)[i] = rs[i].cmd
        /\ \A i \in 1 .. Len(x) : Commands(rs, x)[n + i] = x[i]
    BY <1>1, CommandsAre
  <2>2. oo = Commands(rs, x)
    BY DEF x
  <2> HIDE DEF oo, n, m, k
  <2> QED
    BY <1>1, <2>1, <2>2
<1> HIDE DEF o, oo, n, m, k
<1>4. \A i \in 1 .. n + m : oo[i] = o[i]
  <2> TAKE i \in 1 .. n + m
  <2>1. CASE i \in 1 .. n
    BY <1>2, <1>3, <2>1
  <2>2. CASE i \notin 1 .. n
    <3>1. PICK j \in 1 .. m : j \in 1 .. m + k /\ n + j = i
      <4>1. i - n \in 1 .. m /\ i - n \in 1 .. m + k /\ n + (i - n) = i
        BY <1>1, <1>2, <2>2
      <4> QED
        BY <4>1
    <3>2. oo[n + j] = x[j] /\ o[n + j] = q[j] /\ x[j] = q[j]
      BY <1>1, <1>2, <1>3, <3>1
    <3> QED
      BY <3>1, <3>2
  <2> QED
    BY <2>1, <2>2
<1>5. \A i \in 1 .. k : oo[(n + m) + i] = p[i]
  <2> TAKE i \in 1 .. k
  <2>1. m + i \in 1 .. m + k /\ n + (m + i) = (n + m) + i
    BY <1>1, <1>2
  <2> QED
    BY <1>1, <1>3, <2>1
<1>6. Len(o) - 0 + Len(p) = n + (m + k) /\ Len(o) - 0 = n + m /\ 0 \in 0 .. Len(o)
      /\ \A i \in 1 .. n + m : i + 0 = i
  BY <1>1, <1>2 DEF k
<1>7. Shifted(o, oo, 0, p)
  BY <1>1, <1>2, <1>3, <1>4, <1>5, <1>6 DEF Shifted, k
<1> QED
  BY <1>7 DEF o, oo

(* Redis runs the first one that it has not run,                           *)
LEMMA CommandsRun ==
  ASSUME NEW rs \in Seq(Reply), NEW q \in Seq(Command), q # << >>, NEW r \in Reply,
         r.cmd = Head(q)
  PROVE  /\ Len(Commands(Append(rs, r), Tail(q))) = Len(Commands(rs, q))
         /\ Commands(Append(rs, r), Tail(q)) \in Seq(Command)
         /\ \A i \in 1 .. Len(Commands(rs, q)) :
              Commands(Append(rs, r), Tail(q))[i] = Commands(rs, q)[i]
<1> DEFINE o == Commands(rs, q)
           rr == Append(rs, r)
           qq == Tail(q)
           oo == Commands(rr, qq)
           n == Len(rs)
           m == Len(q)
<1>1. /\ qq \in Seq(Command) /\ Len(qq) = m - 1 /\ m \in Nat /\ m # 0 /\ Head(q) = q[1]
      /\ \A i \in 1 .. m - 1 : qq[i] = q[i + 1]
  OBVIOUS
<1>2. /\ rr \in Seq(Reply) /\ Len(rr) = n + 1 /\ n \in Nat /\ rr[n + 1] = r
      /\ \A i \in 1 .. n : rr[i] = rs[i]
  OBVIOUS
<1>3. /\ o \in Seq(Command) /\ Len(o) = n + m /\ n \in Nat
      /\ \A i \in 1 .. n : o[i] = rs[i].cmd
      /\ \A i \in 1 .. m : o[n + i] = q[i]
  BY CommandsAre
<1>4. /\ oo \in Seq(Command) /\ Len(oo) = (n + 1) + (m - 1)
      /\ \A i \in 1 .. n + 1 : oo[i] = rr[i].cmd
      /\ \A i \in 1 .. m - 1 : oo[(n + 1) + i] = qq[i]
  <2> HIDE DEF n, m, rr, qq
  <2>1. /\ oo \in Seq(Command) /\ Len(oo) = Len(rr) + Len(qq)
        /\ \A i \in 1 .. Len(rr) : oo[i] = rr[i].cmd
        /\ \A i \in 1 .. Len(qq) : oo[Len(rr) + i] = qq[i]
    BY <1>1, <1>2, CommandsAre
  <2> HIDE DEF oo
  <2> QED
    BY <1>1, <1>2, <2>1
<1> HIDE DEF o, oo, n, m, rr, qq
<1>5. ASSUME NEW i \in 1 .. n + m PROVE oo[i] = o[i]
  <2>1. CASE i \in 1 .. n
    <3>1. i \in 1 .. n + 1
      BY <1>2, <2>1
    <3>2. oo[i] = rr[i].cmd
      BY <1>4, <3>1
    <3>3. rr[i] = rs[i] /\ o[i] = rs[i].cmd
      BY <1>2, <1>3, <2>1
    <3> QED
      BY <3>2, <3>3
  <2>2. CASE i = n + 1
    <3>1. i \in 1 .. n + 1 /\ 1 \in 1 .. m
      BY <1>1, <1>2, <2>2
    <3>2. oo[i] = rr[i].cmd
      BY <1>4, <3>1
    <3>3. rr[i] = r /\ o[i] = q[1]
      BY <1>2, <1>3, <2>2, <3>1
    <3> QED
      BY <1>1, <3>2, <3>3
  <2>3. CASE i \notin 1 .. n + 1
    <3>1. /\ i - n \in 1 .. m /\ n + (i - n) = i
          /\ i - n - 1 \in 1 .. m - 1 /\ (n + 1) + (i - n - 1) = i /\ (i - n - 1) + 1 = i - n
      BY <1>1, <1>2, <2>3
    <3>2. PICK j, k : j = i - n /\ k = i - n - 1
      OBVIOUS
    <3>3. oo[(n + 1) + k] = qq[k] /\ qq[k] = q[k + 1]
      BY <1>1, <1>4, <3>1, <3>2
    <3>4. o[n + j] = q[j]
      BY <1>3, <3>1, <3>2
    <3>5. (n + 1) + k = i /\ n + j = i /\ k + 1 = j
      BY <3>1, <3>2
    <3> QED
      BY <3>3, <3>4, <3>5
  <2> QED
    BY <1>1, <1>2, <2>1, <2>2, <2>3
<1>6. (n + 1) + (m - 1) = n + m
  BY <1>1, <1>2
<1> QED
  BY <1>3, <1>4, <1>5, <1>6 DEF o, oo, rr, qq

(* and on_reply() takes the oldest away.                                   *)
LEMMA CommandsHeard ==
  ASSUME NEW rs \in Seq(Reply), NEW q \in Seq(Command), rs # << >>
  PROVE  /\ Shifted(Commands(rs, q), Commands(Tail(rs), q), 1, << >>)
         /\ Commands(rs, q)[1] = Head(rs).cmd /\ 1 \in 1 .. Len(Commands(rs, q))
<1> DEFINE o == Commands(rs, q)
           rr == Tail(rs)
           oo == Commands(rr, q)
           n == Len(rs)
           m == Len(q)
<1>1. /\ rr \in Seq(Reply) /\ Len(rr) = n - 1 /\ n \in Nat /\ n # 0 /\ Head(rs) = rs[1]
      /\ \A i \in 1 .. n - 1 : rr[i] = rs[i + 1]
  OBVIOUS
<1>2. /\ o \in Seq(Command) /\ Len(o) = n + m /\ m \in Nat
      /\ \A i \in 1 .. n : o[i] = rs[i].cmd
      /\ \A i \in 1 .. m : o[n + i] = q[i]
  BY CommandsAre
<1>3. /\ oo \in Seq(Command) /\ Len(oo) = (n - 1) + m
      /\ \A i \in 1 .. n - 1 : oo[i] = rr[i].cmd
      /\ \A i \in 1 .. m : oo[(n - 1) + i] = q[i]
  <2> HIDE DEF n, rr
  <2>1. /\ oo \in Seq(Command) /\ Len(oo) = Len(rr) + m
        /\ \A i \in 1 .. Len(rr) : oo[i] = rr[i].cmd
        /\ \A i \in 1 .. m : oo[Len(rr) + i] = q[i]
    BY <1>1, CommandsAre
  <2> HIDE DEF oo, m
  <2> QED
    BY <1>1, <2>1
<1>4. << >> \in Seq(Command) /\ Len(<< >>) = 0
  OBVIOUS
<1> HIDE DEF o, oo, n, m, rr
<1>5. ASSUME NEW i \in 1 .. (n + m) - 1 PROVE oo[i] = o[i + 1]
  <2>1. CASE i \in 1 .. n - 1
    <3>1. i + 1 \in 1 .. n
      BY <1>1, <2>1
    <3>2. oo[i] = rr[i].cmd /\ rr[i] = rs[i + 1] /\ o[i + 1] = rs[i + 1].cmd
      BY <1>1, <1>2, <1>3, <2>1, <3>1
    <3> QED
      BY <3>2
  <2>2. CASE i \notin 1 .. n - 1
    <3>1. /\ i - (n - 1) \in 1 .. m /\ (n - 1) + (i - (n - 1)) = i
          /\ n + (i - (n - 1)) = i + 1
      BY <1>1, <1>2, <2>2
    <3> QED
      BY <1>2, <1>3, <3>1
  <2> QED
    BY <2>1, <2>2
<1>6. Shifted(o, oo, 1, << >>)
  <2>1. 1 \in 0 .. n + m /\ (n - 1) + m = (n + m) - 1 + 0 /\ \A i : i \notin 1 .. 0
    BY <1>1, <1>2
  <2> QED
    BY <1>2, <1>3, <1>4, <1>5, <2>1 DEF Shifted
<1>7. o[1] = Head(rs).cmd /\ 1 \in 1 .. Len(o)
  BY <1>1, <1>2
<1> QED
  BY <1>6, <1>7 DEF o, oo, rr

(* The commands of o that load a script, and those among its first h.      *)
LoadsIn(o) == {i \in 1 .. Len(o) : o[i].op = "LOAD"}
FirstLoads(o, h) == {i \in 1 .. h : o[i].op = "LOAD"}

(* How many commands load a script, after some left and some arrived.      *)
LEMMA LoadsShifted ==
  ASSUME NEW o \in Seq(Command), NEW oo, NEW h, NEW q, Shifted(o, oo, h, q)
  PROVE  /\ IsFiniteSet(LoadsIn(o)) /\ IsFiniteSet(LoadsIn(oo))
         /\ Cardinality(LoadsIn(o)) \in Nat /\ Cardinality(LoadsIn(oo)) \in Nat
         /\ Cardinality(LoadsIn(q)) \in Nat /\ Cardinality(FirstLoads(o, h)) \in Nat
         /\ Cardinality(LoadsIn(oo)) + Cardinality(FirstLoads(o, h))
              = Cardinality(LoadsIn(o)) + Cardinality(LoadsIn(q))
<1> DEFINE n == Len(o)
           m == Len(q)
           A == {i \in 1 .. n - h : o[i + h].op = "LOAD"}
           B == {i \in (n - h) + 1 .. (n - h) + m : q[i - (n - h)].op = "LOAD"}
           C == {i \in h + 1 .. n : o[i].op = "LOAD"}
           F == FirstLoads(o, h)
           L == LoadsIn(o)
           LL == LoadsIn(oo)
           Q == LoadsIn(q)
<1>1. /\ n \in Nat /\ m \in Nat /\ h \in 0 .. n /\ n - h \in Nat /\ oo \in Seq(Command)
      /\ Len(oo) = (n - h) + m
      /\ \A i \in 1 .. n - h : oo[i] = o[i + h]
      /\ \A i \in 1 .. m : oo[(n - h) + i] = q[i]
  BY DEF Shifted
<1>2. h \in Int /\ h >= 0 /\ h <= n
  BY <1>1
<1>3. /\ IsFiniteSet(A) /\ IsFiniteSet(B) /\ IsFiniteSet(C) /\ IsFiniteSet(F) /\ IsFiniteSet(Q)
      /\ A \subseteq Int /\ B \subseteq Int /\ C \subseteq Int /\ F \subseteq Int /\ Q \subseteq Int
  <2>1. \A a, b \in Int : IsFiniteSet(a .. b) /\ a .. b \subseteq Int
    BY FS_Interval
  <2>2. (n - h) + 1 \in Int /\ (n - h) + m \in Int /\ h + 1 \in Int /\ n \in Int /\ m \in Int
    BY <1>1, <1>2
  <2>3. A \in SUBSET (1 .. n - h) /\ B \in SUBSET ((n - h) + 1 .. (n - h) + m)
        /\ C \in SUBSET (h + 1 .. n) /\ F \in SUBSET (1 .. h) /\ Q \in SUBSET (1 .. m)
    BY DEF FirstLoads, LoadsIn
  <2> HIDE DEF A, B, C, F, Q, n, m
  <2>4. IsFiniteSet(1 .. n - h) /\ IsFiniteSet((n - h) + 1 .. (n - h) + m)
        /\ IsFiniteSet(h + 1 .. n) /\ IsFiniteSet(1 .. h) /\ IsFiniteSet(1 .. m)
    BY <1>1, <1>2, <2>1, <2>2
  <2>5. IsFiniteSet(A) /\ IsFiniteSet(B) /\ IsFiniteSet(C) /\ IsFiniteSet(F) /\ IsFiniteSet(Q)
    BY <2>3, <2>4, FS_Subset
  <2> QED
    BY <2>1, <2>2, <2>3, <2>5
<1>4. Cardinality(A) = Cardinality(C)
  <2>1. ASSUME NEW i \in Int PROVE i \in A <=> i + h \in C
    <3>1. i \in 1 .. n - h <=> i + h \in h + 1 .. n
      BY <1>1, <1>2
    <3> QED
      BY <3>1
  <2> HIDE DEF A, C
  <2> QED
    BY <1>2, <1>3, <2>1, CardShift
<1>5. Cardinality(B) = Cardinality(Q)
  <2>1. ASSUME NEW i \in Int PROVE i \in B <=> i + (0 - (n - h)) \in Q
    <3>1. /\ i \in (n - h) + 1 .. (n - h) + m <=> i + (0 - (n - h)) \in 1 .. m
          /\ i - (n - h) = i + (0 - (n - h))
      BY <1>1, <1>2
    <3> QED
      BY <3>1 DEF LoadsIn
  <2>2. 0 - (n - h) \in Int
    BY <1>1, <1>2
  <2> HIDE DEF B, Q
  <2> QED
    BY <1>3, <2>1, <2>2, CardShift
<1>6. LL = A \cup B /\ \A i \in A : i \notin B
  <2>1. ASSUME NEW i PROVE i \in LL <=> i \in A \/ i \in B
    <3>1. i \in 1 .. (n - h) + m <=> i \in 1 .. n - h \/ i \in (n - h) + 1 .. (n - h) + m
      BY <1>1
    <3>2. ASSUME i \in (n - h) + 1 .. (n - h) + m PROVE oo[i] = q[i - (n - h)]
      <4>1. PICK k \in Nat : k = n - h
        BY <1>1
      <4>2. i - k \in 1 .. m /\ k + (i - k) = i
        <5>1. i \in k + 1 .. k + m
          BY <3>2, <4>1
        <5>2. PICK l \in Nat : l = m
          BY <1>1
        <5>3. \A j \in k + 1 .. k + l : j - k \in 1 .. l /\ k + (j - k) = j
          OBVIOUS
        <5> HIDE DEF n, m
        <5> QED
          BY <5>1, <5>2, <5>3
      <4>3. oo[k + (i - k)] = q[i - k]
        BY <1>1, <4>1, <4>2
      <4> QED
        BY <4>1, <4>2, <4>3
    <3>3. i \in LL <=> i \in 1 .. (n - h) + m /\ oo[i].op = "LOAD"
      BY <1>1 DEF LoadsIn
    <3>4. i \in A <=> i \in 1 .. n - h /\ oo[i].op = "LOAD"
      BY <1>1
    <3>5. i \in B <=> i \in (n - h) + 1 .. (n - h) + m /\ oo[i].op = "LOAD"
      BY <3>2
    <3> HIDE DEF LL, A, B
    <3> QED
      BY <3>1, <3>3, <3>4, <3>5
  <2>2. \A i \in 1 .. n - h : i \notin (n - h) + 1 .. (n - h) + m
    BY <1>1
  <2> QED
    BY <2>1, <2>2
<1>7. L = F \cup C /\ \A i \in F : i \notin C
  <2>1. ASSUME NEW i PROVE i \in 1 .. n <=> i \in 1 .. h \/ i \in h + 1 .. n
    BY <1>1, <1>2
  <2>2. \A i \in 1 .. h : i \notin h + 1 .. n
    BY <1>1, <1>2
  <2> QED
    BY <2>1, <2>2 DEF LoadsIn, FirstLoads
<1> HIDE DEF A, B, C, F, L, LL, Q
<1>8. /\ IsFiniteSet(LL) /\ Cardinality(LL) = Cardinality(A) + Cardinality(B)
      /\ Cardinality(A) \in Nat /\ Cardinality(B) \in Nat
  <2>1. /\ IsFiniteSet(A \cup B) /\ Cardinality(A \cup B) = Cardinality(A) + Cardinality(B)
        /\ Cardinality(A) \in Nat /\ Cardinality(B) \in Nat
    BY <1>3, <1>6, CardUnion
  <2> QED
    BY <1>6, <2>1
<1>9. /\ IsFiniteSet(L) /\ Cardinality(L) = Cardinality(F) + Cardinality(C)
      /\ Cardinality(F) \in Nat /\ Cardinality(C) \in Nat
  <2>1. /\ IsFiniteSet(F \cup C) /\ Cardinality(F \cup C) = Cardinality(F) + Cardinality(C)
        /\ Cardinality(F) \in Nat /\ Cardinality(C) \in Nat
    BY <1>3, <1>7, CardUnion
  <2> QED
    BY <1>7, <2>1
<1>10. PICK a \in Nat, b \in Nat, f \in Nat : a = Cardinality(A) /\ b = Cardinality(B) /\ f = Cardinality(F)
  BY <1>8, <1>9
<1>11. Cardinality(LL) = a + b /\ Cardinality(L) = f + a /\ Cardinality(Q) = b
  BY <1>4, <1>5, <1>8, <1>9, <1>10
<1>12. (a + b) + f = (f + a) + b /\ a + b \in Nat /\ f + a \in Nat
  OBVIOUS
<1>13. /\ Cardinality(LL) + Cardinality(F) = Cardinality(L) + Cardinality(Q)
       /\ Cardinality(LL) \in Nat /\ Cardinality(L) \in Nat /\ Cardinality(Q) \in Nat
       /\ Cardinality(F) \in Nat
  BY <1>10, <1>11, <1>12
<1> QED
  BY <1>8, <1>9, <1>13 DEF F, L, LL, Q

(* The commands of a shard and the free pending objects fit the pool.      *)
LEMMA RoomLeft ==
  ASSUME ScriptInv, NEW s \in Shard
  PROVE  Len(Outstanding(s)) + dbFree <= PendingCap
<1> DEFINE n == Len(Outstanding(s))
           I == 1 .. n
<1>1. n \in Nat /\ DOMAIN Outstanding(s) = 1 .. n /\ n <= PendingCap /\ PendingCap \in Nat
  BY OutstandingIs, PoolAssumption DEF ScriptInv
<1>2. IsFiniteSet(I) /\ Cardinality(I) = n
  BY <1>1, CardTo
<1>3. {s} \X I \subseteq AllAt
  <2>1. \A i \in I : i \in 1 .. PendingCap
    BY <1>1
  <2> QED
    BY <1>1, <2>1 DEF AllAt
<1>4. IsFiniteSet(AllAt) /\ dbFree = PendingCap - Cardinality(AllAt)
  BY DEF ScriptInv, Counts
<1>5. Cardinality({s} \X I) = n
  BY <1>2, CardPair
<1>6. n <= Cardinality(AllAt) /\ Cardinality(AllAt) \in Nat
  BY <1>3, <1>4, <1>5, FS_Subset, FS_CardinalityType
<1> HIDE DEF n
<1>7. n + dbFree <= PendingCap
  BY <1>1, <1>4, <1>6
<1> QED
  BY <1>7 DEF n

(* What a change of one shard's commands does to the counts.               *)
LEMMA PositionsAfter ==
  ASSUME ScriptInv, NEW s \in Shard, NEW o, o = Outstanding(s), NEW oo, oo = Outstanding(s)',
         NEW h, NEW q, Shifted(o, oo, h, q), Len(oo) <= PendingCap,
         \A t \in Shard : t # s => Outstanding(t)' = Outstanding(t)
  PROVE  /\ IsFiniteSet(AllAt') /\ IsFiniteSet(LoadsAt')
         /\ Cardinality(AllAt') \in Nat /\ Cardinality(LoadsAt') \in Nat
         /\ Cardinality(AllAt') + h = Cardinality(AllAt) + Len(q)
         /\ Cardinality(LoadsAt') + Cardinality(FirstLoads(o, h))
              = Cardinality(LoadsAt) + Cardinality(LoadsIn(q))
<1>0. /\ PendingCap \in Nat /\ o \in Seq(Command) /\ oo \in Seq(Command) /\ q \in Seq(Command)
      /\ Len(o) \in Nat /\ Len(oo) \in Nat /\ Len(q) \in Nat /\ Len(o) <= PendingCap
      /\ DOMAIN o = 1 .. Len(o) /\ DOMAIN oo = 1 .. Len(oo)
      /\ h \in 0 .. Len(o) /\ Len(oo) = Len(o) - h + Len(q)
  <2>1. /\ o \in Seq(Command) /\ DOMAIN o = 1 .. Len(o) /\ Len(o) \in Nat
        /\ PendingCap \in Nat /\ Len(o) <= PendingCap
    BY OutstandingIs, PoolAssumption DEF ScriptInv
  <2>2. /\ oo \in Seq(Command) /\ q \in Seq(Command) /\ h \in 0 .. Len(o)
        /\ Len(oo) = Len(o) - h + Len(q)
    BY DEF Shifted
  <2>3. Len(oo) \in Nat /\ Len(q) \in Nat /\ DOMAIN oo = 1 .. Len(oo)
    BY <2>2
  <2> QED
    BY <2>1, <2>2, <2>3
<1>1. IsFiniteSet(AllAt) /\ IsFiniteSet(LoadsAt)
  BY DEF ScriptInv, Counts
<1>2. /\ \A i \in 1 .. Len(o) : i \in 1 .. PendingCap
      /\ \A i \in 1 .. Len(oo) : i \in 1 .. PendingCap
  BY <1>0
<1>3. /\ \A t \in Shard : \A i : <<t, i>> \in AllAt <=> i \in 1 .. PendingCap /\ i \in DOMAIN Outstanding(t)
      /\ \A t \in Shard : \A i : <<t, i>> \in LoadsAt <=> i \in 1 .. PendingCap /\ i \in Loads(t)
      /\ \A x \in AllAt : x = <<x[1], x[2]>> /\ x[1] \in Shard
      /\ \A x \in LoadsAt : x = <<x[1], x[2]>> /\ x[1] \in Shard
  BY DEF AllAt, LoadsAt
<1>4. /\ \A t \in Shard : \A i : <<t, i>> \in AllAt' <=> i \in 1 .. PendingCap /\ i \in DOMAIN Outstanding(t)'
      /\ \A t \in Shard : \A i : <<t, i>> \in LoadsAt' <=> i \in 1 .. PendingCap /\ i \in Loads(t)'
      /\ \A x \in AllAt' : x = <<x[1], x[2]>> /\ x[1] \in Shard
      /\ \A x \in LoadsAt' : x = <<x[1], x[2]>> /\ x[1] \in Shard
  BY DEF AllAt, LoadsAt
<1>5. /\ Loads(s) = LoadsIn(o) /\ Loads(s)' = LoadsIn(oo)
      /\ \A t \in Shard : t # s => Loads(t)' = Loads(t)
  BY <1>0 DEF Loads, LoadsIn
<1>6. /\ IsFiniteSet(AllAt') /\ Cardinality(AllAt') \in Nat /\ Cardinality(AllAt) \in Nat
      /\ Cardinality(AllAt') + Len(o) = Cardinality(AllAt) + Len(oo)
  <2> DEFINE A == 1 .. Len(o)
             B == 1 .. Len(oo)
             P == AllAt
             PP == (P \ ({s} \X A)) \cup ({s} \X B)
  <2>1. \A i : <<s, i>> \in P <=> i \in A
    BY <1>0, <1>2, <1>3
  <2>2. AllAt' = PP
    <3>1. ASSUME NEW x PROVE x \in AllAt' <=> x \in PP
      <4>1. CASE \E t \in Shard : \E i : t # s /\ x = <<t, i>>
        BY <1>3, <1>4, <4>1
      <4>2. CASE \E i : x = <<s, i>>
        <5>1. PICK i : x = <<s, i>>
          BY <4>2
        <5>2. x \in AllAt' <=> i \in B
          BY <1>0, <1>2, <1>4, <5>1
        <5>3. x \in PP <=> i \in B
          BY <2>1, <5>1
        <5> QED
          BY <5>2, <5>3
      <4>3. CASE ~(\E t \in Shard : \E i : t # s /\ x = <<t, i>>) /\ ~(\E i : x = <<s, i>>)
        BY <1>3, <1>4, <4>3
      <4> QED
        BY <4>1, <4>2, <4>3
    <3> QED
      BY <3>1
  <2>3. IsFiniteSet(A) /\ IsFiniteSet(B) /\ Cardinality(A) = Len(o) /\ Cardinality(B) = Len(oo)
    BY <1>0, CardTo
  <2> HIDE DEF A, B, P
  <2>4. IsFiniteSet(P)
    BY <1>1 DEF P
  <2>5. /\ IsFiniteSet(PP) /\ Cardinality(PP) + Cardinality(A) = Cardinality(P) + Cardinality(B)
        /\ Cardinality(PP) \in Nat /\ Cardinality(P) \in Nat
    <3>1. Swapped(P, PP, s, A, B)
      BY <2>1 DEF Swapped
    <3> HIDE DEF PP
    <3> QED
      BY <2>3, <2>4, <3>1, CardSwap
  <2> QED
    BY <2>2, <2>3, <2>5 DEF P
<1>7. /\ IsFiniteSet(LoadsAt') /\ Cardinality(LoadsAt') \in Nat /\ Cardinality(LoadsAt) \in Nat
      /\ Cardinality(LoadsAt') + Cardinality(LoadsIn(o)) = Cardinality(LoadsAt) + Cardinality(LoadsIn(oo))
  <2> DEFINE A == LoadsIn(o)
             B == LoadsIn(oo)
             P == LoadsAt
             PP == (P \ ({s} \X A)) \cup ({s} \X B)
  <2>0. \A i : (i \in A => i \in 1 .. Len(o)) /\ (i \in B => i \in 1 .. Len(oo))
    BY DEF LoadsIn
  <2>1. \A i : <<s, i>> \in P <=> i \in A
    BY <1>2, <1>3, <1>5, <2>0
  <2>2. LoadsAt' = PP
    <3>1. ASSUME NEW x PROVE x \in LoadsAt' <=> x \in PP
      <4>1. CASE \E t \in Shard : \E i : t # s /\ x = <<t, i>>
        BY <1>3, <1>4, <1>5, <4>1
      <4>2. CASE \E i : x = <<s, i>>
        <5>1. PICK i : x = <<s, i>>
          BY <4>2
        <5>2. x \in LoadsAt' <=> i \in B
          BY <1>2, <1>4, <1>5, <2>0, <5>1
        <5>3. x \in PP <=> i \in B
          BY <2>1, <5>1
        <5> QED
          BY <5>2, <5>3
      <4>3. CASE ~(\E t \in Shard : \E i : t # s /\ x = <<t, i>>) /\ ~(\E i : x = <<s, i>>)
        BY <1>3, <1>4, <4>3
      <4> QED
        BY <4>1, <4>2, <4>3
    <3> QED
      BY <3>1
  <2>3. IsFiniteSet(A) /\ IsFiniteSet(B)
    BY <1>0, LoadsShifted
  <2> HIDE DEF A, B, P
  <2>4. IsFiniteSet(P)
    BY <1>1 DEF P
  <2>5. /\ IsFiniteSet(PP) /\ Cardinality(PP) + Cardinality(A) = Cardinality(P) + Cardinality(B)
        /\ Cardinality(PP) \in Nat /\ Cardinality(P) \in Nat
    <3>1. Swapped(P, PP, s, A, B)
      BY <2>1 DEF Swapped
    <3> HIDE DEF PP
    <3> QED
      BY <2>3, <2>4, <3>1, CardSwap
  <2> QED
    BY <2>2, <2>5 DEF A, B, P
<1>8. PICK l \in Nat, ll \in Nat : l = Cardinality(LoadsAt) /\ ll = Cardinality(LoadsAt')
  BY <1>7
<1>9. Cardinality(AllAt') + h = Cardinality(AllAt) + Len(q)
  <2> DEFINE a == Cardinality(AllAt)
             aa == Cardinality(AllAt')
             n == Len(o)
             m == Len(q)
             k == Len(oo)
  <2>0. a \in Nat /\ aa \in Nat /\ n \in Nat /\ m \in Nat /\ k = n - h + m /\ aa + n = a + k
    BY <1>0, <1>6
  <2>2. h \in Int
    BY <1>0
  <2> HIDE DEF a, aa, n, m, k
  <2>1. /\ aa + n = a + (n - h + m) /\ a \in Nat /\ aa \in Nat /\ n \in Nat /\ m \in Nat
        /\ h \in Int
    BY <2>0, <2>2
  <2>3. aa + h = a + m
    BY <2>1
  <2> QED
    BY <2>3 DEF a, aa, m
<1>10. ll + Cardinality(FirstLoads(o, h)) = l + Cardinality(LoadsIn(q))
  <2>1. /\ Cardinality(LoadsIn(o)) \in Nat /\ Cardinality(LoadsIn(oo)) \in Nat
        /\ Cardinality(LoadsIn(q)) \in Nat /\ Cardinality(FirstLoads(o, h)) \in Nat
        /\ Cardinality(LoadsIn(oo)) + Cardinality(FirstLoads(o, h))
             = Cardinality(LoadsIn(o)) + Cardinality(LoadsIn(q))
    BY <1>0, LoadsShifted
  <2>2. PICK b \in Nat, bb \in Nat, c \in Nat, f \in Nat :
          /\ b = Cardinality(LoadsIn(o)) /\ bb = Cardinality(LoadsIn(oo))
          /\ c = Cardinality(LoadsIn(q)) /\ f = Cardinality(FirstLoads(o, h))
    BY <2>1
  <2>3. bb + f = b + c /\ ll + b = l + bb
    BY <1>7, <1>8, <2>1, <2>2
  <2>4. ll + f = l + c
    BY <2>3
  <2> QED
    BY <2>2, <2>4
<1> QED
  BY <1>6, <1>7, <1>8, <1>9, <1>10

-----------------------------------------------------------------------------
(* One step of the connections.                                            *)

(* Shard s loses its first h commands and gets those of q; what is left is *)
(* as it was, and so are the other shards.                                 *)
Keeps(s, h, q) ==
  /\ sent' \in [Shard -> Seq(Command)] /\ replies' \in [Shard -> Seq(Reply)]
  /\ \A t \in Shard : t # s => sent'[t] = sent[t] /\ replies'[t] = replies[t]
  /\ Shifted(Outstanding(s), Outstanding(s)', h, q)
  /\ \A i \in 1 .. Len(sent'[s]) :
       \/ \E j \in 1 .. Len(q) : sent'[s][i] = q[j]
       \/ \E j \in 1 .. Len(sent[s]) : Len(replies[s]) + j > h /\ sent'[s][i] = sent[s][j]
  /\ \A i \in 1 .. Len(replies'[s]) :
       \E j \in 1 .. Len(replies[s]) : j > h /\ replies'[s][i] = replies[s][j]

(* The other shards have the commands they had.                            *)
LEMMA OthersKept ==
  ASSUME NEW s, NEW h, NEW q, Keeps(s, h, q), NEW t \in Shard, t # s
  PROVE  Outstanding(t)' = Outstanding(t)
BY DEF Keeps, Outstanding

(* Call c has a command that stays.                                        *)
Elsewhere(s, h, c) == \E t \in Shard, i \in Nat : CallAt(t, i, c) /\ ~(t = s /\ i <= h)

(* The owners of a call after such a step.                                 *)
LEMMA OwnersAfter ==
  ASSUME ScriptInv, NEW s \in Shard, NEW h, NEW q, Keeps(s, h, q), NEW c \in Call
  PROVE  /\ (\A j \in 1 .. Len(q) : q[j].call # c) => OneOwner(c)' /\ (Owned(c)' <=> Elsewhere(s, h, c))
         /\ Len(q) = 1 /\ q[1].call = c /\ ~Elsewhere(s, h, c) => Owned(c)' /\ OneOwner(c)'
<1>1. PICK o, oo : o = Outstanding(s) /\ oo = Outstanding(s)'
  OBVIOUS
<1>2. PICK n \in Nat, m \in Nat : n = Len(o) /\ m = Len(q)
  <2>1. Len(o) \in Nat
    BY <1>1, OutstandingIs DEF ScriptInv
  <2>2. q \in Seq(Command)
    BY DEF Keeps, Shifted
  <2> QED
    BY <2>1, <2>2
<1>3. /\ h \in 0 .. n /\ Len(oo) = n - h + m
      /\ \A i \in 1 .. n - h : oo[i] = o[i + h]
      /\ \A i \in 1 .. m : oo[n - h + i] = q[i]
  BY <1>1, <1>2 DEF Keeps, Shifted
<1>4. PICK k \in Nat : k = n - h /\ h \in Nat /\ h <= n
  <2>1. h \in 0 .. n
    BY <1>3
  <2>2. n - h \in Nat /\ h \in Nat /\ h <= n
    BY <1>2, <2>1
  <2> QED
    BY <2>2
<1>5. /\ \A i : CallAt(s, i, c) <=> i \in 1 .. n /\ o[i].call = c
      /\ \A i : CallAt(s, i, c)' <=> i \in 1 .. k + m /\ oo[i].call = c
  <2>1. Len(oo) = k + m
    BY <1>3, <1>4
  <2> QED
    BY <1>1, <1>2, <2>1 DEF CallAt
<1>6. \A t \in Shard : \A i : t # s => (CallAt(t, i, c)' <=> CallAt(t, i, c))
  <2> SUFFICES ASSUME NEW t \in Shard, NEW i, t # s PROVE CallAt(t, i, c)' <=> CallAt(t, i, c)
    OBVIOUS
  <2>1. Outstanding(t)' = Outstanding(t)
    BY OthersKept
  <2> QED
    BY <2>1 DEF CallAt
<1>7. ASSUME NEW i \in Nat, CallAt(s, i, c)'
      PROVE  \/ i + h \in Nat /\ i + h > h /\ CallAt(s, i + h, c)
             \/ \E j \in 1 .. m : i = k + j /\ q[j].call = c
  <2>1. i \in 1 .. k + m /\ oo[i].call = c
    BY <1>5, <1>7
  <2>2. CASE i <= k
    <3>1. i \in 1 .. n - h /\ i + h \in 1 .. n /\ i + h \in Nat /\ i + h > h
      BY <1>4, <2>1, <2>2
    <3> QED
      BY <1>3, <1>5, <2>1, <3>1
  <2>3. CASE ~(i <= k)
    <3>1. PICK j \in 1 .. m : i = k + j
      <4>1. i - k \in 1 .. m /\ i = k + (i - k)
        BY <1>2, <1>4, <2>1, <2>3
      <4> QED
        BY <4>1
    <3>2. oo[k + j] = q[j]
      BY <1>3, <1>4
    <3> QED
      BY <2>1, <3>1, <3>2
  <2> QED
    BY <2>2, <2>3
<1>8. ASSUME NEW i \in Nat, CallAt(s, i, c), ~(i <= h)
      PROVE  i - h \in Nat /\ CallAt(s, i - h, c)'
  <2>1. i \in 1 .. n /\ o[i].call = c
    BY <1>5, <1>8
  <2>2. i - h \in Nat /\ i - h \in 1 .. n - h /\ (i - h) + h = i /\ i - h \in 1 .. k + m
    BY <1>2, <1>4, <1>8, <2>1
  <2> QED
    BY <1>3, <1>5, <2>1, <2>2
<1>9. ASSUME NEW j \in 1 .. m, q[j].call = c PROVE k + j \in Nat /\ CallAt(s, k + j, c)'
  <2>1. k + j \in 1 .. k + m /\ k + j \in Nat
    BY <1>2, <1>4
  <2>2. oo[k + j] = q[j]
    BY <1>3, <1>4
  <2> QED
    BY <1>5, <1>9, <2>1, <2>2
<1>10. \A t, u \in Shard, i, j \in Nat : CallAt(t, i, c) /\ CallAt(u, j, c) => t = u /\ i = j
  BY DEF ScriptInv, CallOK, OneOwner
<1>11. ASSUME \A j \in 1 .. m : q[j].call # c PROVE OneOwner(c)' /\ (Owned(c)' <=> Elsewhere(s, h, c))
  <2>1. \A i \in Nat : CallAt(s, i, c)' => i + h \in Nat /\ i + h > h /\ CallAt(s, i + h, c)
    BY <1>7, <1>11
  <2>2. ASSUME NEW t \in Shard, NEW u \in Shard, NEW i \in Nat, NEW j \in Nat,
               CallAt(t, i, c)', CallAt(u, j, c)'
        PROVE  t = u /\ i = j
    <3>1. CASE t # s /\ u # s
      BY <1>6, <1>10, <2>2, <3>1
    <3>2. CASE t = s /\ u # s
      BY <1>6, <1>10, <2>1, <2>2, <3>2
    <3>3. CASE t # s /\ u = s
      BY <1>6, <1>10, <2>1, <2>2, <3>3
    <3>4. CASE t = s /\ u = s
      <4>1. i + h = j + h
        BY <1>10, <2>1, <2>2, <3>4
      <4>2. i = j
        BY <1>4, <4>1
      <4> QED
        BY <3>4, <4>2
    <3> QED
      BY <3>1, <3>2, <3>3, <3>4
  <2>3. OneOwner(c)'
    BY <2>2 DEF OneOwner
  <2>4. ASSUME Owned(c)' PROVE Elsewhere(s, h, c)
    <3>1. PICK t \in Shard, i \in Nat : CallAt(t, i, c)'
      BY <2>4 DEF Owned
    <3>2. CASE t # s
      BY <1>6, <3>1, <3>2 DEF Elsewhere
    <3>3. CASE t = s
      <4>1. i + h \in Nat /\ i + h > h /\ CallAt(s, i + h, c)
        BY <2>1, <3>1, <3>3
      <4>2. ~(i + h <= h)
        BY <1>4, <4>1
      <4> QED
        BY <4>1, <4>2 DEF Elsewhere
    <3> QED
      BY <3>2, <3>3
  <2>5. ASSUME Elsewhere(s, h, c) PROVE Owned(c)'
    <3>1. PICK t \in Shard, i \in Nat : CallAt(t, i, c) /\ ~(t = s /\ i <= h)
      BY <2>5 DEF Elsewhere
    <3>2. CASE t # s
      BY <1>6, <3>1, <3>2 DEF Owned
    <3>3. CASE t = s
      BY <1>8, <3>1, <3>3 DEF Owned
    <3> QED
      BY <3>2, <3>3
  <2> QED
    BY <2>3, <2>4, <2>5
<1>12. ASSUME m = 1, q[1].call = c, ~Elsewhere(s, h, c) PROVE Owned(c)' /\ OneOwner(c)'
  <2>1. Owned(c)'
    <3>1. 1 \in 1 .. m
      BY <1>12
    <3> QED
      BY <1>9, <1>12, <3>1 DEF Owned
  <2>2. \A t \in Shard, i \in Nat : CallAt(t, i, c) => t = s /\ i <= h
    BY <1>12 DEF Elsewhere
  <2>3. ASSUME NEW t \in Shard, NEW i \in Nat, CallAt(t, i, c)' PROVE t = s /\ i = k + 1
    <3>1. t = s
      BY <1>6, <2>2, <2>3
    <3>2. ~(i + h \in Nat /\ i + h > h /\ CallAt(s, i + h, c))
      <4>1. i + h \in Nat => (i + h > h <=> ~(i + h <= h))
        BY <1>4
      <4> QED
        BY <2>2, <4>1
    <3>3. PICK j \in 1 .. m : i = k + j
      BY <1>7, <2>3, <3>1, <3>2
    <3>4. j = 1
      BY <1>12
    <3> QED
      BY <3>1, <3>3, <3>4
  <2> QED
    BY <2>1, <2>3 DEF OneOwner
<1> QED
  BY <1>2, <1>11, <1>12

(* A call whose command is among the first h has no other.                 *)
LEMMA NotElsewhere ==
  ASSUME ScriptInv, NEW s \in Shard, NEW h \in Nat, NEW c \in Call
  PROVE  /\ ~Owned(c) => ~Elsewhere(s, h, c)
         /\ (\E i \in Nat : i <= h /\ CallAt(s, i, c)) => ~Elsewhere(s, h, c)
         /\ (\A i \in Nat : i <= h => ~CallAt(s, i, c)) => (Elsewhere(s, h, c) <=> Owned(c))
<1>1. OneOwner(c)
  BY DEF ScriptInv, CallOK
<1> QED
  BY <1>1 DEF Elsewhere, Owned, OneOwner

(* A call is as it was, or no command that stays is for it.                *)
Settled(s, h) == \A c \in Call : call'[c] = call[c] \/ ~Elsewhere(s, h, c)

(* An open call and what is known of its command, when neither the call    *)
(* nor Redis changes.                                                      *)
LEMMA ElementKept ==
  ASSUME NEW t \in Shard, NEW r, UNCHANGED <<cache, flushes>>,
         r.cmd.call \in Call => call'[r.cmd.call] = call[r.cmd.call]
  PROVE  /\ CommandOK(t, r.cmd) => CommandOK(t, r.cmd)'
         /\ SentOK(t, r.cmd) => SentOK(t, r.cmd)'
         /\ ReplyOK(t, r) => ReplyOK(t, r)'
BY DEF CommandOK, SentOK, ReplyOK, Explained

(* The same for a command.                                                 *)
LEMMA CommandKept ==
  ASSUME NEW t \in Shard, NEW x, UNCHANGED <<cache, flushes>>,
         x.call \in Call => call'[x.call] = call[x.call]
  PROVE  /\ CommandOK(t, x) => CommandOK(t, x)'
         /\ SentOK(t, x) => SentOK(t, x)'
BY DEF CommandOK, SentOK, Explained

(* The call of a command that Redis has not run, or of a reply.            *)
LEMMA CallsOfCommands ==
  ASSUME ScriptTypeOK, NEW t \in Shard
  PROVE  /\ \A i \in 1 .. Len(sent[t]) :
              /\ Len(replies[t]) + i \in Nat
              /\ CallAt(t, Len(replies[t]) + i, sent[t][i].call)
              /\ Outstanding(t)[Len(replies[t]) + i] = sent[t][i]
         /\ \A i \in 1 .. Len(replies[t]) :
              /\ i \in Nat /\ CallAt(t, i, replies[t][i].cmd.call)
              /\ Outstanding(t)[i] = replies[t][i].cmd
         /\ Len(Outstanding(t)) = Len(replies[t]) + Len(sent[t])
         /\ Len(sent[t]) \in Nat /\ Len(replies[t]) \in Nat
<1>1. PICK rs \in Seq(Reply), q \in Seq(Command) : rs = replies[t] /\ q = sent[t]
  BY OutstandingIs
<1>2. PICK o : o = Outstanding(t) /\ o = Commands(rs, q)
  BY <1>1, OutstandingIs
<1>3. PICK n \in Nat, m \in Nat : n = Len(rs) /\ m = Len(q)
  OBVIOUS
<1>4. /\ Len(o) = n + m
      /\ \A i \in 1 .. n : o[i] = rs[i].cmd
      /\ \A i \in 1 .. m : o[n + i] = q[i]
  <2>1. /\ Len(Commands(rs, q)) = Len(rs) + Len(q)
        /\ \A i \in 1 .. Len(rs) : Commands(rs, q)[i] = rs[i].cmd
        /\ \A i \in 1 .. Len(q) : Commands(rs, q)[Len(rs) + i] = q[i]
    BY CommandsAre
  <2> QED
    BY <1>2, <1>3, <2>1
<1>5. \A i \in 1 .. m : n + i \in Nat /\ n + i \in 1 .. n + m
  OBVIOUS
<1>6. \A i \in 1 .. n : i \in Nat /\ i \in 1 .. n + m
  OBVIOUS
<1>7. \A i \in 1 .. m : CallAt(t, n + i, q[i].call)
  BY <1>2, <1>4, <1>5 DEF CallAt
<1>8. \A i \in 1 .. n : CallAt(t, i, rs[i].cmd.call)
  BY <1>2, <1>4, <1>6 DEF CallAt
<1> QED
  BY <1>1, <1>2, <1>3, <1>4, <1>5, <1>6, <1>7, <1>8

(* What is known of every command after such a step.                       *)
LEMMA ElementsAfter ==
  ASSUME ScriptInv, NEW s \in Shard, NEW h \in Nat, NEW q, Keeps(s, h, q), Settled(s, h),
         UNCHANGED <<cache, flushes>>,
         \A j \in 1 .. Len(q) : CommandOK(s, q[j])' /\ SentOK(s, q[j])'
  PROVE  \A t \in Shard :
           /\ \A i \in 1 .. Len(Outstanding(t)') : CommandOK(t, Outstanding(t)[i])'
           /\ \A i \in 1 .. Len(sent'[t]) : SentOK(t, sent[t][i])'
           /\ \A i \in 1 .. Len(replies'[t]) : ReplyOK(t, replies[t][i])'
<1> SUFFICES ASSUME NEW t \in Shard
             PROVE  /\ \A i \in 1 .. Len(Outstanding(t)') : CommandOK(t, Outstanding(t)[i])'
                    /\ \A i \in 1 .. Len(sent'[t]) : SentOK(t, sent[t][i])'
                    /\ \A i \in 1 .. Len(replies'[t]) : ReplyOK(t, replies[t][i])'
  OBVIOUS
<1>0. ScriptTypeOK
  BY DEF ScriptInv
<1>1. ASSUME NEW i \in Nat, NEW c \in Call, CallAt(t, i, c), ~(t = s /\ i <= h)
      PROVE  call'[c] = call[c]
  BY <1>1 DEF Settled, Elsewhere
<1>2. /\ \A i \in 1 .. Len(Outstanding(t)) : CommandOK(t, Outstanding(t)[i])
      /\ \A i \in 1 .. Len(sent[t]) : SentOK(t, sent[t][i])
      /\ \A i \in 1 .. Len(replies[t]) : ReplyOK(t, replies[t][i])
  BY DEF ScriptInv
<1>3. ASSUME NEW i \in 1 .. Len(Outstanding(t)), ~(t = s /\ i <= h), NEW x, x = Outstanding(t)[i]
      PROVE  CommandOK(t, x)'
  <2>1. i \in Nat
    BY <1>0, OutstandingIs
  <2>2. x.call \in Call => call'[x.call] = call[x.call]
    BY <1>1, <1>3, <2>1 DEF CallAt
  <2> QED
    BY <1>2, <1>3, <2>2, CommandKept
<1>4. ASSUME NEW i \in 1 .. Len(sent[t]), ~(t = s /\ Len(replies[t]) + i <= h), NEW x, x = sent[t][i]
      PROVE  SentOK(t, x)'
  <2>1. Len(replies[t]) + i \in Nat /\ CallAt(t, Len(replies[t]) + i, x.call)
    BY <1>0, <1>4, CallsOfCommands
  <2>2. x.call \in Call => call'[x.call] = call[x.call]
    BY <1>1, <1>4, <2>1
  <2> QED
    BY <1>2, <1>4, <2>2, CommandKept
<1>5. ASSUME NEW i \in 1 .. Len(replies[t]), ~(t = s /\ i <= h), NEW x, x = replies[t][i]
      PROVE  ReplyOK(t, x)'
  <2>1. i \in Nat /\ CallAt(t, i, x.cmd.call)
    BY <1>0, <1>5, CallsOfCommands
  <2>2. x.cmd.call \in Call => call'[x.cmd.call] = call[x.cmd.call]
    BY <1>1, <1>5, <2>1
  <2> QED
    BY <1>2, <1>5, <2>2, ElementKept
<1>6. CASE t # s
  <2>1. sent'[t] = sent[t] /\ replies'[t] = replies[t] /\ Outstanding(t)' = Outstanding(t)
    BY <1>6, OthersKept DEF Keeps
  <2>2. ASSUME NEW i \in 1 .. Len(Outstanding(t)') PROVE CommandOK(t, Outstanding(t)[i])'
    <3>1. PICK x : x = Outstanding(t)[i]
      OBVIOUS
    <3>2. CommandOK(t, x)' /\ x = Outstanding(t)'[i]
      BY <1>3, <1>6, <2>1, <3>1
    <3> QED
      BY <3>2
  <2>3. ASSUME NEW i \in 1 .. Len(sent'[t]) PROVE SentOK(t, sent[t][i])'
    <3>1. PICK x : x = sent[t][i]
      OBVIOUS
    <3>2. SentOK(t, x)' /\ x = sent'[t][i]
      BY <1>4, <1>6, <2>1, <3>1
    <3> QED
      BY <3>2
  <2>4. ASSUME NEW i \in 1 .. Len(replies'[t]) PROVE ReplyOK(t, replies[t][i])'
    <3>1. PICK x : x = replies[t][i]
      OBVIOUS
    <3>2. ReplyOK(t, x)' /\ x = replies'[t][i]
      BY <1>5, <1>6, <2>1, <3>1
    <3> QED
      BY <3>2
  <2> QED
    BY <2>2, <2>3, <2>4
<1>7. CASE t = s
  <2>1. ASSUME NEW i \in 1 .. Len(Outstanding(t)') PROVE CommandOK(t, Outstanding(t)[i])'
    <3>1. PICK o, oo, x : o = Outstanding(s) /\ oo = Outstanding(s)' /\ x = oo[i]
      OBVIOUS
    <3>2. PICK n \in Nat, m \in Nat : n = Len(o) /\ m = Len(q)
      <4>1. Len(o) \in Nat
        BY <1>0, <3>1, OutstandingIs
      <4>2. q \in Seq(Command)
        BY DEF Keeps, Shifted
      <4> QED
        BY <4>1, <4>2
    <3>3. /\ h \in 0 .. n /\ i \in 1 .. n - h + m
          /\ \A j \in 1 .. n - h : oo[j] = o[j + h]
          /\ \A j \in 1 .. m : oo[n - h + j] = q[j]
      BY <1>7, <2>1, <3>1, <3>2 DEF Keeps, Shifted
    <3>4. CASE i \in 1 .. n - h
      <4>1. i + h \in 1 .. n /\ ~(i + h <= h)
        BY <3>3, <3>4
      <4>2. x = o[i + h]
        BY <3>1, <3>3, <3>4
      <4>3. CommandOK(t, x)'
        BY <1>3, <1>7, <3>1, <3>2, <4>1, <4>2
      <4> QED
        BY <1>7, <3>1, <4>3
    <3>5. CASE i \notin 1 .. n - h
      <4>1. PICK j \in 1 .. m : i = n - h + j
        <5>1. i - (n - h) \in 1 .. m /\ i = n - h + (i - (n - h))
          BY <3>3, <3>5
        <5> QED
          BY <5>1
      <4>2. x = q[j]
        BY <3>1, <3>3, <4>1
      <4>3. CommandOK(s, x)'
        BY <3>2, <4>2
      <4> QED
        BY <1>7, <3>1, <4>3
    <3> QED
      BY <3>4, <3>5
  <2>2. ASSUME NEW i \in 1 .. Len(sent'[t]) PROVE SentOK(t, sent[t][i])'
    <3>1. PICK x : x = sent'[t][i]
      OBVIOUS
    <3>2. CASE \E j \in 1 .. Len(q) : x = q[j]
      <4>1. SentOK(s, x)'
        BY <3>2
      <4> QED
        BY <1>7, <3>1, <4>1
    <3>3. CASE \E j \in 1 .. Len(sent[s]) : Len(replies[s]) + j > h /\ x = sent[s][j]
      <4>1. PICK j \in 1 .. Len(sent[s]) : Len(replies[s]) + j > h /\ x = sent[s][j]
        BY <3>3
      <4>2. ~(Len(replies[s]) + j <= h)
        <5>1. PICK k \in Nat : k = Len(replies[s]) + j
          BY <1>0, CallsOfCommands
        <5> QED
          BY <4>1, <5>1
      <4>3. SentOK(t, x)'
        BY <1>4, <1>7, <4>1, <4>2
      <4> QED
        BY <3>1, <4>3
    <3> QED
      BY <1>7, <3>1, <3>2, <3>3 DEF Keeps
  <2>3. ASSUME NEW i \in 1 .. Len(replies'[t]) PROVE ReplyOK(t, replies[t][i])'
    <3>1. PICK x : x = replies'[t][i]
      OBVIOUS
    <3>2. PICK j \in 1 .. Len(replies[s]) : j > h /\ x = replies[s][j]
      BY <1>7, <3>1 DEF Keeps
    <3>3. ~(j <= h)
      BY <3>2
    <3>4. ReplyOK(t, x)'
      BY <1>5, <1>7, <3>2, <3>3
    <3> QED
      BY <3>1, <3>4
  <2> QED
    BY <2>1, <2>2, <2>3
<1> QED
  BY <1>6, <1>7

(* Commands leave, and then others arrive.                                 *)
LEMMA ShiftedThen ==
  ASSUME NEW o \in Seq(Command), NEW x, NEW oo, NEW h, NEW q,
         Shifted(o, x, h, << >>), Shifted(x, oo, 0, q)
  PROVE  Shifted(o, oo, h, q)
<1>1. PICK n \in Nat, m \in Nat, k \in Nat : n = Len(o) /\ m = Len(q) /\ k = Len(x)
  <2>1. q \in Seq(Command) /\ x \in Seq(Command)
    BY DEF Shifted
  <2> QED
    BY <2>1
<1>2. /\ h \in 0 .. n /\ k = n - h + Len(<< >>) /\ \A i \in 1 .. n - h : x[i] = o[i + h]
  BY <1>1 DEF Shifted
<1>3. k = n - h
  BY <1>1, <1>2
<1>4. /\ oo \in Seq(Command) /\ q \in Seq(Command) /\ Len(oo) = k - 0 + m
      /\ \A i \in 1 .. k - 0 : oo[i] = x[i + 0]
      /\ \A i \in 1 .. m : oo[k - 0 + i] = q[i]
  BY <1>1 DEF Shifted
<1>5. k - 0 = k /\ \A i \in 1 .. k : i + 0 = i
  BY <1>1
<1>6. Len(oo) = k + m /\ (\A i \in 1 .. k : oo[i] = x[i]) /\ \A i \in 1 .. m : oo[k + i] = q[i]
  BY <1>4, <1>5
<1>7. \A i \in 1 .. k : oo[i] = o[i + h]
  BY <1>2, <1>3, <1>6
<1> QED
  BY <1>1, <1>2, <1>3, <1>4, <1>6, <1>7 DEF Shifted

(* v_port_db_cmd() on shard s,                                             *)
LEMMA SendKeeps ==
  ASSUME ScriptTypeOK, NEW s \in Shard, NEW q \in Seq(Command),
         sent' = [sent EXCEPT ![s] = @ \o q], UNCHANGED replies
  PROVE  Keeps(s, 0, q)
<1>1. PICK rs \in Seq(Reply), p \in Seq(Command) : rs = replies[s] /\ p = sent[s]
  BY OutstandingIs
<1>2. sent'[s] = p \o q /\ replies'[s] = rs /\ \A t \in Shard : t # s => sent'[t] = sent[t]
  BY <1>1 DEF ScriptTypeOK
<1>3. PICK x : x = p \o q
  OBVIOUS
<1>4. PICK n \in Nat, m \in Nat, k \in Nat : n = Len(rs) /\ m = Len(p) /\ k = Len(q)
  OBVIOUS
<1>5. x \in Seq(Command) /\ Len(x) = m + k /\ (\A i \in 1 .. m : x[i] = p[i])
      /\ \A i \in 1 .. k : x[m + i] = q[i]
  <2>1. /\ p \o q \in Seq(Command) /\ Len(p \o q) = Len(p) + Len(q)
        /\ \A i \in 1 .. Len(p) : (p \o q)[i] = p[i]
        /\ \A i \in 1 .. Len(q) : (p \o q)[Len(p) + i] = q[i]
    BY Joined
  <2> QED
    BY <1>3, <1>4, <2>1
<1>6. sent' \in [Shard -> Seq(Command)] /\ replies' \in [Shard -> Seq(Reply)]
  <2>1. sent' = [sent EXCEPT ![s] = x]
    BY <1>1, <1>3
  <2> QED
    BY <1>5, <2>1 DEF ScriptTypeOK
<1>7. Shifted(Outstanding(s), Outstanding(s)', 0, q)
  <2>1. Outstanding(s) = Commands(rs, p)
    BY <1>1, OutstandingIs
  <2>2. Outstanding(s)' = Commands(rs, p \o q)
    BY <1>2 DEF Outstanding, Commands
  <2> QED
    BY <2>1, <2>2, CommandsSent
<1>8. ASSUME NEW i \in 1 .. Len(x)
      PROVE  \/ \E j \in 1 .. k : x[i] = q[j]
             \/ \E j \in 1 .. m : n + j > 0 /\ x[i] = p[j]
  <2>1. CASE i \in 1 .. m
    <3>1. n + i > 0
      BY <2>1
    <3> QED
      BY <1>5, <2>1, <3>1
  <2>2. CASE i \notin 1 .. m
    <3>1. i - m \in 1 .. k /\ m + (i - m) = i
      BY <1>5, <2>2
    <3>2. x[m + (i - m)] = q[i - m]
      BY <1>5, <3>1
    <3> QED
      BY <3>1, <3>2
  <2> QED
    BY <2>1, <2>2
<1>9. \A i \in 1 .. n : i > 0
  OBVIOUS
<1>10. /\ sent'[s] = x /\ replies'[s] = rs /\ sent[s] = p /\ replies[s] = rs
       /\ Len(replies[s]) = n /\ Len(sent[s]) = m
  BY <1>1, <1>2, <1>3, <1>4
<1>11. \A i \in 1 .. Len(sent'[s]) :
         \/ \E j \in 1 .. Len(q) : sent'[s][i] = q[j]
         \/ \E j \in 1 .. Len(sent[s]) : Len(replies[s]) + j > 0 /\ sent'[s][i] = sent[s][j]
  <2>1. \A i \in 1 .. Len(x) : \/ \E j \in 1 .. Len(q) : x[i] = q[j]
                               \/ \E j \in 1 .. Len(p) : Len(rs) + j > 0 /\ x[i] = p[j]
    <3>1. Len(rs) = n /\ Len(p) = m /\ k = Len(q)
      BY <1>4
    <3> QED
      BY <1>8, <3>1, Zenon
  <2>2. ASSUME NEW i \in 1 .. Len(sent'[s])
        PROVE  \/ \E j \in 1 .. Len(q) : sent'[s][i] = q[j]
               \/ \E j \in 1 .. Len(sent[s]) : Len(replies[s]) + j > 0 /\ sent'[s][i] = sent[s][j]
    <3>1. i \in 1 .. Len(x) /\ sent'[s][i] = x[i]
      BY <1>10
    <3>2. \/ \E j \in 1 .. Len(q) : x[i] = q[j]
          \/ \E j \in 1 .. Len(p) : Len(rs) + j > 0 /\ x[i] = p[j]
      BY <2>1, <3>1
    <3> QED
      BY <1>10, <3>1, <3>2
  <2> QED
    BY <2>2
<1>12. \A i \in 1 .. Len(replies'[s]) :
         \E j \in 1 .. Len(replies[s]) : j > 0 /\ replies'[s][i] = replies[s][j]
  BY <1>4, <1>9, <1>10
<1> QED
  BY <1>2, <1>6, <1>7, <1>11, <1>12 DEF Keeps

(* on_reply() on shard s, whose callback may send,                         *)
LEMMA HearKeeps ==
  ASSUME ScriptTypeOK, NEW s \in Shard, NEW q \in Seq(Command), replies[s] # << >>,
         sent' = [sent EXCEPT ![s] = @ \o q], Consumed(s)
  PROVE  Keeps(s, 1, q)
<1>1. PICK rs \in Seq(Reply), p \in Seq(Command) : rs = replies[s] /\ p = sent[s] /\ rs # << >>
  BY OutstandingIs
<1>2. /\ sent'[s] = p \o q /\ replies'[s] = Tail(rs)
      /\ \A t \in Shard : t # s => sent'[t] = sent[t] /\ replies'[t] = replies[t]
  BY <1>1 DEF ScriptTypeOK, Consumed
<1>3. PICK x, rr : x = p \o q /\ rr = Tail(rs)
  OBVIOUS
<1>4. PICK n \in Nat, m \in Nat, k \in Nat : n = Len(rs) /\ m = Len(p) /\ k = Len(q)
  OBVIOUS
<1>5. x \in Seq(Command) /\ Len(x) = m + k /\ (\A i \in 1 .. m : x[i] = p[i])
      /\ \A i \in 1 .. k : x[m + i] = q[i]
  <2>1. /\ p \o q \in Seq(Command) /\ Len(p \o q) = Len(p) + Len(q)
        /\ \A i \in 1 .. Len(p) : (p \o q)[i] = p[i]
        /\ \A i \in 1 .. Len(q) : (p \o q)[Len(p) + i] = q[i]
    BY Joined
  <2> QED
    BY <1>3, <1>4, <2>1
<1>6. /\ rr \in Seq(Reply) /\ Len(rr) = n - 1 /\ n > 0
      /\ \A i \in 1 .. n - 1 : rr[i] = rs[i + 1]
  <2>1. /\ Tail(rs) \in Seq(Reply) /\ Len(Tail(rs)) = Len(rs) - 1 /\ Len(rs) # 0
        /\ \A i \in 1 .. Len(rs) - 1 : Tail(rs)[i] = rs[i + 1]
    BY <1>1
  <2>2. n > 0
    BY <1>4, <2>1
  <2> QED
    BY <1>3, <1>4, <2>1, <2>2
<1>7. sent' \in [Shard -> Seq(Command)] /\ replies' \in [Shard -> Seq(Reply)]
  <2>1. sent' = [sent EXCEPT ![s] = x] /\ replies' = [replies EXCEPT ![s] = rr]
    BY <1>1, <1>3 DEF Consumed
  <2> QED
    BY <1>5, <1>6, <2>1 DEF ScriptTypeOK
<1>8. Shifted(Outstanding(s), Outstanding(s)', 1, q)
  <2>0. PICK o \in Seq(Command) : o = Commands(rs, p)
    BY CommandsAre
  <2>1. PICK y, oo :
          o = Commands(rs, p) /\ y = Commands(rr, p) /\ oo = Commands(rr, p \o q)
    BY <2>0
  <2>2. Outstanding(s) = o
    BY <1>1, <2>1, OutstandingIs
  <2>3. Outstanding(s)' = oo
    BY <1>2, <1>3, <2>1 DEF Outstanding, Commands
  <2>4. Shifted(o, y, 1, << >>)
    BY <1>1, <1>3, <2>1, CommandsHeard
  <2>5. Shifted(y, oo, 0, q)
    BY <1>6, <2>1, CommandsSent
  <2>6. Shifted(o, oo, 1, q)
    BY <2>4, <2>5, ShiftedThen
  <2> QED
    BY <2>2, <2>3, <2>6
<1>9. ASSUME NEW i \in 1 .. Len(x)
      PROVE  \/ \E j \in 1 .. k : x[i] = q[j]
             \/ \E j \in 1 .. m : n + j > 1 /\ x[i] = p[j]
  <2>1. CASE i \in 1 .. m
    <3>1. n + i > 1
      BY <1>6, <2>1
    <3> QED
      BY <1>5, <2>1, <3>1
  <2>2. CASE i \notin 1 .. m
    <3>1. i - m \in 1 .. k /\ m + (i - m) = i
      BY <1>5, <2>2
    <3>2. x[m + (i - m)] = q[i - m]
      BY <1>5, <3>1
    <3> QED
      BY <3>1, <3>2
  <2> QED
    BY <2>1, <2>2
<1>10. ASSUME NEW i \in 1 .. Len(rr) PROVE \E j \in 1 .. n : j > 1 /\ rr[i] = rs[j]
  <2>1. i \in 1 .. n - 1 /\ i + 1 \in 1 .. n /\ i + 1 > 1
    BY <1>6
  <2> QED
    BY <1>6, <2>1
<1>11. /\ sent'[s] = x /\ replies'[s] = rr /\ sent[s] = p /\ replies[s] = rs
       /\ Len(replies[s]) = n /\ Len(sent[s]) = m
  BY <1>1, <1>2, <1>3, <1>4
<1>12. \A i \in 1 .. Len(sent'[s]) :
         \/ \E j \in 1 .. Len(q) : sent'[s][i] = q[j]
         \/ \E j \in 1 .. Len(sent[s]) : Len(replies[s]) + j > 1 /\ sent'[s][i] = sent[s][j]
  <2>1. \A i \in 1 .. Len(x) : \/ \E j \in 1 .. Len(q) : x[i] = q[j]
                               \/ \E j \in 1 .. Len(p) : Len(rs) + j > 1 /\ x[i] = p[j]
    <3>1. Len(rs) = n /\ Len(p) = m /\ k = Len(q)
      BY <1>4
    <3> QED
      BY <1>9, <3>1, Zenon
  <2>2. ASSUME NEW i \in 1 .. Len(sent'[s])
        PROVE  \/ \E j \in 1 .. Len(q) : sent'[s][i] = q[j]
               \/ \E j \in 1 .. Len(sent[s]) : Len(replies[s]) + j > 1 /\ sent'[s][i] = sent[s][j]
    <3>1. i \in 1 .. Len(x) /\ sent'[s][i] = x[i]
      BY <1>11
    <3>2. \/ \E j \in 1 .. Len(q) : x[i] = q[j]
          \/ \E j \in 1 .. Len(p) : Len(rs) + j > 1 /\ x[i] = p[j]
      BY <2>1, <3>1
    <3> QED
      BY <1>11, <3>1, <3>2
  <2> QED
    BY <2>2
<1>13. \A i \in 1 .. Len(replies'[s]) :
         \E j \in 1 .. Len(replies[s]) : j > 1 /\ replies'[s][i] = replies[s][j]
  BY <1>10, <1>11
<1> QED
  BY <1>2, <1>7, <1>8, <1>12, <1>13 DEF Keeps

(* and the end of its context.                                             *)
LEMMA TeardownKeeps ==
  ASSUME ScriptTypeOK, NEW s \in Shard, sent' = [sent EXCEPT ![s] = << >>],
         replies' = [replies EXCEPT ![s] = << >>]
  PROVE  Keeps(s, Len(Outstanding(s)), << >>)
<1>1. /\ sent'[s] = << >> /\ replies'[s] = << >>
      /\ \A t \in Shard : t # s => sent'[t] = sent[t] /\ replies'[t] = replies[t]
      /\ sent' \in [Shard -> Seq(Command)] /\ replies' \in [Shard -> Seq(Reply)]
  BY DEF ScriptTypeOK
<1>2. Len(<< >>) = 0 /\ << >> \in Seq(Command) /\ << >> \in Seq(Reply) /\ \A i : i \notin 1 .. 0
  OBVIOUS
<1>3. Outstanding(s)' = Commands(<< >>, << >>)
  BY <1>1 DEF Outstanding, Commands
<1>4. PICK oo : oo = Outstanding(s)' /\ oo \in Seq(Command) /\ Len(oo) = 0
  <2>1. Commands(<< >>, << >>) \in Seq(Command) /\ Len(Commands(<< >>, << >>)) = Len(<< >>) + Len(<< >>)
    BY <1>2, CommandsAre
  <2> QED
    BY <1>2, <1>3, <2>1
<1>5. PICK n \in Nat : n = Len(Outstanding(s))
  BY OutstandingIs
<1>6. n \in 0 .. n /\ n - n + 0 = 0 /\ n - n = 0
  OBVIOUS
<1>7. Shifted(Outstanding(s), oo, n, << >>)
  BY <1>2, <1>4, <1>5, <1>6 DEF Shifted
<1> QED
  BY <1>1, <1>2, <1>4, <1>5, <1>7 DEF Keeps

-----------------------------------------------------------------------------
(* The invariant after one step of the connections.                        *)

(* A call that the step is not about.                                      *)
LEMMA CallKept ==
  ASSUME ScriptInv, NEW s \in Shard, NEW h \in Nat, NEW q, Keeps(s, h, q), NEW c \in Call,
         UNCHANGED flushes, call'[c] = call[c],
         \A j \in 1 .. Len(q) : q[j].call # c, \A i \in Nat : i <= h => ~CallAt(s, i, c)
  PROVE  CallOK(c)'
<1>1. OneOwner(c)' /\ (Owned(c)' <=> Elsewhere(s, h, c))
  BY OwnersAfter
<1>2. Elsewhere(s, h, c) <=> Owned(c)
  BY NotElsewhere
<1>3. CallOK(c)
  BY DEF ScriptInv
<1>4. c \in OpenCalls' <=> c \in OpenCalls
  BY DEF OpenCalls
<1> QED
  BY <1>1, <1>2, <1>3, <1>4 DEF CallOK

(* What the step does to the pools.                                        *)
Accounted(s, h, q) ==
  /\ evalFree' \in Nat /\ loadFree' \in Nat /\ dbFree' \in Nat
  /\ IsFiniteSet(OpenCalls') /\ evalFree' = EvalCap - Cardinality(OpenCalls')
  /\ loadFree' = loadFree + Cardinality(FirstLoads(Outstanding(s), h)) - Cardinality(LoadsIn(q))
  /\ dbFree' = dbFree + h - Len(q)

(* The types of what the step may change besides.                          *)
TypedStep ==
  /\ g_sha' \in [Shard -> SUBSET Script]
  /\ link' \in [Shard -> {"down", "connecting", "up", "failed"}]
  /\ late' \in [Shard -> SUBSET Command]
  /\ call' \in [Call -> CallRecord]
  /\ connects' \in [Shard -> 0 .. MaxConnect]

(* A pool that holds all but the objects in use holds at most all.         *)
LEMMA PoolRange ==
  ASSUME NEW cap \in Nat, NEW used \in Nat, NEW free \in Nat, free = cap - used
  PROVE  free \in 0 .. cap
OBVIOUS

(* A step that removes the first h commands of shard s, sends q and        *)
(* settles the calls concerned preserves the invariant.                    *)
LEMMA StepInv ==
  ASSUME ScriptInv, NEW s \in Shard, NEW h \in Nat, NEW q, Keeps(s, h, q), Settled(s, h),
         UNCHANGED <<cache, flushes>>, TypedStep, Accounted(s, h, q),
         \A j \in 1 .. Len(q) : CommandOK(s, q[j])' /\ SentOK(s, q[j])',
         \A c \in Call : CallOK(c)'
  PROVE  ScriptInv'
<1>0. ScriptTypeOK /\ Counts
  BY DEF ScriptInv
<1>1. PICK o, oo : o = Outstanding(s) /\ oo = Outstanding(s)'
  OBVIOUS
<1>2. Shifted(o, oo, h, q)
  BY <1>1 DEF Keeps
<1>3. PICK n \in Nat, m \in Nat, k \in Nat : n = Len(o) /\ m = Len(q) /\ k = Len(oo)
  <2>1. q \in Seq(Command) /\ oo \in Seq(Command)
    BY <1>2 DEF Shifted
  <2>2. Len(o) \in Nat
    BY <1>0, <1>1, OutstandingIs
  <2> QED
    BY <2>1, <2>2
<1>4. PICK d \in Nat, dd \in Nat : d = dbFree /\ dd = dbFree'
  <2>1. dbFree \in Nat
    BY <1>0 DEF ScriptTypeOK
  <2>2. dbFree' \in Nat
    BY DEF Accounted
  <2> QED
    BY <2>1, <2>2
<1>5. PendingCap \in Nat /\ EvalCap \in Nat /\ LoadCap \in Nat
  BY PoolAssumption
<1>6. k <= PendingCap
  <2>1. n + d <= PendingCap
    BY <1>1, <1>3, <1>4, RoomLeft
  <2>2. k = n - h + m /\ dd = d + h - m
    BY <1>2, <1>3, <1>4 DEF Shifted, Accounted
  <2>3. PICK cap \in Nat : cap = PendingCap
    BY <1>5
  <2>4. k <= cap
    BY <2>1, <2>2, <2>3
  <2> QED
    BY <2>3, <2>4
<1>7. \A t \in Shard : t # s => Outstanding(t)' = Outstanding(t)
  BY OthersKept
<1>8. /\ IsFiniteSet(AllAt') /\ IsFiniteSet(LoadsAt')
      /\ Cardinality(AllAt') \in Nat /\ Cardinality(LoadsAt') \in Nat
      /\ Cardinality(AllAt') + h = Cardinality(AllAt) + Len(q)
      /\ Cardinality(LoadsAt') + Cardinality(FirstLoads(o, h))
           = Cardinality(LoadsAt) + Cardinality(LoadsIn(q))
  BY <1>1, <1>2, <1>3, <1>6, <1>7, PositionsAfter
<1>9. /\ Cardinality(LoadsIn(q)) \in Nat /\ Cardinality(FirstLoads(o, h)) \in Nat
  BY <1>0, <1>1, <1>2, LoadsShifted, OutstandingIs
<1>10. PICK a \in Nat, aa \in Nat, l \in Nat, ll \in Nat, f \in Nat, g \in Nat :
         /\ a = Cardinality(AllAt) /\ aa = Cardinality(AllAt')
         /\ l = Cardinality(LoadsAt) /\ ll = Cardinality(LoadsAt')
         /\ f = Cardinality(FirstLoads(o, h)) /\ g = Cardinality(LoadsIn(q))
  <2>1. Cardinality(AllAt) \in Nat /\ Cardinality(LoadsAt) \in Nat
    BY <1>0, FS_CardinalityType DEF Counts
  <2> QED
    BY <1>8, <1>9, <2>1
<1>11. aa + h = a + m /\ ll + f = l + g
  BY <1>3, <1>8, <1>10
<1>12. dbFree = PendingCap - a /\ loadFree = LoadCap - l
  BY <1>0, <1>10 DEF Counts
<1>13. dbFree' = dbFree + h - m /\ loadFree' = loadFree + f - g
  BY <1>1, <1>3, <1>10 DEF Accounted
<1>14. dbFree' = PendingCap - aa /\ loadFree' = LoadCap - ll
  <2>1. PICK x \in Nat, y \in Nat, e \in Nat, w \in Nat :
          x = PendingCap /\ y = LoadCap /\ e = dbFree /\ w = loadFree
    BY <1>0, <1>5 DEF ScriptTypeOK
  <2>2. e = x - a /\ w = y - l
    BY <1>12, <2>1
  <2>3. e + h - m = x - aa /\ w + f - g = y - ll
    BY <1>11, <2>2
  <2> QED
    BY <1>13, <2>1, <2>3
<1>15. Counts'
  BY <1>8, <1>10, <1>14 DEF Counts, Accounted
<1>16. ScriptTypeOK'
  <2>1. evalFree' \in 0 .. EvalCap
    <3>1. Cardinality(OpenCalls') \in Nat /\ evalFree' \in Nat /\ evalFree' = EvalCap - Cardinality(OpenCalls')
      BY FS_CardinalityType DEF Accounted
    <3> QED
      BY <1>5, <3>1, PoolRange
  <2>2. loadFree' \in 0 .. LoadCap /\ dbFree' \in 0 .. PendingCap
    <3>1. loadFree' \in Nat /\ dbFree' \in Nat
      BY DEF Accounted
    <3> QED
      BY <1>5, <1>14, <3>1, PoolRange
  <2>3. sent' \in [Shard -> Seq(Command)] /\ replies' \in [Shard -> Seq(Reply)]
    BY DEF Keeps
  <2>4. cache' \in [Shard -> SUBSET Script] /\ flushes' \in [Shard -> 0 .. MaxFlush]
    BY <1>0 DEF ScriptTypeOK
  <2> QED
    BY <2>1, <2>2, <2>3, <2>4 DEF ScriptTypeOK, TypedStep
<1>17. \A t \in Shard : Len(Outstanding(t)') <= PendingCap
  BY <1>1, <1>3, <1>6, <1>7 DEF ScriptInv
<1>18. \A t \in Shard :
         /\ \A i \in 1 .. Len(Outstanding(t)') : CommandOK(t, Outstanding(t)[i])'
         /\ \A i \in 1 .. Len(sent'[t]) : SentOK(t, sent[t][i])'
         /\ \A i \in 1 .. Len(replies'[t]) : ReplyOK(t, replies[t][i])'
  BY ElementsAfter
<1> QED
  BY <1>15, <1>16, <1>17, <1>18 DEF ScriptInv

-----------------------------------------------------------------------------
(* What the actions have in common.                                        *)

(* One command sent, and none.                                             *)
LEMMA SendOne ==
  ASSUME ScriptTypeOK, NEW s \in Shard, NEW x \in Command,
         sent' = [sent EXCEPT ![s] = Append(@, x)]
  PROVE  sent' = [sent EXCEPT ![s] = @ \o <<x>>]
<1>1. sent[s] \in Seq(Command)
  BY DEF ScriptTypeOK
<1>2. Append(sent[s], x) = sent[s] \o <<x>>
  BY <1>1, AppendIsConcat
<1> QED
  BY <1>2

(* A step that sends nothing sends the empty sequence.                     *)
LEMMA SendNone ==
  ASSUME ScriptTypeOK, NEW s \in Shard, UNCHANGED sent
  PROVE  sent' = [sent EXCEPT ![s] = @ \o << >>]
<1>1. sent \in [Shard -> Seq(Command)] /\ sent[s] \in Seq(Command)
  BY DEF ScriptTypeOK
<1>2. sent[s] \o << >> = sent[s]
  BY <1>1, ConcatEmptySeq
<1> QED
  BY <1>1, <1>2

(* The commands that issue_evalsha() and request_script_load() send.       *)
LEMMA CommandMade ==
  ASSUME NEW c \in Call \cup {NoCall}, NEW k \in Script
  PROVE  /\ Eval(c, k) \in Command /\ Load(c, k) \in Command
         /\ Eval(c, k).op = "EVALSHA" /\ Eval(c, k).call = c /\ Eval(c, k).script = k
         /\ Load(c, k).op = "LOAD" /\ Load(c, k).call = c /\ Load(c, k).script = k
BY DEF Eval, Load, Command

(* How many commands that load a script arrive or leave.                   *)
LEMMA LoadCounts ==
  ASSUME NEW x, NEW o
  PROVE  /\ Len(<<x>>) = 1 /\ <<x>>[1] = x /\ (x \in Command => <<x>> \in Seq(Command))
         /\ Len(<< >>) = 0 /\ << >> \in Seq(Command)
         /\ Cardinality(LoadsIn(<<x>>)) = IF x.op = "LOAD" THEN 1 ELSE 0
         /\ Cardinality(LoadsIn(<< >>)) = 0
         /\ Cardinality(FirstLoads(o, 0)) = 0
         /\ Cardinality(FirstLoads(o, 1)) = IF o[1].op = "LOAD" THEN 1 ELSE 0
<1>1. Cardinality({}) = 0 /\ Cardinality({1}) = 1
  BY FS_EmptySet, FS_Singleton
<1>2. LoadsIn(<<x>>) = IF x.op = "LOAD" THEN {1} ELSE {}
  <2>1. Len(<<x>>) = 1 /\ <<x>>[1] = x /\ \A i : i \in 1 .. 1 <=> i = 1
    OBVIOUS
  <2> QED
    BY <2>1 DEF LoadsIn
<1>3. LoadsIn(<< >>) = {} /\ FirstLoads(o, 0) = {}
  <2>1. Len(<< >>) = 0 /\ \A i : i \notin 1 .. 0
    OBVIOUS
  <2> QED
    BY <2>1 DEF LoadsIn, FirstLoads
<1>4. FirstLoads(o, 1) = IF o[1].op = "LOAD" THEN {1} ELSE {}
  <2>1. \A i : i \in 1 .. 1 <=> i = 1
    OBVIOUS
  <2> QED
    BY <2>1 DEF FirstLoads
<1>5. /\ Len(<<x>>) = 1 /\ <<x>>[1] = x /\ (x \in Command => <<x>> \in Seq(Command))
      /\ Len(<< >>) = 0 /\ << >> \in Seq(Command)
  OBVIOUS
<1>6. /\ Cardinality(LoadsIn(<<x>>)) = IF x.op = "LOAD" THEN 1 ELSE 0
      /\ Cardinality(LoadsIn(<< >>)) = 0
      /\ Cardinality(FirstLoads(o, 0)) = 0
      /\ Cardinality(FirstLoads(o, 1)) = IF o[1].op = "LOAD" THEN 1 ELSE 0
  BY <1>1, <1>2, <1>3, <1>4
<1> QED
  BY <1>5, <1>6

(* g_evalsha_pool after the step.                                          *)
EvalsAfter ==
  /\ evalFree' \in Nat /\ IsFiniteSet(OpenCalls')
  /\ evalFree' = EvalCap - Cardinality(OpenCalls')

(* No call becomes open or is answered,                                    *)
LEMMA EvalsSame ==
  ASSUME ScriptInv, OpenCalls' = OpenCalls, evalFree' = evalFree
  PROVE  EvalsAfter
<1>1. evalFree \in Nat
  BY DEF ScriptInv, ScriptTypeOK
<1> QED
  BY <1>1 DEF EvalsAfter, ScriptInv, Counts

(* one becomes open,                                                       *)
LEMMA EvalsTaken ==
  ASSUME ScriptInv, NEW c, c \notin OpenCalls, OpenCalls' = OpenCalls \cup {c},
         evalFree > 0, evalFree' = evalFree - 1
  PROVE  EvalsAfter
<1>1. IsFiniteSet(OpenCalls) /\ evalFree = EvalCap - Cardinality(OpenCalls)
  BY DEF ScriptInv, Counts
<1>2. IsFiniteSet(OpenCalls') /\ Cardinality(OpenCalls') = Cardinality(OpenCalls) + 1
  BY <1>1, FS_AddElement
<1>3. PICK n \in Nat, f \in Nat, cap \in Nat :
        n = Cardinality(OpenCalls) /\ f = evalFree /\ cap = EvalCap
  <2>1. Cardinality(OpenCalls) \in Nat /\ EvalCap \in Nat
    BY <1>1, FS_CardinalityType, PoolAssumption
  <2>2. evalFree \in Nat
    BY DEF ScriptInv, ScriptTypeOK
  <2> QED
    BY <2>1, <2>2
<1>4. f = cap - n /\ f > 0
  BY <1>1, <1>3
<1>5. f - 1 \in Nat /\ f - 1 = cap - (n + 1)
  BY <1>4
<1> QED
  BY <1>2, <1>3, <1>5 DEF EvalsAfter

(* those of a set D are answered,                                          *)
LEMMA EvalsFreed ==
  ASSUME ScriptInv, NEW D, D \subseteq OpenCalls, OpenCalls' = OpenCalls \ D,
         evalFree' = evalFree + Cardinality(D)
  PROVE  EvalsAfter
<1>1. IsFiniteSet(OpenCalls) /\ evalFree = EvalCap - Cardinality(OpenCalls)
  BY DEF ScriptInv, Counts
<1>2. IsFiniteSet(D) /\ OpenCalls \cap D = D
  BY <1>1, FS_Subset
<1>3. IsFiniteSet(OpenCalls') /\ Cardinality(OpenCalls') = Cardinality(OpenCalls) - Cardinality(D)
  BY <1>1, <1>2, FS_Difference
<1>4. PICK n \in Nat, f \in Nat, cap \in Nat, d \in Nat :
        n = Cardinality(OpenCalls) /\ f = evalFree /\ cap = EvalCap /\ d = Cardinality(D)
  <2>1. Cardinality(OpenCalls) \in Nat /\ EvalCap \in Nat /\ Cardinality(D) \in Nat
    BY <1>1, <1>2, FS_CardinalityType, PoolAssumption
  <2>2. evalFree \in Nat
    BY DEF ScriptInv, ScriptTypeOK
  <2> QED
    BY <2>1, <2>2
<1>5. f = cap - n
  BY <1>1, <1>4
<1>6. f + d \in Nat /\ f + d = cap - (n - d)
  BY <1>5
<1> QED
  BY <1>3, <1>4, <1>6 DEF EvalsAfter

(* or one is.                                                              *)
LEMMA EvalsPut ==
  ASSUME ScriptInv, NEW c, c \in OpenCalls, OpenCalls' = OpenCalls \ {c}, evalFree' = evalFree + 1
  PROVE  EvalsAfter
<1>1. Cardinality({c}) = 1
  BY FS_Singleton
<1>2. PICK D : D = {c}
  OBVIOUS
<1> QED
  BY <1>1, <1>2, EvalsFreed

-----------------------------------------------------------------------------
(* v_db_evalsha().                                                         *)

(* The record of a call that is made.                                      *)
Made(c, s, k, ret, answers) ==
  /\ call' \in [Call -> CallRecord]
  /\ \A d \in Call : d # c => call'[d] = call[d]
  /\ call'[c].shard = s /\ call'[c].script = k /\ ~call'[c].retried
  /\ call'[c].ret = ret /\ call'[c].answers = answers /\ call'[c].ran = 0
  /\ call'[c].spared <= flushes[s] + 1
  /\ k \notin cache[s] => flushes[s] >= call'[c].spared
  /\ ~Owned(c) /\ c \notin OpenCalls

(* v_db_evalsha() fills it in.                                             *)
LEMMA CallMade ==
  ASSUME ScriptInv, NEW c \in Call, call[c].ret = "none", NEW s \in Shard, NEW k \in Script,
         NEW ret \in {"OK", "ERR"}, NEW answers \in Seq(Result \cup {"fail"}),
         Called(c, s, k, ret, answers)
  PROVE  Made(c, s, k, ret, answers)
<1>1. call \in [Call -> CallRecord] /\ flushes[s] \in Nat
  BY DEF ScriptInv, ScriptTypeOK
<1>2. PICK n \in Nat, e \in {0, 1} : n = flushes[s] /\ e = IF k \in cache[s] THEN 1 ELSE 0
  BY <1>1
<1>3. PICK cc : cc = [shard |-> s, script |-> k, retried |-> FALSE, ret |-> ret,
                      answers |-> answers, ran |-> 0, spared |-> n + e]
  OBVIOUS
<1>4. call' = [call EXCEPT ![c] = cc]
  BY <1>2, <1>3 DEF Called
<1>5. n + e \in Nat /\ n + e <= n + 1 /\ (k \notin cache[s] => n >= n + e)
  BY <1>2
<1>6. cc \in CallRecord
  BY <1>3, <1>5 DEF CallRecord
<1>7. call'[c] = cc /\ call' \in [Call -> CallRecord] /\ \A d \in Call : d # c => call'[d] = call[d]
  BY <1>1, <1>4, <1>6
<1>8. c \notin OpenCalls
  BY DEF OpenCalls
<1>9. ~Owned(c)
  BY <1>8 DEF ScriptInv, CallOK
<1> QED
  BY <1>2, <1>3, <1>5, <1>7, <1>8, <1>9 DEF Made

(* What the call leaves alone.                                             *)
LEMMA MadeSettles ==
  ASSUME ScriptInv, NEW c \in Call, NEW s \in Shard, ~Owned(c),
         \A d \in Call : d # c => call'[d] = call[d]
  PROVE  Settled(s, 0) /\ ~Elsewhere(s, 0, c) /\ \A d, i : i \in Nat /\ i <= 0 => ~CallAt(s, i, d)
<1>1. ~Elsewhere(s, 0, c)
  BY NotElsewhere
<1>2. \A i \in Nat : i <= 0 => i \notin 1 .. Len(Outstanding(s))
  BY OutstandingIs DEF ScriptInv
<1> QED
  BY <1>1, <1>2 DEF Settled, CallAt

(* A call that is refused, or answered before it returns.                  *)
Done(ret, answers) ==
  (ret = "ERR" /\ answers = << >>) \/ (ret = "OK" /\ answers = <<"fail">>)

(* What its caller sees.                                                   *)
LEMMA DoneFacts ==
  ASSUME NEW ret, NEW answers, Done(ret, answers)
  PROVE  /\ ret \in {"OK", "ERR"} /\ answers \in Seq(Result \cup {"fail"})
         /\ ~(ret = "OK" /\ answers = << >>) /\ Len(answers) <= 1
         /\ answers # <<"noscript">> /\ (ret # "OK" => answers = << >>)
<1>1. CASE ret = "ERR" /\ answers = << >>
  <2>1. Len(answers) = 0 /\ answers # <<"noscript">> /\ answers \in Seq(Result \cup {"fail"})
    BY <1>1
  <2> QED
    BY <1>1, <2>1
<1>2. CASE ret = "OK" /\ answers = <<"fail">>
  <2>1. <<"fail">> \in Seq(Result \cup {"fail"})
    <3>1. "fail" \in Result \cup {"fail"}
      OBVIOUS
    <3>2. \A S : \A x \in S : <<x>> \in Seq(S)
      OBVIOUS
    <3> QED
      BY <3>1, <3>2
  <2>2. <<"fail">> # << >> /\ Len(<<"fail">>) <= 1 /\ <<"fail">> # <<"noscript">>
    OBVIOUS
  <2> QED
    BY <1>2, <2>1, <2>2
<1> QED
  BY <1>1, <1>2 DEF Done

(* Neither has a command.                                                  *)
LEMMA EvalDone ==
  ASSUME ScriptInv, NEW c \in Call, call[c].ret = "none", NEW s \in Shard, NEW k \in Script,
         NEW ret, NEW answers, Done(ret, answers),
         Called(c, s, k, ret, answers),
         UNCHANGED <<g_sha, link, sent, late, replies, pools, cache, flushes, connects>>
  PROVE  ScriptInv'
<1>0. ScriptTypeOK
  BY DEF ScriptInv
<1>1. ret \in {"OK", "ERR"} /\ answers \in Seq(Result \cup {"fail"})
  BY DoneFacts
<1>2. /\ call' \in [Call -> CallRecord]
      /\ \A d \in Call : d # c => call'[d] = call[d]
      /\ call'[c].shard = s /\ ~call'[c].retried
      /\ call'[c].ret = ret /\ call'[c].answers = answers /\ call'[c].ran = 0
      /\ call'[c].spared <= flushes[s] + 1
      /\ ~Owned(c) /\ c \notin OpenCalls
  <2>1. Made(c, s, k, ret, answers)
    BY <1>1, CallMade
  <2> QED
    BY <2>1 DEF Made
<1>3. PICK q \in Seq(Command) : q = << >> /\ Len(q) = 0
  BY LoadCounts
<1>4. Keeps(s, 0, q)
  BY <1>0, <1>3, SendNone, SendKeeps
<1>5. Settled(s, 0) /\ ~Elsewhere(s, 0, c) /\ \A d, i : i \in Nat /\ i <= 0 => ~CallAt(s, i, d)
  BY <1>2, MadeSettles
<1>6. OpenCalls' = OpenCalls
  <2>1. ~(call'[c].ret = "OK" /\ call'[c].answers = << >>)
    BY <1>2, DoneFacts
  <2> QED
    BY <1>2, <2>1 DEF OpenCalls
<1>7. Accounted(s, 0, q)
  <2>1. EvalsAfter
    BY <1>6, EvalsSame DEF pools
  <2>2. loadFree \in Nat /\ dbFree \in Nat
    BY <1>0 DEF ScriptTypeOK
  <2>3. Cardinality(FirstLoads(Outstanding(s), 0)) = 0 /\ Cardinality(LoadsIn(q)) = 0
    BY <1>3, LoadCounts
  <2>4. loadFree = loadFree + 0 - 0 /\ dbFree = dbFree + 0 - 0
    BY <2>2
  <2> QED
    BY <1>3, <2>1, <2>2, <2>3, <2>4 DEF Accounted, EvalsAfter, pools
<1>8. TypedStep
  BY <1>0, <1>2 DEF TypedStep, ScriptTypeOK
<1>9. \A j \in 1 .. Len(q) : FALSE
  BY <1>3
<1>10. CallOK(c)'
  <2>1. OneOwner(c)' /\ ~Owned(c)'
    BY <1>4, <1>5, <1>9, OwnersAfter
  <2>2. c \notin OpenCalls'
    BY <1>2, <1>6
  <2>3. Len(answers) <= 1 /\ answers # <<"noscript">> /\ (ret # "OK" => answers = << >>)
    BY DoneFacts
  <2>4. flushes'[s] = flushes[s]
    OBVIOUS
  <2> QED
    BY <1>2, <2>1, <2>2, <2>3, <2>4 DEF CallOK
<1>11. \A d \in Call : d # c => CallOK(d)'
  <2> TAKE d \in Call
  <2> HAVE d # c
  <2>1. \A j \in 1 .. Len(q) : q[j].call # d
    BY <1>9
  <2>2. \A i \in Nat : i <= 0 => ~CallAt(s, i, d)
    BY <1>5
  <2>3. call'[d] = call[d]
    BY <1>2
  <2> QED
    BY <1>4, <2>1, <2>2, <2>3, CallKept
<1>12. \A d \in Call : CallOK(d)'
  BY <1>10, <1>11
<1> QED
  BY <1>4, <1>5, <1>7, <1>8, <1>9, <1>12, StepInv

(* A call whose command is on its way.                                     *)
LEMMA EvalSent ==
  ASSUME ScriptInv, NEW c \in Call, call[c].ret = "none", NEW s \in Shard, NEW k \in Script,
         Called(c, s, k, "OK", << >>), evalFree > 0, dbFree > 0,
         sent' = [sent EXCEPT ![s] = Append(@, Eval(c, k))],
         evalFree' = evalFree - 1, dbFree' = dbFree - 1,
         UNCHANGED <<g_sha, link, late, replies, loadFree, cache, flushes, connects>>
  PROVE  ScriptInv'
<1>0. ScriptTypeOK
  BY DEF ScriptInv
<1>1. PICK x \in Command : /\ x = Eval(c, k) /\ x.op = "EVALSHA" /\ x.call = c /\ x.script = k
  BY DEF Eval, Command
<1>2. PICK q \in Seq(Command) : q = <<x>> /\ Len(q) = 1 /\ q[1] = x
  BY LoadCounts
<1>3. Made(c, s, k, "OK", << >>)
  <2>1. PICK ret, answers : ret = "OK" /\ answers = << >>
    OBVIOUS
  <2>2. ret \in {"OK", "ERR"} /\ answers \in Seq(Result \cup {"fail"})
    BY <2>1
  <2>3. Called(c, s, k, ret, answers)
    BY <2>1
  <2>4. Made(c, s, k, ret, answers)
    BY <2>2, <2>3, CallMade
  <2> QED
    BY <2>1, <2>4
<1>4. Keeps(s, 0, q)
  <2>1. sent' = [sent EXCEPT ![s] = @ \o q]
    BY <1>0, <1>1, <1>2, SendOne
  <2> QED
    BY <1>0, <2>1, SendKeeps
<1>5. Settled(s, 0) /\ ~Elsewhere(s, 0, c) /\ \A d, i : i \in Nat /\ i <= 0 => ~CallAt(s, i, d)
  BY <1>3, MadeSettles DEF Made
<1>6. OpenCalls' = OpenCalls \cup {c} /\ c \notin OpenCalls
  BY <1>3 DEF OpenCalls, Made
<1>7. Accounted(s, 0, q)
  <2>1. EvalsAfter
    BY <1>6, EvalsTaken
  <2>2. loadFree \in Nat /\ dbFree \in Nat
    BY <1>0 DEF ScriptTypeOK
  <2>3. Cardinality(FirstLoads(Outstanding(s), 0)) = 0 /\ Cardinality(LoadsIn(q)) = 0
    <3>1. x.op # "LOAD"
      BY <1>1
    <3> QED
      BY <1>2, <3>1, LoadCounts
  <2>4. loadFree = loadFree + 0 - 0 /\ dbFree - 1 = dbFree + 0 - 1 /\ dbFree - 1 \in Nat
    BY <2>2
  <2> QED
    BY <1>2, <2>1, <2>2, <2>3, <2>4 DEF Accounted, EvalsAfter
<1>8. TypedStep
  BY <1>0, <1>3 DEF TypedStep, ScriptTypeOK, Made
<1>9. CommandOK(s, x)' /\ SentOK(s, x)'
  <2>1. CommandOK(s, x)'
    BY <1>1, <1>3 DEF CommandOK, Made
  <2>2. SentOK(s, x)'
    BY <1>1, <1>3 DEF SentOK, Explained, Made
  <2> QED
    BY <2>1, <2>2
<1>10. \A j \in 1 .. Len(q) : j = 1 /\ q[j] = x
  BY <1>2
<1>11. CallOK(c)'
  <2>1. Owned(c)' /\ OneOwner(c)'
    BY <1>1, <1>2, <1>4, <1>5, OwnersAfter
  <2>2. c \in OpenCalls'
    BY <1>6
  <2>3. Len(<< >>) <= 1 /\ << >> # <<"noscript">>
    OBVIOUS
  <2>4. flushes'[s] = flushes[s]
    OBVIOUS
  <2> QED
    BY <1>3, <2>1, <2>2, <2>3, <2>4 DEF CallOK, Made
<1>12. \A d \in Call : d # c => CallOK(d)'
  <2> TAKE d \in Call
  <2> HAVE d # c
  <2>1. \A j \in 1 .. Len(q) : q[j].call # d
    BY <1>1, <1>10
  <2>2. \A i \in Nat : i <= 0 => ~CallAt(s, i, d)
    BY <1>5
  <2>3. call'[d] = call[d]
    BY <1>3 DEF Made
  <2> QED
    BY <1>4, <2>1, <2>2, <2>3, CallKept
<1>13. \A d \in Call : CallOK(d)'
  BY <1>11, <1>12
<1>14. \A j \in 1 .. Len(q) : CommandOK(s, q[j])' /\ SentOK(s, q[j])'
  <2> TAKE j \in 1 .. Len(q)
  <2>1. q[j] = x
    BY <1>10
  <2> QED
    BY <1>9, <2>1
<1> QED
  BY <1>4, <1>5, <1>7, <1>8, <1>13, <1>14, StepInv

(* Every way through v_db_evalsha().                                       *)
LEMMA EvalStep ==
  ASSUME ScriptInv, NEW c \in Call, v_db_evalsha(c)
  PROVE  ScriptInv'
<1>1. PICK s \in Shard, k \in Script, fits \in BOOLEAN :
        EvalRefused(c, s, k, fits) \/ EvalIssued(c, s, k, fits)
  BY DEF v_db_evalsha
<1>2. call[c].ret = "none"
  BY DEF v_db_evalsha
<1>3. CASE EvalRefused(c, s, k, fits)
  <2>1. PICK answers : answers = << >>
    OBVIOUS
  <2>2. Done("ERR", answers)
    BY <2>1 DEF Done
  <2>3. /\ Called(c, s, k, "ERR", answers)
        /\ UNCHANGED <<g_sha, link, sent, late, replies, pools, cache, flushes, connects>>
    BY <1>3, <2>1 DEF EvalRefused
  <2> QED
    BY <1>2, <2>2, <2>3, EvalDone
<1>4. CASE /\ CanSend(s) /\ evalFree > 0 /\ Called(c, s, k, "OK", << >>)
           /\ sent' = [sent EXCEPT ![s] = Append(@, Eval(c, k))]
           /\ evalFree' = evalFree - 1 /\ dbFree' = dbFree - 1
           /\ UNCHANGED <<g_sha, link, late, replies, loadFree, cache, flushes, connects>>
  <2>1. dbFree > 0
    BY <1>4 DEF CanSend
  <2> QED
    BY <1>2, <1>4, <2>1, EvalSent
<1>5. CASE /\ Called(c, s, k, "OK", <<"fail">>)
           /\ UNCHANGED <<g_sha, link, sent, late, replies, pools, cache, flushes, connects>>
  <2>1. PICK answers : answers = <<"fail">>
    OBVIOUS
  <2>2. Done("OK", answers)
    BY <2>1 DEF Done
  <2> QED
    BY <1>2, <1>5, <2>1, <2>2, EvalDone
<1>6. CASE EvalIssued(c, s, k, fits)
  BY <1>4, <1>5, <1>6 DEF EvalIssued, pools
<1> QED
  BY <1>1, <1>3, <1>6

-----------------------------------------------------------------------------
(* on_reply().                                                             *)

(* The oldest reply r of shard s, and the call it is for.                  *)
Heard(s, r) ==
  /\ r \in Reply /\ Outstanding(s)[1] = r.cmd /\ r.cmd \in Command
  /\ CommandOK(s, r.cmd) /\ ReplyOK(s, r)
  /\ \A c \in Call : c = r.cmd.call => /\ c \in OpenCalls /\ ~Elsewhere(s, 1, c)
                                       /\ call[c].ret = "OK" /\ call[c].answers = << >>
  /\ \A c \in Call : c # r.cmd.call => \A i \in Nat : i <= 1 => ~CallAt(s, i, c)

(* What is known of the reply on_reply() hands over.                       *)
LEMMA HeardFacts ==
  ASSUME ScriptInv, NEW s \in Shard, replies[s] # << >>, NEW r, r = Head(replies[s])
  PROVE  Heard(s, r)
<1>0. ScriptTypeOK
  BY DEF ScriptInv
<1>1. PICK rs \in Seq(Reply) : rs = replies[s] /\ rs # << >> /\ r = Head(rs)
  BY <1>0, OutstandingIs
<1>2. r = rs[1] /\ 1 \in 1 .. Len(rs) /\ r \in Reply /\ r.cmd \in Command
  <2>1. r = rs[1] /\ 1 \in 1 .. Len(rs) /\ r \in Reply
    BY <1>1
  <2> QED
    BY <2>1 DEF Reply
<1>3. 1 \in Nat /\ CallAt(s, 1, r.cmd.call) /\ Outstanding(s)[1] = r.cmd
  BY <1>0, <1>1, <1>2, CallsOfCommands
<1>4. CommandOK(s, r.cmd) /\ ReplyOK(s, r)
  <2>1. CommandOK(s, Outstanding(s)[1])
    BY <1>3 DEF ScriptInv, CallAt
  <2>2. ReplyOK(s, replies[s][1])
    BY <1>1, <1>2 DEF ScriptInv
  <2> QED
    BY <1>1, <1>2, <1>3, <2>1, <2>2
<1>5. ASSUME NEW c \in Call, c = r.cmd.call
      PROVE  c \in OpenCalls /\ ~Elsewhere(s, 1, c) /\ call[c].ret = "OK" /\ call[c].answers = << >>
  <2>1. CallOK(c)
    BY DEF ScriptInv
  <2>2. Owned(c)
    BY <1>3, <1>5 DEF Owned
  <2>3. c \in OpenCalls
    BY <2>1, <2>2 DEF CallOK
  <2>4. ~Elsewhere(s, 1, c)
    <3>1. \E i \in Nat : i <= 1 /\ CallAt(s, i, c)
      <4>1. 1 <= 1
        OBVIOUS
      <4> QED
        BY <1>3, <1>5, <4>1
    <3> QED
      BY <3>1, NotElsewhere
  <2> QED
    BY <2>3, <2>4 DEF OpenCalls
<1>6. ASSUME NEW c \in Call, c # r.cmd.call, NEW i \in Nat, i <= 1 PROVE ~CallAt(s, i, c)
  <2>1. i = 0 \/ i = 1
    BY <1>6
  <2>2. 0 \notin 1 .. Len(Outstanding(s))
    BY <1>0, OutstandingIs
  <2> QED
    BY <1>3, <1>6, <2>1, <2>2 DEF CallAt
<1> QED
  BY <1>2, <1>3, <1>4, <1>5, <1>6 DEF Heard

(* The record of call c becomes cc.                                        *)
Becomes(c, cc) ==
  /\ cc \in CallRecord /\ call' = [call EXCEPT ![c] = cc]
  /\ cc.shard = call[c].shard /\ cc.script = call[c].script
  /\ cc.ret = "OK" /\ cc.spared = call[c].spared /\ cc.ran = call[c].ran
  /\ cc.retried => call[c].spared <= flushes[call[c].shard]

(* Only the record of call c changes.                                      *)
LEMMA Became ==
  ASSUME ScriptInv, NEW c \in Call, NEW cc, Becomes(c, cc)
  PROVE  /\ call' \in [Call -> CallRecord] /\ call'[c] = cc
         /\ \A d \in Call : d # c => call'[d] = call[d]
<1>1. call \in [Call -> CallRecord]
  BY DEF ScriptInv, ScriptTypeOK
<1> QED
  BY <1>1 DEF Becomes

(* What every callback leaves alone.                                       *)
CallbackFrame(s) ==
  /\ replies[s] # << >> /\ Consumed(s)
  /\ UNCHANGED <<link, late, cache, flushes, connects>>
  /\ g_sha' \in [Shard -> SUBSET Script]

(* A callback that answers call c.                                         *)
LEMMA AnswerStep ==
  ASSUME ScriptInv, NEW s \in Shard, CallbackFrame(s), NEW r, r = Head(replies[s]),
         NEW c \in Call, c = r.cmd.call, NEW cc, Becomes(c, cc),
         NEW a, cc.answers = <<a>>, a = "noscript" => flushes[call[c].shard] > call[c].spared,
         UNCHANGED sent, evalFree' = evalFree + 1, dbFree' = dbFree + 1,
         loadFree' = loadFree + IF r.cmd.op = "LOAD" THEN 1 ELSE 0
  PROVE  ScriptInv'
<1>0. ScriptTypeOK
  BY DEF ScriptInv
<1>1. Heard(s, r)
  BY HeardFacts DEF CallbackFrame
<1>2. PICK q \in Seq(Command) : q = << >> /\ Len(q) = 0
  BY LoadCounts
<1>3. /\ call' \in [Call -> CallRecord] /\ call'[c] = cc
      /\ \A d \in Call : d # c => call'[d] = call[d]
  BY Became
<1>4. Keeps(s, 1, q)
  <2>1. sent' = [sent EXCEPT ![s] = @ \o q]
    BY <1>0, <1>2, SendNone
  <2> QED
    BY <1>0, <2>1, HearKeeps DEF CallbackFrame
<1>5. ~Elsewhere(s, 1, c) /\ c \in OpenCalls
  BY <1>1 DEF Heard
<1>6. Settled(s, 1)
  BY <1>3, <1>5 DEF Settled
<1>7. <<a>> # << >> /\ Len(<<a>>) = 1 /\ (<<a>> = <<"noscript">> => a = "noscript")
  OBVIOUS
<1>8. OpenCalls' = OpenCalls \ {c}
  <2>1. c \notin OpenCalls'
    BY <1>3, <1>7 DEF OpenCalls
  <2> QED
    BY <1>3, <2>1 DEF OpenCalls
<1>9. Accounted(s, 1, q)
  <2>1. EvalsAfter
    BY <1>5, <1>8, EvalsPut
  <2>2. PICK l \in Nat, d \in Nat : l = loadFree /\ d = dbFree
    BY <1>0 DEF ScriptTypeOK
  <2>3. PICK f \in {0, 1} : f = IF r.cmd.op = "LOAD" THEN 1 ELSE 0
    OBVIOUS
  <2>4. Cardinality(FirstLoads(Outstanding(s), 1)) = f /\ Cardinality(LoadsIn(q)) = 0
    <3>1. Outstanding(s)[1] = r.cmd
      BY <1>1 DEF Heard
    <3> QED
      BY <1>2, <2>3, <3>1, LoadCounts
  <2>5. l + f = l + f - 0 /\ d + 1 = d + 1 - 0 /\ l + f \in Nat /\ d + 1 \in Nat
    OBVIOUS
  <2>6. loadFree' = l + f /\ dbFree' = d + 1
    BY <2>2, <2>3
  <2> QED
    BY <1>2, <2>1, <2>2, <2>4, <2>5, <2>6 DEF Accounted, EvalsAfter
<1>10. TypedStep
  BY <1>0, <1>3 DEF TypedStep, ScriptTypeOK, CallbackFrame
<1>11. \A j \in 1 .. Len(q) : FALSE
  BY <1>2
<1>12. UNCHANGED <<cache, flushes>>
  BY DEF CallbackFrame
<1>13. CallOK(c)'
  <2>1. OneOwner(c)' /\ ~Owned(c)'
    BY <1>4, <1>5, <1>11, OwnersAfter
  <2>2. c \notin OpenCalls'
    BY <1>8
  <2>3. flushes' = flushes
    BY <1>12
  <2>4. /\ cc.ret = "OK" /\ cc.spared = call[c].spared /\ cc.shard = call[c].shard
        /\ cc.retried => call[c].spared <= flushes[call[c].shard]
    BY DEF Becomes
  <2>5. call[c].spared <= flushes[call[c].shard] + 1
    <3>1. CallOK(c)
      BY DEF ScriptInv
    <3>2. call[c].ret = "OK"
      BY <1>1 DEF Heard
    <3> QED
      BY <3>1, <3>2 DEF CallOK
  <2>6. /\ cc.answers # << >> /\ Len(cc.answers) <= 1
        /\ cc.answers = <<"noscript">> => flushes[cc.shard] > cc.spared
    <3>1. cc.answers # << >> /\ Len(cc.answers) <= 1
      BY <1>7
    <3>2. cc.answers = <<"noscript">> => a = "noscript"
      BY <1>7
    <3>3. a = "noscript" => flushes[cc.shard] > cc.spared
      BY <2>4
    <3> QED
      BY <3>1, <3>2, <3>3
  <2> QED
    BY <1>3, <2>1, <2>2, <2>3, <2>4, <2>5, <2>6 DEF CallOK
<1>14. \A d \in Call : d # c => CallOK(d)'
  <2> TAKE d \in Call
  <2> HAVE d # c
  <2>1. \A j \in 1 .. Len(q) : q[j].call # d
    BY <1>11
  <2>2. \A i \in Nat : i <= 1 => ~CallAt(s, i, d)
    BY <1>1 DEF Heard
  <2>3. call'[d] = call[d]
    BY <1>3
  <2> QED
    BY <1>4, <1>12, <2>1, <2>2, <2>3, CallKept
<1>15. \A d \in Call : CallOK(d)'
  BY <1>13, <1>14
<1> QED
  BY <1>4, <1>6, <1>9, <1>10, <1>11, <1>12, <1>15, StepInv

(* A callback that sends another command for call c.                       *)
LEMMA ResendStep ==
  ASSUME ScriptInv, NEW s \in Shard, CallbackFrame(s), NEW r, r = Head(replies[s]),
         NEW c \in Call, c = r.cmd.call, NEW cc, Becomes(c, cc), cc.answers = << >>,
         NEW x \in Command, x.call = c, CommandOK(s, x)', SentOK(s, x)',
         sent' = [sent EXCEPT ![s] = Append(@, x)],
         evalFree' = evalFree, dbFree' = dbFree, loadFree' \in Nat,
         loadFree' = loadFree + (IF r.cmd.op = "LOAD" THEN 1 ELSE 0) - (IF x.op = "LOAD" THEN 1 ELSE 0)
  PROVE  ScriptInv'
<1>0. ScriptTypeOK
  BY DEF ScriptInv
<1>1. Heard(s, r)
  BY HeardFacts DEF CallbackFrame
<1>2. PICK q \in Seq(Command) : q = <<x>> /\ Len(q) = 1 /\ q[1] = x
  BY LoadCounts
<1>3. /\ call' \in [Call -> CallRecord] /\ call'[c] = cc
      /\ \A d \in Call : d # c => call'[d] = call[d]
  BY Became
<1>4. Keeps(s, 1, q)
  <2>1. sent' = [sent EXCEPT ![s] = @ \o q]
    BY <1>0, <1>2, SendOne
  <2> QED
    BY <1>0, <2>1, HearKeeps DEF CallbackFrame
<1>5. ~Elsewhere(s, 1, c) /\ c \in OpenCalls
  BY <1>1 DEF Heard
<1>6. Settled(s, 1)
  BY <1>3, <1>5 DEF Settled
<1>7. cc.ret = "OK"
  BY DEF Becomes
<1>8. OpenCalls' = OpenCalls
  <2>1. c \in OpenCalls'
    BY <1>3, <1>7 DEF OpenCalls
  <2> QED
    BY <1>3, <1>5, <2>1 DEF OpenCalls
<1>9. Accounted(s, 1, q)
  <2>1. EvalsAfter
    BY <1>8, EvalsSame
  <2>2. PICK d \in Nat : d = dbFree
    BY <1>0 DEF ScriptTypeOK
  <2>3. /\ Cardinality(FirstLoads(Outstanding(s), 1)) = IF r.cmd.op = "LOAD" THEN 1 ELSE 0
        /\ Cardinality(LoadsIn(q)) = IF x.op = "LOAD" THEN 1 ELSE 0
    <3>1. Outstanding(s)[1] = r.cmd
      BY <1>1 DEF Heard
    <3> QED
      BY <1>2, <3>1, LoadCounts
  <2>4. d = d + 1 - 1
    OBVIOUS
  <2> QED
    BY <1>2, <2>1, <2>2, <2>3, <2>4 DEF Accounted, EvalsAfter
<1>10. TypedStep
  BY <1>0, <1>3 DEF TypedStep, ScriptTypeOK, CallbackFrame
<1>11. \A j \in 1 .. Len(q) : q[j] = x
  BY <1>2
<1>12. UNCHANGED <<cache, flushes>>
  BY DEF CallbackFrame
<1>13. CallOK(c)'
  <2>1. OneOwner(c)' /\ Owned(c)'
    BY <1>2, <1>4, <1>5, OwnersAfter
  <2>2. c \in OpenCalls'
    BY <1>5, <1>8
  <2>3. flushes' = flushes
    BY <1>12
  <2>4. /\ cc.ret = "OK" /\ cc.spared = call[c].spared /\ cc.shard = call[c].shard
        /\ cc.retried => call[c].spared <= flushes[call[c].shard]
    BY DEF Becomes
  <2>5. call[c].spared <= flushes[call[c].shard] + 1
    <3>1. CallOK(c)
      BY DEF ScriptInv
    <3>2. call[c].ret = "OK"
      BY <1>1 DEF Heard
    <3> QED
      BY <3>1, <3>2 DEF CallOK
  <2>6. Len(cc.answers) <= 1 /\ cc.answers # <<"noscript">>
    OBVIOUS
  <2> QED
    BY <1>3, <2>1, <2>2, <2>3, <2>4, <2>5, <2>6 DEF CallOK
<1>14. \A d \in Call : d # c => CallOK(d)'
  <2> TAKE d \in Call
  <2> HAVE d # c
  <2>1. \A j \in 1 .. Len(q) : q[j].call # d
    BY <1>11
  <2>2. \A i \in Nat : i <= 1 => ~CallAt(s, i, d)
    BY <1>1 DEF Heard
  <2>3. call'[d] = call[d]
    BY <1>3
  <2> QED
    BY <1>4, <1>12, <2>1, <2>2, <2>3, CallKept
<1>15. \A d \in Call : CallOK(d)'
  BY <1>13, <1>14
<1>16. \A j \in 1 .. Len(q) : CommandOK(s, q[j])' /\ SentOK(s, q[j])'
  <2> TAKE j \in 1 .. Len(q)
  <2>1. q[j] = x
    BY <1>11
  <2> QED
    BY <2>1
<1> QED
  BY <1>4, <1>6, <1>9, <1>10, <1>12, <1>15, <1>16, StepInv

(* The callback of a SCRIPT LOAD that no call waits for.                   *)
LEMMA PlainStep ==
  ASSUME ScriptInv, NEW s \in Shard, CallbackFrame(s), NEW r, r = Head(replies[s]),
         r.cmd.call = NoCall, r.cmd.op = "LOAD", UNCHANGED <<call, sent, evalFree>>,
         dbFree' = dbFree + 1, loadFree' = loadFree + 1
  PROVE  ScriptInv'
<1>0. ScriptTypeOK
  BY DEF ScriptInv
<1>1. Heard(s, r)
  BY HeardFacts DEF CallbackFrame
<1>2. PICK q \in Seq(Command) : q = << >> /\ Len(q) = 0
  BY LoadCounts
<1>3. Keeps(s, 1, q)
  <2>1. sent' = [sent EXCEPT ![s] = @ \o q]
    BY <1>0, <1>2, SendNone
  <2> QED
    BY <1>0, <2>1, HearKeeps DEF CallbackFrame
<1>4. Settled(s, 1)
  BY DEF Settled
<1>5. OpenCalls' = OpenCalls
  BY DEF OpenCalls
<1>6. Accounted(s, 1, q)
  <2>1. EvalsAfter
    BY <1>5, EvalsSame
  <2>2. PICK l \in Nat, d \in Nat : l = loadFree /\ d = dbFree
    BY <1>0 DEF ScriptTypeOK
  <2>3. Cardinality(FirstLoads(Outstanding(s), 1)) = 1 /\ Cardinality(LoadsIn(q)) = 0
    <3>1. Outstanding(s)[1].op = "LOAD"
      BY <1>1 DEF Heard
    <3> QED
      BY <1>2, <3>1, LoadCounts
  <2>4. l + 1 = l + 1 - 0 /\ d + 1 = d + 1 - 0 /\ l + 1 \in Nat /\ d + 1 \in Nat
    OBVIOUS
  <2> QED
    BY <1>2, <2>1, <2>2, <2>3, <2>4 DEF Accounted, EvalsAfter
<1>7. TypedStep
  BY <1>0 DEF TypedStep, ScriptTypeOK, CallbackFrame
<1>8. \A j \in 1 .. Len(q) : FALSE
  BY <1>2
<1>9. UNCHANGED <<cache, flushes>>
  BY DEF CallbackFrame
<1>10. \A d \in Call : CallOK(d)'
  <2> TAKE d \in Call
  <2>1. \A j \in 1 .. Len(q) : q[j].call # d
    BY <1>8
  <2>2. \A i \in Nat : i <= 1 => ~CallAt(s, i, d)
    <3>1. d # r.cmd.call
      BY PoolAssumption
    <3> QED
      BY <1>1, <3>1 DEF Heard
  <2>3. call'[d] = call[d]
    OBVIOUS
  <2> QED
    BY <1>3, <1>9, <2>1, <2>2, <2>3, CallKept
<1> QED
  BY <1>3, <1>4, <1>6, <1>7, <1>8, <1>9, <1>10, StepInv

(* The answer a to call c, with or without the mark that it was retried.   *)
LEMMA ToldBecomes ==
  ASSUME ScriptInv, NEW s \in Shard, NEW r, Heard(s, r), NEW c \in Call, c = r.cmd.call,
         NEW a \in Result \cup {"fail"}, NEW retried \in BOOLEAN,
         retried => call[c].spared <= flushes[call[c].shard]
  PROVE  \E cc : /\ cc.answers = <<a>>
                 /\ (retried <=> call[c].retried) /\ call' = Told(c, a) => Becomes(c, cc)
                 /\ retried /\ call' = [Told(c, a) EXCEPT ![c].retried = TRUE] => Becomes(c, cc)
<1>1. call \in [Call -> CallRecord] /\ call[c] \in CallRecord
  BY DEF ScriptInv, ScriptTypeOK
<1>2. call[c].answers = << >> /\ call[c].ret = "OK"
  BY DEF Heard
<1>3. PICK old : old = call[c]
  OBVIOUS
<1>4. PICK ans : ans = <<a>> /\ ans \in Seq(Result \cup {"fail"}) /\ ans = Append(<< >>, a)
  <2>1. <<a>> \in Seq(Result \cup {"fail"}) /\ <<a>> = Append(<< >>, a)
    <3>1. \A S : \A y \in S : <<y>> \in Seq(S)
      OBVIOUS
    <3>2. \A y : <<y>> = Append(<< >>, y)
      OBVIOUS
    <3> QED
      BY <3>1, <3>2
  <2> QED
    BY <2>1
<1>5. PICK cc : cc = [old EXCEPT !.answers = ans, !.retried = retried]
  OBVIOUS
<1>6. /\ cc \in CallRecord /\ cc.answers = ans /\ cc.shard = old.shard /\ cc.script = old.script
      /\ cc.ret = old.ret /\ cc.spared = old.spared /\ cc.retried = retried
      /\ cc.ran = old.ran
  BY <1>1, <1>3, <1>4, <1>5 DEF CallRecord
<1>7. ASSUME retried <=> call[c].retried, call' = Told(c, a) PROVE call' = [call EXCEPT ![c] = cc]
  <2>1. cc = [old EXCEPT !.answers = ans]
    <3>1. retried = old.retried
      <4>1. old.retried \in BOOLEAN
        BY <1>1, <1>3 DEF CallRecord
      <4> QED
        BY <1>3, <1>7, <4>1
    <3> QED
      BY <1>1, <1>3, <1>5, <3>1 DEF CallRecord
  <2>2. call' = [call EXCEPT ![c] = [call[c] EXCEPT !.answers = Append(call[c].answers, a)]]
    BY <1>7 DEF Told
  <2>3. Append(call[c].answers, a) = ans
    BY <1>2, <1>4
  <2> QED
    BY <1>3, <2>1, <2>2, <2>3
<1>8. ASSUME retried, call' = [Told(c, a) EXCEPT ![c].retried = TRUE]
      PROVE  call' = [call EXCEPT ![c] = cc]
  <2>1. Told(c, a) = [call EXCEPT ![c] = [call[c] EXCEPT !.answers = Append(call[c].answers, a)]]
    BY DEF Told
  <2>2. Append(call[c].answers, a) = ans
    BY <1>2, <1>4
  <2>3. Told(c, a) = [call EXCEPT ![c] = [old EXCEPT !.answers = ans]]
    BY <1>3, <2>1, <2>2
  <2>4. cc = [[old EXCEPT !.answers = ans] EXCEPT !.retried = TRUE]
    <3>1. retried = TRUE
      BY <1>8
    <3> QED
      BY <1>1, <1>3, <1>5, <3>1 DEF CallRecord
  <2>5. PICK y : y = [old EXCEPT !.answers = ans]
    OBVIOUS
  <2>6. call' = [[call EXCEPT ![c] = y] EXCEPT ![c].retried = TRUE] /\ cc = [y EXCEPT !.retried = TRUE]
    BY <1>8, <2>3, <2>4, <2>5
  <2> QED
    BY <1>1, <2>6
<1>9. /\ cc.shard = call[c].shard /\ cc.script = call[c].script /\ cc.ret = "OK"
      /\ cc.spared = call[c].spared /\ cc.ran = call[c].ran
      /\ cc.retried => call[c].spared <= flushes[call[c].shard]
  BY <1>2, <1>3, <1>6
<1>10. call' = [call EXCEPT ![c] = cc] => Becomes(c, cc)
  BY <1>6, <1>9 DEF Becomes
<1> QED
  BY <1>4, <1>6, <1>7, <1>8, <1>10

(* A call that is issued again is as it was.                               *)
LEMMA SameBecomes ==
  ASSUME ScriptInv, NEW s \in Shard, NEW r, Heard(s, r), NEW c \in Call, c = r.cmd.call, call' = call
  PROVE  Becomes(c, call[c]) /\ call[c].answers = << >>
<1>1. call \in [Call -> CallRecord] /\ call[c] \in CallRecord
  BY DEF ScriptInv, ScriptTypeOK
<1>2. call[c].answers = << >> /\ call[c].ret = "OK"
  BY DEF Heard
<1>3. CallOK(c)
  BY DEF ScriptInv
<1>4. PICK old : old = call[c]
  OBVIOUS
<1>5. call = [call EXCEPT ![c] = old]
  BY <1>1, <1>4
<1>6. Becomes(c, old)
  BY <1>1, <1>2, <1>3, <1>4, <1>5 DEF Becomes, CallOK
<1> QED
  BY <1>2, <1>4, <1>6

(* A call that is retried changes its mark.                                *)
RetriedAs(c, cc) ==
  Becomes(c, cc) /\ cc.answers = << >> /\ cc.retried /\ cc.ran = call[c].ran

(* evalsha_reply_cb() marks the call as retried and nothing else.          *)
LEMMA RetryBecomes ==
  ASSUME ScriptInv, NEW s \in Shard, NEW r, Heard(s, r), NEW c \in Call, c = r.cmd.call,
         call[c].spared <= flushes[call[c].shard], call' = [call EXCEPT ![c].retried = TRUE]
  PROVE  \E cc : RetriedAs(c, cc)
<1>1. call \in [Call -> CallRecord] /\ call[c] \in CallRecord
  BY DEF ScriptInv, ScriptTypeOK
<1>2. call[c].answers = << >> /\ call[c].ret = "OK"
  BY DEF Heard
<1>3. PICK old : old = call[c]
  OBVIOUS
<1>4. PICK cc : cc = [old EXCEPT !.retried = TRUE]
  OBVIOUS
<1>5. /\ cc \in CallRecord /\ cc.answers = old.answers /\ cc.shard = old.shard
      /\ cc.script = old.script /\ cc.ret = old.ret /\ cc.spared = old.spared
      /\ cc.retried = TRUE /\ cc.ran = old.ran
  BY <1>1, <1>3, <1>4 DEF CallRecord
<1>6. call' = [call EXCEPT ![c] = cc]
  BY <1>3, <1>4
<1>7. Becomes(c, cc)
  BY <1>2, <1>3, <1>5, <1>6 DEF Becomes
<1> QED
  BY <1>2, <1>3, <1>5, <1>7 DEF RetriedAs

(* evalsha_reply_cb().                                                     *)
LEMMA EvalReplyStep ==
  ASSUME ScriptInv, NEW s \in Shard, CallbackFrame(s), NEW r, r = Head(replies[s]),
         r.cmd.op = "EVALSHA", evalsha_reply_cb(s, r.cmd.call, r.result)
  PROVE  ScriptInv'
<1>0. ScriptTypeOK
  BY DEF ScriptInv
<1>1. Heard(s, r)
  BY HeardFacts DEF CallbackFrame
<1>2. PICK c \in Call : c = r.cmd.call
  BY <1>1 DEF Heard, CommandOK
<1>3. /\ call[c].shard = s /\ call[c].script = r.cmd.script
      /\ call[c].ran = IF r.result = "ok" THEN 1 ELSE 0
      /\ r.result = "noscript" => Explained(s, c)
      /\ r.result \in Result
  BY <1>1, <1>2 DEF Heard, CommandOK, ReplyOK, Reply
<1>4. call[c].spared \in Nat /\ flushes[s] \in Nat /\ call[c].retried \in BOOLEAN /\ call[c].script \in Script
  <2>1. call[c] \in CallRecord /\ flushes[s] \in 0 .. MaxFlush
    BY <1>0 DEF ScriptTypeOK
  <2> QED
    BY <2>1 DEF CallRecord
<1>5. ASSUME r.result = "noscript"
      PROVE  call[c].spared <= flushes[call[c].shard]
             /\ (call[c].retried => flushes[call[c].shard] > call[c].spared)
  BY <1>3, <1>4, <1>5 DEF Explained
<1>6. ~(r.cmd.op = "LOAD")
  OBVIOUS
<1>7. PICK l \in Nat : l = loadFree
  BY <1>0 DEF ScriptTypeOK
<1>8. CASE /\ Retries(c, r.result) /\ loadFree > 0 /\ CanSend(s)
           /\ call' = [call EXCEPT ![c].retried = TRUE]
           /\ sent' = [sent EXCEPT ![s] = Append(@, Load(c, call[c].script))]
           /\ loadFree' = loadFree - 1
           /\ UNCHANGED <<evalFree, dbFree>>
  <2>1. PICK x \in Command :
          x = Load(c, call[c].script) /\ x.op = "LOAD" /\ x.call = c /\ x.script = call[c].script
    <3>1. PICK k \in Script : k = call[c].script
      BY <1>4
    <3>2. c \in Call \cup {NoCall}
      OBVIOUS
    <3> QED
      BY <3>1, <3>2, CommandMade
  <2>2. PICK cc : Becomes(c, cc) /\ cc.answers = << >> /\ cc.retried /\ cc.ran = call[c].ran
    <3>1. call[c].spared <= flushes[call[c].shard] /\ call' = [call EXCEPT ![c].retried = TRUE]
      BY <1>5, <1>8 DEF Retries
    <3>2. \E cc : RetriedAs(c, cc)
      BY <1>1, <1>2, <3>1, RetryBecomes
    <3> QED
      BY <3>2 DEF RetriedAs
  <2>3. call'[c] = cc
    BY <2>2, Became
  <2>4. CommandOK(s, x)'
    BY <1>3, <2>1, <2>2, <2>3 DEF CommandOK, Becomes
  <2>5. SentOK(s, x)'
    <3>1. call[c].ran = 0
      BY <1>3, <1>8 DEF Retries
    <3> QED
      BY <2>1, <2>2, <2>3, <3>1 DEF SentOK
  <2>6. /\ loadFree' \in Nat
        /\ loadFree' = loadFree + (IF r.cmd.op = "LOAD" THEN 1 ELSE 0) - (IF x.op = "LOAD" THEN 1 ELSE 0)
    <3>1. l - 1 \in Nat /\ l - 1 = l + 0 - 1
      BY <1>7, <1>8
    <3> QED
      BY <1>6, <1>7, <1>8, <2>1, <3>1
  <2>7. sent' = [sent EXCEPT ![s] = Append(@, x)] /\ evalFree' = evalFree /\ dbFree' = dbFree
    BY <1>8, <2>1
  <2> QED
    BY <1>2, <2>1, <2>2, <2>4, <2>5, <2>6, <2>7, ResendStep
<1>9. CASE /\ Retries(c, r.result) /\ call' = [Told(c, "fail") EXCEPT ![c].retried = TRUE]
           /\ evalFree' = evalFree + 1 /\ dbFree' = dbFree + 1
           /\ UNCHANGED <<sent, loadFree>>
  <2>1. PICK a \in Result \cup {"fail"} : a = "fail"
    OBVIOUS
  <2>2. call[c].spared <= flushes[call[c].shard] /\ TRUE \in BOOLEAN
    BY <1>5, <1>9 DEF Retries
  <2>3. PICK cc : cc.answers = <<a>> /\ Becomes(c, cc)
    BY <1>1, <1>2, <1>9, <2>1, <2>2, ToldBecomes
  <2>4. a = "noscript" => flushes[call[c].shard] > call[c].spared
    BY <2>1
  <2>5. loadFree' = loadFree + IF r.cmd.op = "LOAD" THEN 1 ELSE 0
    <3>1. l = l + 0
      OBVIOUS
    <3> QED
      BY <1>6, <1>7, <1>9, <3>1
  <2> QED
    BY <1>2, <1>9, <2>3, <2>4, <2>5, AnswerStep
<1>10. CASE /\ ~Retries(c, r.result) /\ call' = Told(c, r.result)
            /\ evalFree' = evalFree + 1 /\ dbFree' = dbFree + 1
            /\ UNCHANGED <<sent, loadFree>>
  <2>1. PICK a \in Result \cup {"fail"} : a = r.result
    BY <1>3
  <2>2. PICK was \in BOOLEAN : was = call[c].retried
    BY <1>4
  <2>3. was => call[c].spared <= flushes[call[c].shard]
    BY <2>2 DEF ScriptInv, CallOK
  <2>4. PICK cc : cc.answers = <<a>> /\ Becomes(c, cc)
    <3>1. (was <=> call[c].retried) /\ call' = Told(c, a)
      BY <1>10, <2>1, <2>2
    <3> QED
      BY <1>1, <1>2, <2>3, <3>1, ToldBecomes
  <2>5. a = "noscript" => flushes[call[c].shard] > call[c].spared
    BY <1>5, <1>10, <2>1 DEF Retries
  <2>6. loadFree' = loadFree + IF r.cmd.op = "LOAD" THEN 1 ELSE 0
    <3>1. l = l + 0
      OBVIOUS
    <3> QED
      BY <1>6, <1>7, <1>10, <3>1
  <2> QED
    BY <1>2, <1>10, <2>4, <2>5, <2>6, AnswerStep
<1> QED
  BY <1>2, <1>8, <1>9, <1>10 DEF evalsha_reply_cb

(* load_reply_cb() that fails, or cannot issue its call again.             *)
LEMMA LoadEndsCall ==
  ASSUME ScriptInv, NEW s \in Shard, CallbackFrame(s), NEW r, r = Head(replies[s]),
         r.cmd.op = "LOAD", NEW c \in Call, c = r.cmd.call, call' = Told(c, "fail"),
         evalFree' = evalFree + 1, dbFree' = dbFree + 1, loadFree' = loadFree + 1, UNCHANGED sent
  PROVE  ScriptInv'
<1>0. ScriptTypeOK
  BY DEF ScriptInv
<1>1. Heard(s, r)
  BY HeardFacts DEF CallbackFrame
<1>2. PICK a \in Result \cup {"fail"} : a = "fail"
  OBVIOUS
<1>3. PICK was \in BOOLEAN : was = call[c].retried
  BY <1>0 DEF ScriptTypeOK, CallRecord
<1>4. was => call[c].spared <= flushes[call[c].shard]
  BY <1>3 DEF ScriptInv, CallOK
<1>5. PICK cc : cc.answers = <<a>> /\ Becomes(c, cc)
  <2>1. (was <=> call[c].retried) /\ call' = Told(c, a)
    BY <1>2, <1>3
  <2> QED
    BY <1>1, <1>4, <2>1, ToldBecomes
<1>6. a = "noscript" => flushes[call[c].shard] > call[c].spared
  BY <1>2
<1>7. loadFree' = loadFree + IF r.cmd.op = "LOAD" THEN 1 ELSE 0
  OBVIOUS
<1> QED
  BY <1>5, <1>6, <1>7, AnswerStep

(* load_reply_cb() after a SCRIPT LOAD.                                    *)
LEMMA LoadReplyStep ==
  ASSUME ScriptInv, NEW s \in Shard, CallbackFrame(s), NEW r, r = Head(replies[s]),
         r.cmd.op = "LOAD",
         \/ r.result = "ok" /\ LoadOk(s, r.cmd.script, r.cmd.call)
         \/ LoadFailed(r.cmd.call)
  PROVE  ScriptInv'
<1>0. ScriptTypeOK
  BY DEF ScriptInv
<1>1. Heard(s, r)
  BY HeardFacts DEF CallbackFrame
<1>2. r.cmd.call \in Call \/ r.cmd.call = NoCall
  BY <1>1 DEF Heard, Command
<1>3. CASE LoadFailed(r.cmd.call) /\ r.cmd.call = NoCall
  <2>1. UNCHANGED <<call, sent, evalFree>> /\ dbFree' = dbFree + 1 /\ loadFree' = loadFree + 1
    BY <1>3 DEF LoadFailed
  <2> QED
    BY <1>3, <2>1, PlainStep
<1>4. CASE LoadFailed(r.cmd.call) /\ r.cmd.call # NoCall
  <2>1. PICK c \in Call : c = r.cmd.call
    BY <1>2, <1>4
  <2>2. /\ call' = Told(c, "fail") /\ evalFree' = evalFree + 1 /\ dbFree' = dbFree + 1
        /\ loadFree' = loadFree + 1 /\ UNCHANGED sent
    BY <1>4, <2>1 DEF LoadFailed
  <2> QED
    BY <2>1, <2>2, LoadEndsCall
<1>5. CASE LoadOk(s, r.cmd.script, r.cmd.call) /\ r.cmd.call = NoCall
  <2>1. UNCHANGED <<call, sent, evalFree>> /\ dbFree' = dbFree + 1 /\ loadFree' = loadFree + 1
    BY <1>5 DEF LoadOk
  <2> QED
    BY <1>5, <2>1, PlainStep
<1>6. CASE LoadOk(s, r.cmd.script, r.cmd.call) /\ r.cmd.call # NoCall /\ ~CanSend(s)
  <2>1. PICK c \in Call : c = r.cmd.call
    BY <1>2, <1>6
  <2>2. /\ call' = Told(c, "fail") /\ evalFree' = evalFree + 1 /\ dbFree' = dbFree + 1
        /\ loadFree' = loadFree + 1 /\ UNCHANGED sent
    BY <1>6, <2>1 DEF LoadOk
  <2> QED
    BY <2>1, <2>2, LoadEndsCall
<1>7. CASE r.result = "ok" /\ LoadOk(s, r.cmd.script, r.cmd.call) /\ r.cmd.call # NoCall /\ CanSend(s)
  <2>1. PICK c \in Call, k \in Script : c = r.cmd.call /\ k = r.cmd.script
    BY <1>1, <1>2, <1>7 DEF Heard, Command
  <2>2. PICK x \in Command : x = Eval(c, k) /\ x.op = "EVALSHA" /\ x.call = c /\ x.script = k
    BY CommandMade
  <2>3. /\ sent' = [sent EXCEPT ![s] = Append(@, x)] /\ loadFree' = loadFree + 1
        /\ UNCHANGED <<call, evalFree, dbFree>>
    BY <1>7, <2>1, <2>2 DEF LoadOk
  <2>4. PICK cc : Becomes(c, cc) /\ cc.answers = << >> /\ cc = call[c]
    <3>1. call' = call
      BY <2>3
    <3>2. Becomes(c, call[c]) /\ call[c].answers = << >>
      BY <1>1, <2>1, <3>1, SameBecomes
    <3> QED
      BY <3>2
  <2>5. CommandOK(s, x)'
    BY <1>1, <2>1, <2>2, <2>3 DEF CommandOK, Heard
  <2>6. SentOK(s, x)'
    <3>1. call[c].ran = 0 /\ (k \in cache[s] \/ Explained(s, c))
      BY <1>1, <1>7, <2>1 DEF Heard, ReplyOK
    <3>2. cache' = cache /\ flushes' = flushes
      BY DEF CallbackFrame
    <3> QED
      BY <2>2, <2>3, <3>1, <3>2 DEF SentOK, Explained
  <2>7. /\ loadFree' \in Nat
        /\ loadFree' = loadFree + (IF r.cmd.op = "LOAD" THEN 1 ELSE 0) - (IF x.op = "LOAD" THEN 1 ELSE 0)
    <3>1. PICK l \in Nat : l = loadFree
      BY <1>0 DEF ScriptTypeOK
    <3>2. l + 1 \in Nat /\ l + 1 = l + 1 - 0 /\ ~(x.op = "LOAD")
      BY <2>2
    <3> QED
      BY <2>3, <3>1, <3>2
  <2> QED
    BY <2>1, <2>2, <2>3, <2>4, <2>5, <2>6, <2>7, ResendStep
<1> QED
  BY <1>3, <1>4, <1>5, <1>6, <1>7

(* Every way through on_reply().                                           *)
LEMMA ReplyStep ==
  ASSUME ScriptInv, NEW s \in Shard, on_reply(s)
  PROVE  ScriptInv'
<1>1. PICK r : r = Head(replies[s])
  OBVIOUS
<1>2. /\ replies[s] # << >> /\ Consumed(s) /\ UNCHANGED <<link, late, cache, flushes, connects>>
      /\ \/ r.cmd.op = "EVALSHA" /\ evalsha_reply_cb(s, r.cmd.call, r.result)
         \/ r.cmd.op = "LOAD" /\ r.result = "ok" /\ LoadOk(s, r.cmd.script, r.cmd.call)
         \/ r.cmd.op = "LOAD" /\ r.result # "ok" /\ LoadFailed(r.cmd.call)
  BY <1>1 DEF on_reply
<1>3. r.cmd.script \in Script
  BY <1>1, <1>2, HeardFacts DEF Heard, Command
<1>4. g_sha' \in [Shard -> SUBSET Script]
  <2>1. g_sha \in [Shard -> SUBSET Script]
    BY DEF ScriptInv, ScriptTypeOK
  <2>2. g_sha' = g_sha \/ g_sha' = [g_sha EXCEPT ![s] = @ \cup {r.cmd.script}]
    BY <1>2 DEF evalsha_reply_cb, LoadOk, LoadFailed
  <2> QED
    BY <1>3, <2>1, <2>2
<1>5. CallbackFrame(s)
  BY <1>2, <1>4 DEF CallbackFrame
<1> QED
  BY <1>1, <1>2, <1>5, EvalReplyStep, LoadReplyStep

-----------------------------------------------------------------------------
(* Connecting and disconnecting.                                           *)

(* script_reconnect_cb() asks for no more loads than both pools allow.     *)
LEMMA ReloadBounds ==
  ASSUME ScriptTypeOK
  PROVE  /\ ReloadCount \in Nat /\ ReloadCount <= ScriptCount
         /\ ReloadCount <= loadFree /\ ReloadCount <= dbFree
<1>1. PICK a \in Nat, b \in Nat, c \in Nat : a = ScriptCount /\ b = loadFree /\ c = dbFree
  <2>1. ScriptCount \in Nat
    BY PoolAssumption
  <2>2. loadFree \in Nat /\ dbFree \in Nat
    BY DEF ScriptTypeOK
  <2> QED
    BY <2>1, <2>2
<1>2. \E m \in {a, b, c} : \A y \in {a, b, c} : m <= y
  <2>1. CASE a <= b /\ a <= c
    BY <2>1
  <2>2. CASE b <= a /\ b <= c
    BY <2>2
  <2>3. CASE c <= a /\ c <= b
    BY <2>3
  <2>4. (a <= b /\ a <= c) \/ (b <= a /\ b <= c) \/ (c <= a /\ c <= b)
    OBVIOUS
  <2> QED
    BY <2>1, <2>2, <2>3, <2>4
<1>3. PICK m : m = Min({a, b, c})
  OBVIOUS
<1>4. m \in {a, b, c} /\ \A y \in {a, b, c} : m <= y
  BY <1>2, <1>3 DEF Min
<1>5. m \in Nat /\ m <= a /\ m <= b /\ m <= c
  BY <1>4
<1>6. m = ReloadCount
  BY <1>1, <1>3 DEF ReloadCount
<1> QED
  BY <1>1, <1>5, <1>6

(* connect_cb() when the attempt succeeded.                                *)
LEMMA ConnectStep ==
  ASSUME ScriptInv, NEW s \in Shard, Connected(s), UNCHANGED <<g_sha, cache, flushes, connects>>
  PROVE  ScriptInv'
<1>0. ScriptTypeOK
  BY DEF ScriptInv
<1>1. PICK n \in Nat : n = ReloadCount /\ n <= ScriptCount /\ n <= loadFree /\ n <= dbFree
  BY <1>0, ReloadBounds
<1>2. PICK q : q = [i \in 1 .. n |-> Load(NoCall, i - 1)]
  OBVIOUS
<1>3. \A i \in 1 .. n : /\ q[i] \in Command /\ q[i].op = "LOAD" /\ q[i].call = NoCall
                        /\ q[i] = Load(NoCall, i - 1)
  <2> TAKE i \in 1 .. n
  <2>1. PICK k \in Script : k = i - 1
    <3>1. ScriptCount \in Nat
      BY PoolAssumption
    <3>2. i - 1 \in 0 .. ScriptCount - 1
      BY <1>1, <3>1
    <3> QED
      BY <3>2 DEF Script
  <2>2. PICK nc \in Call \cup {NoCall} : nc = NoCall
    OBVIOUS
  <2>3. Load(nc, k) \in Command /\ Load(nc, k).op = "LOAD" /\ Load(nc, k).call = nc
    BY CommandMade
  <2>4. q[i] = Load(NoCall, i - 1)
    BY <1>2
  <2> QED
    BY <2>1, <2>2, <2>3, <2>4
<1>4. q \in Seq(Command) /\ Len(q) = n
  BY <1>2, <1>3
<1>5. Keeps(s, 0, q)
  <2>1. sent' = [sent EXCEPT ![s] = @ \o q] /\ UNCHANGED replies
    BY <1>1, <1>2 DEF Connected
  <2> QED
    BY <1>0, <1>4, <2>1, SendKeeps
<1>6. /\ UNCHANGED <<g_sha, late, call, evalFree, cache, flushes, connects>>
      /\ link' = [link EXCEPT ![s] = "up"]
      /\ loadFree' = loadFree - n /\ dbFree' = dbFree - n
  BY <1>1 DEF Connected
<1>7. Settled(s, 0)
  BY <1>6 DEF Settled
<1>8. OpenCalls' = OpenCalls
  BY <1>6 DEF OpenCalls
<1>9. Accounted(s, 0, q)
  <2>1. EvalsAfter
    BY <1>6, <1>8, EvalsSame
  <2>2. PICK l \in Nat, d \in Nat : l = loadFree /\ d = dbFree
    BY <1>0 DEF ScriptTypeOK
  <2>3. Cardinality(FirstLoads(Outstanding(s), 0)) = 0
    BY LoadCounts
  <2>4. Cardinality(LoadsIn(q)) = n
    <3>1. LoadsIn(q) = 1 .. n
      BY <1>3, <1>4 DEF LoadsIn
    <3> QED
      BY <3>1, CardTo
  <2>5. l - n \in Nat /\ d - n \in Nat /\ l - n = l + 0 - n /\ d - n = d + 0 - n
    BY <1>1, <2>2
  <2>6. loadFree' = l - n /\ dbFree' = d - n
    BY <1>6, <2>2
  <2> QED
    BY <1>4, <2>1, <2>2, <2>3, <2>4, <2>5, <2>6 DEF Accounted, EvalsAfter
<1>10. TypedStep
  BY <1>0, <1>6 DEF TypedStep, ScriptTypeOK
<1>11. \A j \in 1 .. Len(q) : CommandOK(s, q[j])' /\ SentOK(s, q[j])'
  <2> TAKE j \in 1 .. Len(q)
  <2>1. PICK x : x = q[j]
    OBVIOUS
  <2>2. x.op = "LOAD" /\ x.call \notin Call
    BY <1>3, <1>4, <2>1, PoolAssumption
  <2>3. CommandOK(s, x)' /\ SentOK(s, x)'
    BY <2>2 DEF CommandOK, SentOK
  <2> QED
    BY <2>1, <2>3
<1>12. \A d \in Call : CallOK(d)'
  <2> TAKE d \in Call
  <2>1. \A j \in 1 .. Len(q) : q[j].call # d
    BY <1>3, <1>4, PoolAssumption
  <2>2. \A i \in Nat : i <= 0 => ~CallAt(s, i, d)
    <3>1. \A i \in Nat : i <= 0 => i \notin 1 .. Len(Outstanding(s))
      BY <1>0, OutstandingIs
    <3> QED
      BY <3>1 DEF CallAt
  <2>3. call'[d] = call[d]
    BY <1>6
  <2>4. 0 \in Nat /\ UNCHANGED flushes
    BY <1>6
  <2> QED
    BY <1>5, <2>1, <2>2, <2>3, <2>4, CallKept
<1>13. 0 \in Nat /\ UNCHANGED <<cache, flushes>>
  BY <1>6
<1> QED
  BY <1>5, <1>7, <1>9, <1>10, <1>11, <1>12, <1>13, StepInv

(* The calls that Teardown answers are open, and their commands all leave. *)
LEMMA DueCalls ==
  ASSUME ScriptInv, NEW s \in Shard, NEW n \in Nat, n = Len(Outstanding(s))
  PROVE  /\ Due(s) \subseteq OpenCalls
         /\ \A c \in Due(s) : ~Elsewhere(s, n, c)
         /\ \A c \in Call : c \notin Due(s) => \A i \in Nat : ~CallAt(s, i, c)
<1>1. DOMAIN Outstanding(s) = 1 .. n
  BY OutstandingIs DEF ScriptInv
<1>2. ASSUME NEW c \in Due(s) PROVE c \in OpenCalls /\ ~Elsewhere(s, n, c)
  <2>1. c \in Call
    BY DEF Due
  <2>2. PICK i \in 1 .. n : Outstanding(s)[i].call = c
    BY <1>1, <1>2 DEF Due
  <2>3. CallAt(s, i, c) /\ i \in Nat /\ i <= n
    BY <2>2 DEF CallAt
  <2>4. Owned(c)
    BY <2>3 DEF Owned
  <2>5. CallOK(c)
    BY <2>1 DEF ScriptInv
  <2>6. ~Elsewhere(s, n, c)
    BY <2>1, <2>3, NotElsewhere
  <2> QED
    BY <2>4, <2>5, <2>6 DEF CallOK
<1>3. ASSUME NEW c \in Call, c \notin Due(s), NEW i \in Nat PROVE ~CallAt(s, i, c)
  BY <1>1, <1>3 DEF CallAt, Due
<1> QED
  BY <1>2, <1>3

(* The records of those calls.                                             *)
LEMMA DueTold ==
  ASSUME ScriptInv, NEW s \in Shard, Teardown(s), NEW c \in Call, c \in OpenCalls
  PROVE  /\ c \in Due(s) => /\ call'[c] \in CallRecord /\ call'[c].answers = <<"fail">>
                            /\ call'[c].shard = call[c].shard /\ call'[c].ret = call[c].ret
                            /\ call'[c].script = call[c].script
                            /\ call'[c].spared = call[c].spared
                            /\ call'[c].retried = call[c].retried
                            /\ call'[c].ran = call[c].ran
         /\ c \notin Due(s) => call'[c] = call[c]
<1>1. call \in [Call -> CallRecord] /\ call[c] \in CallRecord
  BY DEF ScriptInv, ScriptTypeOK
<1>2. call'[c] = IF c \in Due(s) THEN Told(c, "fail")[c] ELSE call[c]
  BY DEF Teardown
<1>3. PICK old : old = call[c]
  OBVIOUS
<1>4. PICK ans : ans = <<"fail">> /\ ans \in Seq(Result \cup {"fail"}) /\ ans = Append(<< >>, "fail")
  <2>1. \A S : \A y \in S : <<y>> \in Seq(S)
    OBVIOUS
  <2>2. "fail" \in Result \cup {"fail"} /\ <<"fail">> = Append(<< >>, "fail")
    OBVIOUS
  <2> QED
    BY <2>1, <2>2
<1>5. Told(c, "fail")[c] = [old EXCEPT !.answers = ans]
  <2>1. Told(c, "fail") = [call EXCEPT ![c] = [call[c] EXCEPT !.answers = Append(call[c].answers, "fail")]]
    BY DEF Told
  <2>2. Append(call[c].answers, "fail") = ans
    BY <1>4 DEF OpenCalls
  <2>3. Told(c, "fail") = [call EXCEPT ![c] = [old EXCEPT !.answers = ans]]
    BY <1>3, <2>1, <2>2
  <2> QED
    BY <1>1, <2>3
<1>6. PICK cc : cc = [old EXCEPT !.answers = ans]
  OBVIOUS
<1>7. /\ cc \in CallRecord /\ cc.answers = ans /\ cc.shard = old.shard /\ cc.ret = old.ret
      /\ cc.script = old.script
      /\ cc.spared = old.spared /\ cc.retried = old.retried /\ cc.ran = old.ran
  BY <1>1, <1>3, <1>4, <1>6 DEF CallRecord
<1> QED
  BY <1>2, <1>3, <1>4, <1>5, <1>6, <1>7

(* What Redis may still run after it was under way on the connection.      *)
LEMMA TeardownLate ==
  ASSUME ScriptTypeOK, NEW s \in Shard, Teardown(s)
  PROVE  /\ late' \in [Shard -> SUBSET Command]
         /\ \A t \in Shard : \A x \in late'[t] :
              x \in late[t] \/ (t = s /\ \E i \in 1 .. Len(sent[s]) : x = sent[s][i])
<1>1. late \in [Shard -> SUBSET Command] /\ sent[s] \in Seq(Command)
  BY DEF ScriptTypeOK
<1>2. PICK R : R = Range(sent[s])
  OBVIOUS
<1>3. \A x \in R : x \in Command /\ \E i \in 1 .. Len(sent[s]) : x = sent[s][i]
  <2>1. \A x \in R : \E i \in 1 .. Len(sent[s]) : x = sent[s][i]
    BY <1>1, <1>2 DEF Range
  <2>2. \A i \in 1 .. Len(sent[s]) : sent[s][i] \in Command
    BY <1>1
  <2> QED
    BY <2>1, <2>2
<1>4. late' = late \/ late' = [late EXCEPT ![s] = @ \cup R]
  BY <1>2 DEF Teardown
<1> QED
  BY <1>1, <1>3, <1>4

(* The end of a context preserves the invariant.                           *)
LEMMA TeardownStep ==
  ASSUME ScriptInv, NEW s \in Shard, Teardown(s), UNCHANGED <<g_sha, cache, flushes>>,
         link' \in [Shard -> {"down", "connecting", "up", "failed"}],
         connects' \in [Shard -> 0 .. MaxConnect]
  PROVE  ScriptInv'
<1>0. ScriptTypeOK
  BY DEF ScriptInv
<1>1. PICK n \in Nat : n = Len(Outstanding(s))
  BY <1>0, OutstandingIs
<1>2. PICK q \in Seq(Command) : q = << >> /\ Len(q) = 0
  BY LoadCounts
<1>3. /\ call' = [c \in Call |-> IF c \in Due(s) THEN Told(c, "fail")[c] ELSE call[c]]
      /\ evalFree' = evalFree + Cardinality(Due(s))
      /\ loadFree' = loadFree + Cardinality(Loads(s)) /\ dbFree' = dbFree + n
      /\ sent' = [sent EXCEPT ![s] = << >>] /\ replies' = [replies EXCEPT ![s] = << >>]
  BY <1>1 DEF Teardown
<1>4. Keeps(s, n, q)
  BY <1>0, <1>1, <1>2, <1>3, TeardownKeeps
<1>5. /\ Due(s) \subseteq OpenCalls
      /\ \A c \in Due(s) : ~Elsewhere(s, n, c)
      /\ \A c \in Call : c \notin Due(s) => \A i \in Nat : ~CallAt(s, i, c)
  BY <1>1, DueCalls
<1>6. \A c \in Call : c \notin Due(s) => call'[c] = call[c]
  BY <1>3
<1>7. ASSUME NEW c \in Due(s)
      PROVE  /\ c \in Call /\ c \in OpenCalls /\ call'[c] \in CallRecord /\ call'[c].answers = <<"fail">>
             /\ call'[c].shard = call[c].shard /\ call'[c].ret = call[c].ret
             /\ call'[c].spared = call[c].spared /\ call'[c].retried = call[c].retried
  <2>1. c \in Call /\ c \in OpenCalls
    BY <1>5 DEF OpenCalls
  <2> QED
    BY <2>1, DueTold
<1>8. Settled(s, n)
  BY <1>5, <1>6 DEF Settled
<1>9. <<"fail">> # << >> /\ Len(<<"fail">>) <= 1 /\ <<"fail">> # <<"noscript">>
  OBVIOUS
<1>10. OpenCalls' = OpenCalls \ Due(s)
  <2>1. \A c \in Due(s) : c \notin OpenCalls'
    BY <1>7, <1>9 DEF OpenCalls
  <2>2. \A c \in Call : c \notin Due(s) => (c \in OpenCalls' <=> c \in OpenCalls)
    BY <1>6 DEF OpenCalls
  <2>3. OpenCalls \subseteq Call /\ OpenCalls' \subseteq Call
    BY DEF OpenCalls
  <2> QED
    BY <2>1, <2>2, <2>3
<1>11. Accounted(s, n, q)
  <2>1. EvalsAfter
    BY <1>3, <1>5, <1>10, EvalsFreed
  <2>2. PICK l \in Nat, d \in Nat : l = loadFree /\ d = dbFree
    BY <1>0 DEF ScriptTypeOK
  <2>3. Loads(s) = FirstLoads(Outstanding(s), n)
    BY <1>0, <1>1, OutstandingIs DEF Loads, FirstLoads
  <2>4. PICK f \in Nat : f = Cardinality(Loads(s))
    <3>1. IsFiniteSet(1 .. n) /\ Loads(s) \subseteq 1 .. n
      BY <2>3, CardTo DEF FirstLoads
    <3>2. IsFiniteSet(Loads(s))
      BY <3>1, FS_Subset
    <3> QED
      BY <3>2, FS_CardinalityType
  <2>5. Cardinality(LoadsIn(q)) = 0
    BY <1>2, LoadCounts
  <2>6. l + f \in Nat /\ d + n \in Nat /\ l + f = l + f - 0 /\ d + n = d + n - 0
    OBVIOUS
  <2>7. loadFree' = l + f /\ dbFree' = d + n
    BY <1>3, <2>2, <2>4
  <2> QED
    BY <1>2, <2>1, <2>2, <2>3, <2>4, <2>5, <2>6, <2>7 DEF Accounted, EvalsAfter
<1>12. TypedStep
  <2>1. call' \in [Call -> CallRecord]
    <3>1. call \in [Call -> CallRecord]
      BY <1>0 DEF ScriptTypeOK
    <3>2. \A c \in Call : call'[c] \in CallRecord
      BY <1>6, <1>7, <3>1
    <3> QED
      BY <1>3, <3>2
  <2>2. late' \in [Shard -> SUBSET Command]
    BY <1>0, TeardownLate
  <2> QED
    BY <1>0, <2>1, <2>2 DEF TypedStep, ScriptTypeOK
<1>13. \A j \in 1 .. Len(q) : FALSE
  BY <1>2
<1>14. ASSUME NEW c \in Due(s) PROVE CallOK(c)'
  <2>1. c \in Call
    BY <1>7
  <2>2. OneOwner(c)' /\ ~Owned(c)'
    BY <1>4, <1>5, <1>13, <2>1, OwnersAfter
  <2>3. c \notin OpenCalls'
    BY <1>10
  <2>4. CallOK(c)
    BY <2>1 DEF ScriptInv
  <2>5. call[c].ret = "OK"
    BY <1>7 DEF OpenCalls
  <2>6. flushes' = flushes
    OBVIOUS
  <2>7. Len(call'[c].answers) <= 1 /\ call'[c].answers # <<"noscript">>
    BY <1>7, <1>9
  <2>8. /\ call'[c].ret = "OK" /\ call'[c].spared <= flushes'[call'[c].shard] + 1
        /\ call'[c].retried => call'[c].spared <= flushes'[call'[c].shard]
    BY <1>7, <2>4, <2>5, <2>6 DEF CallOK
  <2> QED
    BY <2>2, <2>3, <2>7, <2>8 DEF CallOK
<1>15. \A c \in Call : c \notin Due(s) => CallOK(c)'
  <2> TAKE d \in Call
  <2> HAVE d \notin Due(s)
  <2>1. \A j \in 1 .. Len(q) : q[j].call # d
    BY <1>13
  <2>2. \A i \in Nat : i <= n => ~CallAt(s, i, d)
    BY <1>5
  <2>3. call'[d] = call[d]
    BY <1>6
  <2> QED
    BY <1>4, <2>1, <2>2, <2>3, CallKept
<1>16. \A c \in Call : CallOK(c)'
  BY <1>14, <1>15
<1> QED
  BY <1>4, <1>8, <1>11, <1>12, <1>13, <1>16, StepInv

(* Every way a context ends.                                               *)
LinkEnds(s) ==
  \/ disconnect_cb(s) \/ v_stub_db_test_force_reconnect(s)
  \/ ConnectFailed(s) /\ UNCHANGED <<g_sha, cache, flushes, connects>>

(* disconnect_cb(), v_stub_db_test_force_reconnect() and connect_cb() when *)
(* the attempt failed preserve the invariant.                              *)
LEMMA DisconnectStep ==
  ASSUME ScriptInv, NEW s \in Shard, LinkEnds(s)
  PROVE  ScriptInv'
<1>0. ScriptTypeOK
  BY DEF ScriptInv
<1>1. Teardown(s) /\ UNCHANGED <<g_sha, cache, flushes>>
  BY DEF LinkEnds, disconnect_cb, v_stub_db_test_force_reconnect, ConnectFailed
<1>2. link' \in [Shard -> {"down", "connecting", "up", "failed"}]
  <2>1. link \in [Shard -> {"down", "connecting", "up", "failed"}]
    BY <1>0 DEF ScriptTypeOK
  <2>2. \E x \in {"down", "connecting", "up", "failed"} : link' = [link EXCEPT ![s] = x]
    BY DEF LinkEnds, disconnect_cb, v_stub_db_test_force_reconnect, shard_connect, ConnectFailed
  <2> QED
    BY <2>1, <2>2
<1>3. connects' \in [Shard -> 0 .. MaxConnect]
  <2>1. connects \in [Shard -> 0 .. MaxConnect] /\ MaxConnect \in Nat
    BY <1>0, PoolAssumption DEF ScriptTypeOK
  <2>2. CASE connects' = connects
    BY <2>1, <2>2
  <2>3. CASE connects[s] < MaxConnect /\ connects' = [connects EXCEPT ![s] = @ + 1]
    <3>1. connects[s] + 1 \in 0 .. MaxConnect
      BY <2>1, <2>3
    <3> QED
      BY <2>1, <2>3, <3>1
  <2> QED
    BY <2>2, <2>3 DEF LinkEnds, disconnect_cb, v_stub_db_test_force_reconnect
<1> QED
  BY <1>1, <1>2, <1>3, TeardownStep

-----------------------------------------------------------------------------
(* Redis.                                                                  *)

(* What the commands of the connections, unchanged, leave as it was.       *)
LEMMA SameCommands ==
  ASSUME ScriptInv, \A t \in Shard : Outstanding(t)' = Outstanding(t)
  PROVE  /\ AllAt' = AllAt /\ LoadsAt' = LoadsAt
         /\ \A c : (Owned(c)' <=> Owned(c)) /\ (OneOwner(c)' <=> OneOwner(c))
<1>1. \A t \in Shard : Loads(t)' = Loads(t)
  BY DEF Loads
<1>2. \A t \in Shard : \A i, c : CallAt(t, i, c)' <=> CallAt(t, i, c)
  BY DEF CallAt
<1>3. AllAt' = AllAt
  BY DEF AllAt
<1>4. LoadsAt' = LoadsAt
  BY <1>1 DEF LoadsAt
<1>5. \A c : Owned(c)' <=> Owned(c)
  BY <1>2 DEF Owned
<1>6. \A c : OneOwner(c)' <=> OneOwner(c)
  BY <1>2 DEF OneOwner
<1> QED
  BY <1>3, <1>4, <1>5, <1>6

(* The counts depend on nothing else.                                      *)
LEMMA SameCounts ==
  ASSUME ScriptInv, \A t \in Shard : Outstanding(t)' = Outstanding(t), OpenCalls' = OpenCalls,
         UNCHANGED pools
  PROVE  Counts'
<1>1. AllAt' = AllAt /\ LoadsAt' = LoadsAt
  BY SameCommands
<1>2. evalFree' = evalFree /\ loadFree' = loadFree /\ dbFree' = dbFree
  BY DEF pools
<1>3. Counts
  BY DEF ScriptInv
<1> QED
  BY <1>1, <1>2, <1>3 DEF Counts

(* A call that has a command is open, and made to the shard that has it.   *)
LEMMA OwnedCall ==
  ASSUME ScriptInv, NEW t \in Shard, NEW i \in Nat, NEW c \in Call, CallAt(t, i, c)
  PROVE  /\ call[c].shard = t /\ call[c].ret = "OK" /\ call[c].answers = << >>
         /\ call[c].spared <= flushes[t] + 1 /\ (call[c].retried => call[c].spared <= flushes[t])
         /\ call[c].spared \in Nat /\ flushes[t] \in Nat
<1>1. call[c].shard = t
  <2>1. CommandOK(t, Outstanding(t)[i]) /\ Outstanding(t)[i].call = c
    BY DEF ScriptInv, CallAt
  <2> QED
    BY <2>1 DEF CommandOK
<1>2. CallOK(c) /\ Owned(c)
  BY DEF ScriptInv, Owned
<1>3. call[c].ret = "OK" /\ call[c].answers = << >>
  BY <1>2 DEF CallOK, OpenCalls
<1>4. call[c].spared \in Nat /\ flushes[t] \in Nat
  BY DEF ScriptInv, ScriptTypeOK, CallRecord
<1> QED
  BY <1>1, <1>2, <1>3, <1>4 DEF CallOK

(* A loss of the script cache explains whatever follows it.                *)
LEMMA Forgotten ==
  ASSUME ScriptInv, NEW s \in Shard, RedisForgets(s), NEW t \in Shard, NEW i \in Nat,
         NEW c \in Call, CallAt(t, i, c)
  PROVE  /\ t = s => Explained(t, c)'
         /\ Explained(t, c) => Explained(t, c)'
         /\ t # s => cache'[t] = cache[t]
<1>1. /\ flushes' = [flushes EXCEPT ![s] = @ + 1] /\ cache' = [cache EXCEPT ![s] = {}] /\ call' = call
  BY DEF RedisForgets
<1>2. flushes \in [Shard -> 0 .. MaxFlush] /\ cache \in [Shard -> SUBSET Script]
  BY DEF ScriptInv, ScriptTypeOK
<1>3. PICK n \in Nat, m \in Nat : n = flushes[t] /\ m = call[c].spared
  BY OwnedCall
<1>4. m <= n + 1 /\ (call[c].retried => m <= n)
  BY <1>3, OwnedCall
<1>5. CASE t = s
  <2>1. flushes'[t] = n + 1
    BY <1>1, <1>2, <1>3, <1>5
  <2>2. n + 1 >= m /\ (call[c].retried => n + 1 > m)
    BY <1>4
  <2> QED
    BY <1>1, <1>3, <1>5, <2>1, <2>2 DEF Explained
<1>6. CASE t # s
  <2>1. flushes'[t] = flushes[t] /\ cache'[t] = cache[t]
    BY <1>1, <1>2, <1>6
  <2> QED
    BY <1>1, <1>6, <2>1 DEF Explained
<1> QED
  BY <1>5, <1>6

(* A failover that empties the script cache preserves the invariant.       *)
LEMMA ForgetsStep ==
  ASSUME ScriptInv, NEW s \in Shard, RedisForgets(s)
  PROVE  ScriptInv'
<1>0. ScriptTypeOK
  BY DEF ScriptInv
<1>1. /\ flushes[s] < MaxFlush /\ flushes' = [flushes EXCEPT ![s] = @ + 1]
      /\ cache' = [cache EXCEPT ![s] = {}] /\ UNCHANGED pools
      /\ UNCHANGED <<g_sha, link, sent, late, replies, call, connects>>
  BY DEF RedisForgets
<1>2. \A t \in Shard : Outstanding(t)' = Outstanding(t)
  BY <1>1 DEF Outstanding
<1>3. OpenCalls' = OpenCalls
  BY <1>1 DEF OpenCalls
<1>4. Counts'
  BY <1>1, <1>2, <1>3, SameCounts
<1>5. ScriptTypeOK'
  <2>1. flushes \in [Shard -> 0 .. MaxFlush] /\ MaxFlush \in Nat
    BY <1>0, PoolAssumption DEF ScriptTypeOK
  <2>2. flushes[s] + 1 \in 0 .. MaxFlush
    BY <1>1, <2>1
  <2>3. flushes' \in [Shard -> 0 .. MaxFlush]
    BY <1>1, <2>1, <2>2
  <2>4. cache' \in [Shard -> SUBSET Script]
    BY <1>0, <1>1 DEF ScriptTypeOK
  <2> QED
    BY <1>0, <1>1, <2>3, <2>4 DEF ScriptTypeOK, pools
<1>6. ASSUME NEW t \in Shard
      PROVE  /\ Len(Outstanding(t)') <= PendingCap
             /\ \A i \in 1 .. Len(Outstanding(t)') : CommandOK(t, Outstanding(t)[i])'
             /\ \A i \in 1 .. Len(sent'[t]) : SentOK(t, sent[t][i])'
             /\ \A i \in 1 .. Len(replies'[t]) : ReplyOK(t, replies[t][i])'
  <2>1. Len(Outstanding(t)') <= PendingCap
    BY <1>2 DEF ScriptInv
  <2>2. ASSUME NEW i \in 1 .. Len(Outstanding(t)') PROVE CommandOK(t, Outstanding(t)[i])'
    <3>1. CommandOK(t, Outstanding(t)[i])
      BY <1>2 DEF ScriptInv
    <3> QED
      BY <1>1, <1>2, <3>1 DEF CommandOK
  <2>3. ASSUME NEW i \in 1 .. Len(sent'[t]) PROVE SentOK(t, sent[t][i])'
    <3>1. PICK x : x = sent[t][i] /\ x = sent'[t][i] /\ i \in 1 .. Len(sent[t])
      BY <1>1
    <3>2. SentOK(t, x)
      BY <3>1 DEF ScriptInv
    <3>3. PICK j \in Nat : CallAt(t, j, x.call)
      BY <1>0, <3>1, CallsOfCommands
    <3>4. x.call \in Call => /\ t = s => Explained(t, x.call)'
                             /\ Explained(t, x.call) => Explained(t, x.call)'
                             /\ t # s => cache'[t] = cache[t]
      BY <3>3, Forgotten
    <3>5. call' = call
      BY <1>1
    <3>6. SentOK(t, x)'
      BY <3>2, <3>4, <3>5 DEF SentOK
    <3> QED
      BY <3>1, <3>6
  <2>4. ASSUME NEW i \in 1 .. Len(replies'[t]) PROVE ReplyOK(t, replies[t][i])'
    <3>1. PICK x : x = replies[t][i] /\ x = replies'[t][i] /\ i \in 1 .. Len(replies[t])
      BY <1>1
    <3>2. ReplyOK(t, x)
      BY <3>1 DEF ScriptInv
    <3>3. PICK j \in Nat : CallAt(t, j, x.cmd.call)
      BY <1>0, <3>1, CallsOfCommands
    <3>4. x.cmd.call \in Call => /\ t = s => Explained(t, x.cmd.call)'
                                 /\ Explained(t, x.cmd.call) => Explained(t, x.cmd.call)'
                                 /\ t # s => cache'[t] = cache[t]
      BY <3>3, Forgotten
    <3>5. call' = call
      BY <1>1
    <3>6. ReplyOK(t, x)'
      BY <3>2, <3>4, <3>5 DEF ReplyOK
    <3> QED
      BY <3>1, <3>6
  <2> QED
    BY <2>1, <2>2, <2>3, <2>4
<1>7. ASSUME NEW c \in Call PROVE CallOK(c)'
  <2>1. CallOK(c)
    BY DEF ScriptInv
  <2>2. (Owned(c)' <=> Owned(c)) /\ (OneOwner(c)' <=> OneOwner(c))
    BY <1>2, SameCommands
  <2>3. call[c].shard \in Shard /\ call[c].spared \in Nat /\ flushes \in [Shard -> 0 .. MaxFlush]
    BY <1>0 DEF ScriptTypeOK, CallRecord
  <2>4. PICK t \in Shard : t = call[c].shard
    BY <2>3
  <2>5. PICK n \in Nat, nn \in Nat, m \in Nat :
          n = flushes[t] /\ nn = flushes'[t] /\ m = call[c].spared /\ n <= nn
    BY <1>1, <2>3
  <2>6. (n > m => nn > m) /\ (m <= n + 1 => m <= nn + 1) /\ (m <= n => m <= nn)
    BY <2>5
  <2>7. call' = call
    BY <1>1
  <2>8. /\ call[c].answers = <<"noscript">> => nn > m
        /\ call[c].ret = "OK" => m <= nn + 1
        /\ call[c].retried => call[c].ret = "OK" /\ m <= nn
    BY <2>1, <2>4, <2>5, <2>6 DEF CallOK
  <2> QED
    BY <1>3, <2>1, <2>2, <2>4, <2>5, <2>7, <2>8 DEF CallOK
<1> QED
  BY <1>4, <1>5, <1>6, <1>7 DEF ScriptInv

(* What is known of a command, when the shard learns scripts.              *)
LEMMA ElementGrows ==
  ASSUME NEW t \in Shard, NEW r, UNCHANGED flushes, cache[t] \subseteq cache'[t],
         r.cmd.call \in Call => call'[r.cmd.call] = call[r.cmd.call]
  PROVE  /\ SentOK(t, r.cmd) => SentOK(t, r.cmd)'
         /\ ReplyOK(t, r) => ReplyOK(t, r)'
BY DEF SentOK, ReplyOK, Explained

(* The call whose script runs, if it does, keeps all but ran.              *)
Runs(d, n) ==
  /\ call' \in [Call -> CallRecord]
  /\ \A c \in Call : /\ c # d => call'[c] = call[c]
                     /\ call'[c].shard = call[c].shard /\ call'[c].script = call[c].script
                     /\ call'[c].retried = call[c].retried /\ call'[c].ret = call[c].ret
                     /\ call'[c].answers = call[c].answers /\ call'[c].spared = call[c].spared
  /\ d \in Call => call'[d].ran = n

(* RedisExec() runs the script of one call or of none.                     *)
LEMMA RunsOne ==
  ASSUME ScriptTypeOK, NEW d, NEW n, d \in Call => call[d].ran = 0,
         \/ n = 1 /\ d \in Call /\ call' = [call EXCEPT ![d].ran = @ + 1]
         \/ n = 0 /\ call' = call
  PROVE  Runs(d, n)
<1>1. call \in [Call -> CallRecord]
  BY DEF ScriptTypeOK
<1>2. CASE n = 0 /\ call' = call
  BY <1>1, <1>2 DEF Runs
<1>3. CASE n = 1 /\ d \in Call /\ call' = [call EXCEPT ![d].ran = @ + 1]
  <2>1. PICK old : old = call[d] /\ old \in CallRecord /\ old.ran = 0
    BY <1>1, <1>3
  <2>2. PICK cc : cc = [old EXCEPT !.ran = 1]
    OBVIOUS
  <2>3. /\ cc \in CallRecord /\ cc.shard = old.shard /\ cc.script = old.script
        /\ cc.retried = old.retried /\ cc.ret = old.ret /\ cc.answers = old.answers
        /\ cc.spared = old.spared /\ cc.ran = 1
    BY <2>1, <2>2 DEF CallRecord
  <2>4. call' = [call EXCEPT ![d] = cc]
    <3>1. call' = [call EXCEPT ![d] = [call[d] EXCEPT !.ran = call[d].ran + 1]]
      BY <1>3
    <3>2. call[d].ran + 1 = 1
      BY <2>1
    <3> QED
      BY <2>1, <2>2, <3>1, <3>2
  <2>5. call'[d] = cc /\ call' \in [Call -> CallRecord] /\ \A c \in Call : c # d => call'[c] = call[c]
    BY <1>1, <1>3, <2>3, <2>4
  <2> QED
    BY <1>3, <2>1, <2>3, <2>5 DEF Runs
<1> QED
  BY <1>2, <1>3

(* RedisExec(s) moves the first command cmd, answered with result.         *)
Ran(s, cmd, result) ==
  /\ cmd = Head(sent[s]) /\ result \in Results(s, cmd) /\ sent[s] # << >>
  /\ replies' = [replies EXCEPT ![s] = Append(@, [cmd |-> cmd, result |-> result])]
  /\ sent' = [sent EXCEPT ![s] = Tail(@)]
  /\ cache' = IF cmd.op = "LOAD" /\ result = "ok"
              THEN [cache EXCEPT ![s] = @ \cup {cmd.script}] ELSE cache
  /\ call' = IF cmd.op = "EVALSHA" /\ result = "ok"
             THEN [call EXCEPT ![cmd.call].ran = @ + 1] ELSE call

(* The command it runs, and what there is to be told of it.                *)
LEMMA RunFacts ==
  ASSUME ScriptInv, NEW s \in Shard, NEW cmd, NEW result, Ran(s, cmd, result)
  PROVE  /\ cmd \in Command /\ result \in Result
         /\ 1 \in 1 .. Len(sent[s]) /\ cmd = sent[s][1]
         /\ Len(replies[s]) + 1 \in Nat /\ CallAt(s, Len(replies[s]) + 1, cmd.call)
         /\ SentOK(s, cmd) /\ CommandOK(s, cmd)
         /\ cmd.op = "EVALSHA" /\ result = "noscript" => cmd.script \notin cache[s]
<1>0. ScriptTypeOK
  BY DEF ScriptInv
<1>1. PICK q \in Seq(Command) : q = sent[s] /\ q # << >> /\ cmd = Head(q)
  BY <1>0, OutstandingIs DEF Ran
<1>2. cmd = q[1] /\ 1 \in 1 .. Len(q) /\ cmd \in Command
  BY <1>1
<1>3. /\ Len(replies[s]) + 1 \in Nat /\ CallAt(s, Len(replies[s]) + 1, cmd.call)
      /\ Outstanding(s)[Len(replies[s]) + 1] = cmd
  BY <1>0, <1>1, <1>2, CallsOfCommands
<1>4. SentOK(s, cmd)
  BY <1>1, <1>2 DEF ScriptInv
<1>5. CommandOK(s, cmd)
  BY <1>3 DEF ScriptInv, CallAt
<1>6. result \in Result /\ (cmd.op = "EVALSHA" /\ result = "noscript" => cmd.script \notin cache[s])
  BY DEF Ran, Results, Result
<1> QED
  BY <1>1, <1>2, <1>3, <1>4, <1>5, <1>6

(* Where the commands are afterwards.                                      *)
LEMMA RunMoves ==
  ASSUME ScriptTypeOK, NEW s \in Shard, NEW cmd \in Command, NEW result \in Result,
         Ran(s, cmd, result), NEW r, r = [cmd |-> cmd, result |-> result]
  PROVE  /\ \A t \in Shard : Outstanding(t)' = Outstanding(t)
         /\ sent' \in [Shard -> Seq(Command)] /\ replies' \in [Shard -> Seq(Reply)]
         /\ \A t \in Shard : t # s => sent'[t] = sent[t] /\ replies'[t] = replies[t]
         /\ \A i \in 1 .. Len(sent'[s]) :
              i + 1 \in 1 .. Len(sent[s]) /\ i + 1 # 1 /\ sent'[s][i] = sent[s][i + 1]
         /\ \A i \in 1 .. Len(replies'[s]) :
              \/ replies'[s][i] = r
              \/ i \in 1 .. Len(replies[s]) /\ replies'[s][i] = replies[s][i]
<1>1. PICK rs \in Seq(Reply), q \in Seq(Command) :
        rs = replies[s] /\ q = sent[s] /\ q # << >> /\ cmd = Head(q)
  BY OutstandingIs DEF Ran
<1>2. r \in Reply /\ r.cmd = cmd
  BY DEF Reply
<1>3. PICK rr, p : rr = Append(rs, r) /\ p = Tail(q)
  OBVIOUS
<1>4. PICK n \in Nat, m \in Nat : n = Len(rs) /\ m = Len(q)
  OBVIOUS
<1>5. rr \in Seq(Reply) /\ Len(rr) = n + 1 /\ (\A i \in 1 .. n : rr[i] = rs[i]) /\ rr[n + 1] = r
  BY <1>2, <1>3, <1>4, AppendProperties
<1>6. p \in Seq(Command) /\ Len(p) = m - 1 /\ \A i \in 1 .. m - 1 : p[i] = q[i + 1]
  <2>1. Tail(q) \in Seq(Command) /\ Len(Tail(q)) = Len(q) - 1 /\ \A i \in 1 .. Len(q) - 1 : Tail(q)[i] = q[i + 1]
    BY <1>1
  <2> QED
    BY <1>3, <1>4, <2>1
<1>7. replies' = [replies EXCEPT ![s] = rr] /\ sent' = [sent EXCEPT ![s] = p]
  BY <1>1, <1>3 DEF Ran
<1>8. sent \in [Shard -> Seq(Command)] /\ replies \in [Shard -> Seq(Reply)]
  BY DEF ScriptTypeOK
<1>9. /\ sent' \in [Shard -> Seq(Command)] /\ replies' \in [Shard -> Seq(Reply)]
      /\ sent'[s] = p /\ replies'[s] = rr
      /\ \A t \in Shard : t # s => sent'[t] = sent[t] /\ replies'[t] = replies[t]
  BY <1>5, <1>6, <1>7, <1>8
<1>10. Outstanding(s)' = Outstanding(s)
  <2>1. PICK o, oo : o = Commands(rs, q) /\ oo = Commands(rr, p)
    OBVIOUS
  <2>2. o \in Seq(Command)
    BY <2>1, CommandsAre
  <2>3. Len(oo) = Len(o) /\ oo \in Seq(Command) /\ \A i \in 1 .. Len(o) : oo[i] = o[i]
    BY <1>1, <1>2, <1>3, <2>1, CommandsRun
  <2>4. oo = o
    BY <2>2, <2>3, SeqEqual
  <2>5. Outstanding(s) = o
    BY <1>1, <2>1, OutstandingIs
  <2>6. Outstanding(s)' = oo
    BY <1>9, <2>1 DEF Outstanding, Commands
  <2> QED
    BY <2>4, <2>5, <2>6
<1>11. \A t \in Shard : Outstanding(t)' = Outstanding(t)
  <2> TAKE t \in Shard
  <2>1. CASE t = s
    BY <1>10, <2>1
  <2>2. CASE t # s
    BY <1>9, <2>2 DEF Outstanding
  <2> QED
    BY <2>1, <2>2
<1>12. \A i \in 1 .. Len(p) : i + 1 \in 1 .. m /\ i + 1 # 1 /\ p[i] = q[i + 1]
  <2> TAKE i \in 1 .. Len(p)
  <2>1. i \in 1 .. m - 1 /\ i + 1 \in 1 .. m /\ i + 1 # 1
    BY <1>6
  <2> QED
    BY <1>6, <2>1
<1>13. \A i \in 1 .. Len(rr) : rr[i] = r \/ (i \in 1 .. n /\ rr[i] = rs[i])
  <2> TAKE i \in 1 .. Len(rr)
  <2>1. i = n + 1 \/ i \in 1 .. n
    BY <1>5
  <2> QED
    BY <1>5, <2>1
<1> QED
  BY <1>1, <1>4, <1>9, <1>11, <1>12, <1>13

(* RedisExec() preserves the invariant.                                    *)
LEMMA ExecStep ==
  ASSUME ScriptInv, NEW s \in Shard, RedisExec(s)
  PROVE  ScriptInv'
<1>0. ScriptTypeOK
  BY DEF ScriptInv
<1>1. PICK cmd, result : Ran(s, cmd, result)
  BY DEF RedisExec, Ran
<1>2. /\ cmd \in Command /\ result \in Result
      /\ 1 \in 1 .. Len(sent[s]) /\ cmd = sent[s][1]
      /\ Len(replies[s]) + 1 \in Nat /\ CallAt(s, Len(replies[s]) + 1, cmd.call)
      /\ SentOK(s, cmd) /\ CommandOK(s, cmd)
      /\ cmd.op = "EVALSHA" /\ result = "noscript" => cmd.script \notin cache[s]
  BY <1>1, RunFacts
<1>3. PICK r : r = [cmd |-> cmd, result |-> result]
  OBVIOUS
<1>4. r \in Reply /\ r.cmd = cmd /\ r.result = result
  BY <1>2, <1>3 DEF Reply
<1>5. /\ \A t \in Shard : Outstanding(t)' = Outstanding(t)
      /\ sent' \in [Shard -> Seq(Command)] /\ replies' \in [Shard -> Seq(Reply)]
      /\ \A t \in Shard : t # s => sent'[t] = sent[t] /\ replies'[t] = replies[t]
      /\ \A i \in 1 .. Len(sent'[s]) :
           i + 1 \in 1 .. Len(sent[s]) /\ i + 1 # 1 /\ sent'[s][i] = sent[s][i + 1]
      /\ \A i \in 1 .. Len(replies'[s]) :
           \/ replies'[s][i] = r
           \/ i \in 1 .. Len(replies[s]) /\ replies'[s][i] = replies[s][i]
  BY <1>0, <1>1, <1>2, <1>3, RunMoves
<1>6. UNCHANGED <<g_sha, link, late, flushes, connects>> /\ UNCHANGED pools
  BY DEF RedisExec
<1>7. PICK d, n : d = cmd.call /\ n = IF cmd.op = "EVALSHA" /\ result = "ok" THEN 1 ELSE 0
  OBVIOUS
<1>8. Runs(d, n)
  <2>1. d \in Call => call[d].ran = 0
    BY <1>2, <1>7 DEF SentOK
  <2>2. cmd.op = "EVALSHA" => d \in Call
    BY <1>2, <1>7 DEF CommandOK
  <2>3. \/ n = 1 /\ d \in Call /\ call' = [call EXCEPT ![d].ran = @ + 1]
        \/ n = 0 /\ call' = call
    BY <1>1, <1>7, <2>2 DEF Ran
  <2> QED
    BY <1>0, <2>1, <2>3, RunsOne
<1>9. /\ cache' \in [Shard -> SUBSET Script] /\ \A t \in Shard : cache[t] \subseteq cache'[t]
      /\ cmd.op = "LOAD" /\ result = "ok" => cmd.script \in cache'[s]
  <2>1. cache \in [Shard -> SUBSET Script] /\ cmd.script \in Script
    BY <1>0, <1>2 DEF ScriptTypeOK, Command
  <2>2. cache' = IF cmd.op = "LOAD" /\ result = "ok"
                 THEN [cache EXCEPT ![s] = @ \cup {cmd.script}] ELSE cache
    BY <1>1 DEF Ran
  <2> QED
    BY <2>1, <2>2
<1>10. OpenCalls' = OpenCalls
  BY <1>8 DEF OpenCalls, Runs
<1>11. Counts'
  BY <1>5, <1>6, <1>10, SameCounts
<1>12. ScriptTypeOK'
  <2>1. call' \in [Call -> CallRecord]
    BY <1>8 DEF Runs
  <2>2. evalFree' = evalFree /\ loadFree' = loadFree /\ dbFree' = dbFree
    BY <1>6 DEF pools
  <2> QED
    BY <1>0, <1>5, <1>6, <1>9, <2>1, <2>2 DEF ScriptTypeOK
<1>13. ASSUME NEW t \in Shard, NEW i \in Nat, NEW c \in Call, CallAt(t, i, c),
              ~(t = s /\ i = Len(replies[s]) + 1)
       PROVE  call'[c] = call[c]
  <2>1. c # d
    <3>1. OneOwner(c)
      BY DEF ScriptInv, CallOK
    <3> QED
      BY <1>2, <1>7, <1>13, <3>1 DEF OneOwner
  <2> QED
    BY <1>8, <2>1 DEF Runs
<1>14. ASSUME NEW t \in Shard
       PROVE  /\ Len(Outstanding(t)') <= PendingCap
              /\ \A i \in 1 .. Len(Outstanding(t)') : CommandOK(t, Outstanding(t)[i])'
              /\ \A i \in 1 .. Len(sent'[t]) : SentOK(t, sent[t][i])'
              /\ \A i \in 1 .. Len(replies'[t]) : ReplyOK(t, replies[t][i])'
  <2>1. Len(Outstanding(t)') <= PendingCap
    BY <1>5 DEF ScriptInv
  <2>2. ASSUME NEW i \in 1 .. Len(Outstanding(t)') PROVE CommandOK(t, Outstanding(t)[i])'
    <3>1. PICK x : x = Outstanding(t)[i] /\ x = Outstanding(t)'[i]
      BY <1>5
    <3>2. CommandOK(t, x)
      BY <1>5, <3>1 DEF ScriptInv
    <3>3. CommandOK(t, x)'
      BY <1>8, <3>2 DEF CommandOK, Runs
    <3> QED
      BY <3>1, <3>3
  <2>3. ASSUME NEW i \in 1 .. Len(sent'[t]) PROVE SentOK(t, sent[t][i])'
    <3>1. PICK j \in 1 .. Len(sent[t]) : sent'[t][i] = sent[t][j] /\ ~(t = s /\ j = 1)
      <4>1. CASE t = s
        BY <1>5, <4>1
      <4>2. CASE t # s
        BY <1>5, <4>2
      <4> QED
        BY <4>1, <4>2
    <3>2. PICK x : x = sent[t][j] /\ x = sent'[t][i]
      BY <3>1
    <3>3. SentOK(t, x)
      BY <3>2 DEF ScriptInv
    <3>4. /\ Len(replies[t]) + j \in Nat /\ CallAt(t, Len(replies[t]) + j, x.call)
          /\ Len(replies[t]) \in Nat
      BY <1>0, <3>2, CallsOfCommands
    <3>5. ~(t = s /\ Len(replies[t]) + j = Len(replies[s]) + 1)
      <4>1. PICK m \in Nat : m = Len(replies[t])
        BY <3>4
      <4>2. j \in Int /\ (m + j = m + 1 => j = 1)
        BY <3>1
      <4> QED
        BY <3>1, <4>1, <4>2
    <3>6. x.call \in Call => call'[x.call] = call[x.call]
      BY <1>13, <3>4, <3>5
    <3>7. PICK y : y = [cmd |-> x]
      OBVIOUS
    <3>8. y.cmd = x
      BY <3>7
    <3>9. cache[t] \subseteq cache'[t] /\ UNCHANGED flushes
      BY <1>6, <1>9
    <3>10. SentOK(t, x)'
      BY <3>3, <3>6, <3>8, <3>9, ElementGrows
    <3> QED
      BY <3>2, <3>10
  <2>4. ASSUME NEW i \in 1 .. Len(replies'[t]) PROVE ReplyOK(t, replies[t][i])'
    <3>1. CASE t = s /\ replies'[s][i] = r
      <4>1. ReplyOK(s, r)'
        <5>1. ASSUME cmd.call \in Call
              PROVE  /\ call'[cmd.call].ran = IF cmd.op = "EVALSHA" /\ result = "ok" THEN 1 ELSE 0
                     /\ cmd.op = "EVALSHA" /\ result = "noscript" => Explained(s, cmd.call)'
          <6>1. call'[cmd.call].ran = IF cmd.op = "EVALSHA" /\ result = "ok" THEN 1 ELSE 0
            BY <1>7, <1>8, <5>1 DEF Runs
          <6>2. ASSUME cmd.op = "EVALSHA", result = "noscript" PROVE Explained(s, cmd.call)'
            <7>1. Explained(s, cmd.call)
              BY <1>2, <5>1, <6>2 DEF SentOK
            <7>2. /\ call'[cmd.call].retried = call[cmd.call].retried
                  /\ call'[cmd.call].spared = call[cmd.call].spared /\ flushes' = flushes
              BY <1>6, <1>8, <5>1 DEF Runs
            <7> QED
              BY <7>1, <7>2 DEF Explained
          <6> QED
            BY <6>1, <6>2
        <5>2. cmd.op = "LOAD" /\ result = "ok" => cmd.script \in cache'[s]
          BY <1>9
        <5> QED
          BY <1>4, <5>1, <5>2 DEF ReplyOK
      <4> QED
        BY <3>1, <4>1
    <3>2. CASE i \in 1 .. Len(replies[t]) /\ replies'[t][i] = replies[t][i]
      <4>1. PICK x : x = replies[t][i] /\ x = replies'[t][i]
        BY <3>2
      <4>2. ReplyOK(t, x)
        BY <3>2, <4>1 DEF ScriptInv
      <4>3. i \in Nat /\ CallAt(t, i, x.cmd.call) /\ Len(replies[t]) \in Nat
        BY <1>0, <3>2, <4>1, CallsOfCommands
      <4>4. ~(t = s /\ i = Len(replies[s]) + 1)
        <5>1. PICK m \in Nat : m = Len(replies[t])
          BY <4>3
        <5>2. i # m + 1
          BY <3>2, <5>1
        <5> QED
          BY <5>1, <5>2
      <4>5. x.cmd.call \in Call => call'[x.cmd.call] = call[x.cmd.call]
        BY <1>13, <4>3, <4>4
      <4>6. cache[t] \subseteq cache'[t] /\ UNCHANGED flushes
        BY <1>6, <1>9
      <4>7. ReplyOK(t, x)'
        BY <4>2, <4>5, <4>6, ElementGrows
      <4> QED
        BY <4>1, <4>7
    <3> QED
      BY <1>5, <3>1, <3>2
  <2> QED
    BY <2>1, <2>2, <2>3, <2>4
<1>15. ASSUME NEW c \in Call PROVE CallOK(c)'
  <2>1. CallOK(c)
    BY DEF ScriptInv
  <2>2. (Owned(c)' <=> Owned(c)) /\ (OneOwner(c)' <=> OneOwner(c))
    BY <1>5, SameCommands
  <2>3. /\ call'[c].shard = call[c].shard /\ call'[c].retried = call[c].retried
        /\ call'[c].ret = call[c].ret /\ call'[c].answers = call[c].answers
        /\ call'[c].spared = call[c].spared /\ flushes' = flushes
    BY <1>6, <1>8 DEF Runs
  <2>4. call'[c].ret # "OK" => call'[c].ran = 0
    <3>1. CASE c = d
      <4>1. call[c].ret = "OK"
        BY <1>2, <1>7, <3>1, OwnedCall
      <4> QED
        BY <2>3, <4>1
    <3>2. CASE c # d
      <4>1. call'[c] = call[c]
        BY <1>8, <3>2 DEF Runs
      <4> QED
        BY <2>1, <4>1 DEF CallOK
    <3> QED
      BY <3>1, <3>2
  <2> QED
    BY <1>10, <2>1, <2>2, <2>3, <2>4 DEF CallOK
<1> QED
  BY <1>11, <1>12, <1>14, <1>15 DEF ScriptInv

-----------------------------------------------------------------------------
(* What Redis runs after the connection broke.                             *)

(* The call that a late command belongs to, and what changes.              *)
LEMMA LateFacts ==
  ASSUME ScriptInv, LateInv, NEW s \in Shard, NEW cmd, LateExec(s, cmd)
  PROVE  \E d, n :
           /\ Runs(d, n)
           /\ d \in Call => /\ call[d].ret = "OK" /\ call[d].answers = <<"fail">>
                            /\ call[d].ran = 0 /\ n = 1
           /\ d \notin Call => call' = call /\ late' = late
           /\ d \in Call => /\ cmd.op = "EVALSHA" /\ cmd.call = d
                            /\ late' = [late EXCEPT ![s] = @ \ {cmd}]
<1>0. ScriptTypeOK
  BY DEF ScriptInv
<1>1. CASE cmd.op = "LOAD" /\ UNCHANGED <<late, call>>
  <2>1. PICK d, n : d = NoCall /\ n = 0
    OBVIOUS
  <2>2. d \notin Call
    BY <2>1, PoolAssumption
  <2>3. Runs(d, n)
    BY <1>0, <1>1, <2>1, <2>2, RunsOne
  <2> QED
    BY <1>1, <2>2, <2>3
<1>2. CASE /\ cmd.op = "EVALSHA" /\ late' = [late EXCEPT ![s] = @ \ {cmd}]
           /\ call' = [call EXCEPT ![cmd.call].ran = @ + 1]
  <2>1. LateOK(s, cmd)
    BY DEF LateExec, LateInv
  <2>2. PICK d, n : d = cmd.call /\ n = 1
    OBVIOUS
  <2>3. d \in Call /\ call[d].ret = "OK" /\ call[d].answers = <<"fail">> /\ call[d].ran = 0
    BY <1>2, <2>1, <2>2 DEF LateOK
  <2>4. Runs(d, n)
    BY <1>0, <1>2, <2>2, <2>3, RunsOne
  <2> QED
    BY <1>2, <2>2, <2>3, <2>4
<1> QED
  BY <1>1, <1>2 DEF LateExec

(* A late command changes no call that has a command on a connection.      *)
LEMMA LateStep ==
  ASSUME ScriptInv, LateInv, NEW s \in Shard, NEW cmd, LateExec(s, cmd)
  PROVE  ScriptInv'
<1>0. ScriptTypeOK
  BY DEF ScriptInv
<1>1. PICK d, n :
        /\ Runs(d, n)
        /\ d \in Call => call[d].ret = "OK" /\ call[d].answers = <<"fail">>
        /\ d \notin Call => call' = call /\ late' = late
        /\ d \in Call => late' = [late EXCEPT ![s] = @ \ {cmd}]
  BY LateFacts
<1>2. UNCHANGED <<g_sha, link, sent, replies, flushes, connects>> /\ UNCHANGED pools
  BY DEF LateExec
<1>3. cache' \in [Shard -> SUBSET Script] /\ \A t \in Shard : cache[t] \subseteq cache'[t]
  <2>1. cache \in [Shard -> SUBSET Script] /\ late \in [Shard -> SUBSET Command] /\ cmd \in late[s]
    BY <1>0 DEF ScriptTypeOK, LateExec
  <2>2. cmd.script \in Script
    BY <2>1 DEF Command
  <2>3. cache' = cache \/ cache' = [cache EXCEPT ![s] = @ \cup {cmd.script}]
    BY DEF LateExec
  <2> QED
    BY <2>1, <2>2, <2>3
<1>4. \A t \in Shard : Outstanding(t)' = Outstanding(t)
  BY <1>2 DEF Outstanding
<1>5. OpenCalls' = OpenCalls
  BY <1>1 DEF OpenCalls, Runs
<1>6. Counts'
  BY <1>2, <1>4, <1>5, SameCounts
<1>7. ScriptTypeOK'
  <2>1. call' \in [Call -> CallRecord]
    BY <1>1 DEF Runs
  <2>2. late' \in [Shard -> SUBSET Command]
    <3>1. late \in [Shard -> SUBSET Command]
      BY <1>0 DEF ScriptTypeOK
    <3> QED
      BY <1>1, <3>1
  <2>3. evalFree' = evalFree /\ loadFree' = loadFree /\ dbFree' = dbFree
    BY <1>2 DEF pools
  <2> QED
    BY <1>0, <1>2, <1>3, <2>1, <2>2, <2>3 DEF ScriptTypeOK
<1>8. ASSUME NEW t \in Shard, NEW i \in Nat, NEW c \in Call, CallAt(t, i, c)
      PROVE  call'[c] = call[c]
  <2>1. call[c].answers = << >>
    BY <1>8, OwnedCall
  <2>2. <<"fail">> # << >>
    OBVIOUS
  <2>3. c # d
    BY <1>1, <2>1, <2>2
  <2> QED
    BY <1>1, <2>3 DEF Runs
<1>9. ASSUME NEW t \in Shard
      PROVE  /\ Len(Outstanding(t)') <= PendingCap
             /\ \A i \in 1 .. Len(Outstanding(t)') : CommandOK(t, Outstanding(t)[i])'
             /\ \A i \in 1 .. Len(sent'[t]) : SentOK(t, sent[t][i])'
             /\ \A i \in 1 .. Len(replies'[t]) : ReplyOK(t, replies[t][i])'
  <2>0. cache[t] \subseteq cache'[t] /\ UNCHANGED flushes
    BY <1>2, <1>3
  <2>1. Len(Outstanding(t)') <= PendingCap
    BY <1>4 DEF ScriptInv
  <2>2. ASSUME NEW i \in 1 .. Len(Outstanding(t)') PROVE CommandOK(t, Outstanding(t)[i])'
    <3>1. PICK x : x = Outstanding(t)[i] /\ x = Outstanding(t)'[i]
      BY <1>4
    <3>2. CommandOK(t, x)
      BY <1>4, <3>1 DEF ScriptInv
    <3>3. CommandOK(t, x)'
      BY <1>1, <3>2 DEF CommandOK, Runs
    <3> QED
      BY <3>1, <3>3
  <2>3. ASSUME NEW i \in 1 .. Len(sent'[t]) PROVE SentOK(t, sent[t][i])'
    <3>1. PICK x : x = sent[t][i] /\ x = sent'[t][i] /\ i \in 1 .. Len(sent[t])
      BY <1>2
    <3>2. SentOK(t, x)
      BY <3>1 DEF ScriptInv
    <3>3. PICK j \in Nat : CallAt(t, j, x.call)
      BY <1>0, <3>1, CallsOfCommands
    <3>4. x.call \in Call => call'[x.call] = call[x.call]
      BY <1>8, <3>3
    <3>5. PICK y : y = [cmd |-> x]
      OBVIOUS
    <3>6. y.cmd = x
      BY <3>5
    <3>7. SentOK(t, x)'
      BY <2>0, <3>2, <3>4, <3>6, ElementGrows
    <3> QED
      BY <3>1, <3>7
  <2>4. ASSUME NEW i \in 1 .. Len(replies'[t]) PROVE ReplyOK(t, replies[t][i])'
    <3>1. PICK x : x = replies[t][i] /\ x = replies'[t][i] /\ i \in 1 .. Len(replies[t])
      BY <1>2
    <3>2. ReplyOK(t, x)
      BY <3>1 DEF ScriptInv
    <3>3. PICK j \in Nat : CallAt(t, j, x.cmd.call)
      BY <1>0, <3>1, CallsOfCommands
    <3>4. x.cmd.call \in Call => call'[x.cmd.call] = call[x.cmd.call]
      BY <1>8, <3>3
    <3>5. ReplyOK(t, x)'
      BY <2>0, <3>2, <3>4, ElementGrows
    <3> QED
      BY <3>1, <3>5
  <2> QED
    BY <2>1, <2>2, <2>3, <2>4
<1>10. ASSUME NEW c \in Call PROVE CallOK(c)'
  <2>1. CallOK(c)
    BY DEF ScriptInv
  <2>2. (Owned(c)' <=> Owned(c)) /\ (OneOwner(c)' <=> OneOwner(c))
    BY <1>4, SameCommands
  <2>3. /\ call'[c].shard = call[c].shard /\ call'[c].retried = call[c].retried
        /\ call'[c].ret = call[c].ret /\ call'[c].answers = call[c].answers
        /\ call'[c].spared = call[c].spared /\ flushes' = flushes
    BY <1>1, <1>2 DEF Runs
  <2>4. call'[c].ret # "OK" => call'[c].ran = 0
    <3>1. CASE c = d
      BY <1>1, <2>3, <3>1
    <3>2. CASE c # d
      <4>1. call'[c] = call[c]
        BY <1>1, <3>2 DEF Runs
      <4> QED
        BY <2>1, <4>1 DEF CallOK
    <3> QED
      BY <3>1, <3>2
  <2> QED
    BY <1>5, <2>1, <2>2, <2>3, <2>4 DEF CallOK
<1> QED
  BY <1>6, <1>7, <1>9, <1>10 DEF ScriptInv

(* A call that was answered is not touched again, except that its script   *)
(* may run late.                                                           *)
AnsweredKept == \A c \in Call : call[c].ret = "OK" /\ call[c].answers # << >> => call'[c] = call[c]

(* A step that changes at most the record of one call, which was not       *)
(* answered, leaves the others.                                            *)
LEMMA OneChanges ==
  ASSUME NEW c, c \notin Call \/ call[c].ret # "OK" \/ call[c].answers = << >>,
         \A d \in Call : d # c => call'[d] = call[d]
  PROVE  AnsweredKept
BY DEF AnsweredKept

(* No step but LateExec touches an answered call.                          *)
LEMMA AnsweredStay ==
  ASSUME ScriptInv,
         \/ \E c \in Call : v_db_evalsha(c)
         \/ \E s \in Shard : on_reply(s) \/ Connected(s) \/ Teardown(s) \/ RedisExec(s) \/ RedisForgets(s)
  PROVE  AnsweredKept
<1>0. call \in [Call -> CallRecord]
  BY DEF ScriptInv, ScriptTypeOK
<1>1. ASSUME NEW c \in Call, v_db_evalsha(c) PROVE AnsweredKept
  <2>1. call[c].ret = "none" /\ \A d \in Call : d # c => call'[d] = call[d]
    BY <1>0, <1>1 DEF v_db_evalsha, EvalRefused, EvalIssued, Called
  <2> QED
    BY <2>1, OneChanges
<1>2. ASSUME NEW s \in Shard, on_reply(s) PROVE AnsweredKept
  <2>1. PICK r, c : r = Head(replies[s]) /\ c = r.cmd.call
    OBVIOUS
  <2>2. Heard(s, r)
    BY <1>2, <2>1, HeardFacts DEF on_reply
  <2>3. c \notin Call \/ call[c].answers = << >>
    BY <2>1, <2>2 DEF Heard
  <2>4. \A a : \A d \in Call : d # c => Told(c, a)[d] = call[d]
    BY <1>0 DEF Told
  <2>5. \A a : Told(c, a) \in [Call -> {Told(c, a)[d] : d \in Call}]
    BY <1>0 DEF Told
  <2>6. \/ call' = call \/ call' = [call EXCEPT ![c].retried = TRUE]
        \/ \E a : call' = Told(c, a)
        \/ call' = [Told(c, "fail") EXCEPT ![c].retried = TRUE]
    BY <1>2, <2>1 DEF on_reply, evalsha_reply_cb, LoadOk, LoadFailed
  <2>7. \A d \in Call : d # c => call'[d] = call[d]
    BY <1>0, <2>4, <2>5, <2>6
  <2> QED
    BY <2>3, <2>7, OneChanges
<1>3. ASSUME NEW s \in Shard, Connected(s) \/ RedisForgets(s) PROVE AnsweredKept
  BY <1>3 DEF Connected, RedisForgets, AnsweredKept
<1>4. ASSUME NEW s \in Shard, Teardown(s) PROVE AnsweredKept
  <2>1. Due(s) \subseteq OpenCalls
    BY DueCalls, OutstandingIs DEF ScriptInv
  <2>2. \A c \in Call : c \notin Due(s) => call'[c] = call[c]
    BY <1>4 DEF Teardown
  <2> QED
    BY <2>1, <2>2 DEF AnsweredKept, OpenCalls
<1>5. ASSUME NEW s \in Shard, RedisExec(s) PROVE AnsweredKept
  <2>1. PICK cmd, result : Ran(s, cmd, result)
    BY <1>5 DEF RedisExec, Ran
  <2>2. Len(replies[s]) + 1 \in Nat /\ CallAt(s, Len(replies[s]) + 1, cmd.call)
    BY <2>1, RunFacts
  <2>3. cmd.call \notin Call \/ call[cmd.call].answers = << >>
    BY <2>2, OwnedCall
  <2>4. \A d \in Call : d # cmd.call => call'[d] = call[d]
    BY <1>0, <2>1 DEF Ran
  <2> QED
    BY <2>3, <2>4, OneChanges
<1> QED
  BY <1>1, <1>2, <1>3, <1>4, <1>5

(* What was late stays as it was.                                          *)
LEMMA LateKept ==
  ASSUME LateInv, AnsweredKept, NEW t \in Shard, NEW x \in late[t]
  PROVE  LateOK(t, x)'
<1>1. LateOK(t, x)
  BY DEF LateInv
<1>2. CASE x.op # "EVALSHA"
  BY <1>2 DEF LateOK
<1>3. CASE x.op = "EVALSHA"
  <2>1. <<"fail">> # << >>
    OBVIOUS
  <2>2. call'[x.call] = call[x.call]
    BY <1>1, <1>3, <2>1 DEF LateOK, AnsweredKept
  <2> QED
    BY <1>1, <1>3, <2>2 DEF LateOK
<1> QED
  BY <1>2, <1>3

(* What a broken connection leaves was on its way for a call that the end  *)
(* of the context fails.                                                   *)
LEMMA LateTeardown ==
  ASSUME ScriptInv, LateInv, NEW s \in Shard, Teardown(s)
  PROVE  LateInv'
<1>0. ScriptTypeOK
  BY DEF ScriptInv
<1>1. AnsweredKept
  BY AnsweredStay
<1>2. ASSUME NEW x, NEW i \in 1 .. Len(sent[s]), x = sent[s][i] PROVE LateOK(s, x)'
  <2>1. x = sent[s][i]
    BY <1>2
  <2>2. PICK j \in Nat : CallAt(s, j, x.call) /\ Outstanding(s)[j] = x
    BY <1>0, <2>1, CallsOfCommands
  <2>3. CommandOK(s, x) /\ SentOK(s, x)
    BY <2>1, <2>2 DEF ScriptInv, CallAt
  <2>4. ASSUME x.op = "EVALSHA"
        PROVE  /\ x.call \in Call /\ call'[x.call].shard = s /\ call'[x.call].script = x.script
               /\ call'[x.call].ret = "OK" /\ call'[x.call].answers = <<"fail">>
               /\ call'[x.call].ran = 0
    <3>1. PICK c \in Call : c = x.call
      BY <2>3, <2>4 DEF CommandOK
    <3>2. call[c].shard = s /\ call[c].script = x.script /\ call[c].ran = 0
      BY <2>3, <3>1 DEF CommandOK, SentOK
    <3>3. c \in Due(s)
      <4>1. j \in DOMAIN Outstanding(s)
        BY <1>0, <2>2, OutstandingIs DEF CallAt
      <4> QED
        BY <2>2, <3>1, <4>1 DEF Due
    <3>4. call[c].ret = "OK" /\ call[c].answers = << >>
      BY <2>2, <3>1, OwnedCall
    <3>5. c \in OpenCalls
      BY <3>4 DEF OpenCalls
    <3> QED
      BY <3>1, <3>2, <3>3, <3>4, <3>5, DueTold
  <2> QED
    BY <2>4 DEF LateOK
<1>3. ASSUME NEW t \in Shard, NEW x \in late'[t] PROVE LateOK(t, x)'
  <2>1. x \in late[t] \/ (t = s /\ \E i \in 1 .. Len(sent[s]) : x = sent[s][i])
    BY <1>0, TeardownLate
  <2>2. CASE x \in late[t]
    BY <1>1, <2>2, LateKept
  <2>3. CASE t = s /\ \E i \in 1 .. Len(sent[s]) : x = sent[s][i]
    BY <1>2, <2>3
  <2> QED
    BY <2>1, <2>2, <2>3
<1> QED
  BY <1>3 DEF LateInv

(* A late command that has run is not run again, and no other is for its   *)
(* call.                                                                   *)
LEMMA LateRuns ==
  ASSUME ScriptInv, LateInv, NEW s \in Shard, NEW cmd, LateExec(s, cmd)
  PROVE  LateInv'
<1>0. late \in [Shard -> SUBSET Command] /\ cmd \in late[s]
  BY DEF ScriptInv, ScriptTypeOK, LateExec
<1>1. PICK d, n :
        /\ Runs(d, n)
        /\ d \notin Call => call' = call /\ late' = late
        /\ d \in Call => /\ cmd.op = "EVALSHA" /\ cmd.call = d
                         /\ late' = [late EXCEPT ![s] = @ \ {cmd}]
  BY LateFacts
<1>2. ASSUME NEW t \in Shard, NEW x \in late'[t] PROVE LateOK(t, x)'
  <2>1. x \in late[t] /\ (d \in Call => ~(t = s /\ x = cmd)) /\ x \in Command /\ cmd \in Command
    BY <1>0, <1>1
  <2>2. LateOK(t, x) /\ LateOK(s, cmd)
    BY <1>0, <2>1 DEF LateInv
  <2>3. CASE x.op # "EVALSHA"
    BY <2>3 DEF LateOK
  <2>4. CASE x.op = "EVALSHA"
    <3>1. x.call # d
      <4> SUFFICES ASSUME x.call = d PROVE FALSE
        OBVIOUS
      <4>1. d \in Call /\ cmd.op = "EVALSHA" /\ cmd.call = d
        BY <1>1, <2>2, <2>4 DEF LateOK
      <4>2. t = s /\ x.script = cmd.script
        BY <2>2, <2>4, <4>1 DEF LateOK
      <4>3. x = cmd
        BY <2>1, <2>4, <4>1, <4>2 DEF Command
      <4> QED
        BY <2>1, <4>1, <4>2, <4>3
    <3>2. x.call \in Call /\ call'[x.call] = call[x.call]
      BY <1>1, <2>2, <2>4, <3>1 DEF LateOK, Runs
    <3> QED
      BY <2>2, <2>4, <3>2 DEF LateOK
  <2> QED
    BY <2>3, <2>4
<1> QED
  BY <1>2 DEF LateInv

(* Every step preserves it.                                                *)
LEMMA LateInvNext ==
  ASSUME ScriptInv, LateInv, [Next]_vars
  PROVE  LateInv'
<1>1. ASSUME late' = late, AnsweredKept PROVE LateInv'
  BY <1>1, LateKept DEF LateInv
<1>2. CASE UNCHANGED vars
  <2>1. late' = late /\ AnsweredKept
    BY <1>2 DEF vars, AnsweredKept
  <2> QED
    BY <1>1, <2>1
<1>3. CASE \E c \in Call : v_db_evalsha(c)
  <2>1. late' = late
    BY <1>3 DEF v_db_evalsha, EvalRefused, EvalIssued
  <2> QED
    BY <1>1, <1>3, <2>1, AnsweredStay
<1>4. CASE \E s \in Shard : on_reply(s) \/ Connected(s) \/ RedisExec(s) \/ RedisForgets(s)
  <2>1. late' = late
    BY <1>4 DEF on_reply, Connected, RedisExec, RedisForgets
  <2>2. AnsweredKept
    BY <1>4, AnsweredStay
  <2> QED
    BY <1>1, <2>1, <2>2
<1>5. CASE \E s \in Shard : Teardown(s)
  BY <1>5, LateTeardown
<1>6. CASE \E s \in Shard : \E cmd \in late[s] : LateExec(s, cmd)
  BY <1>6, LateRuns
<1> QED
  BY <1>2, <1>3, <1>4, <1>5, <1>6
    DEF Next, connect_cb, ConnectFailed, disconnect_cb, v_stub_db_test_force_reconnect

-----------------------------------------------------------------------------
(* The theorems.                                                           *)

(* The invariant holds after v_db_script_init().                           *)
LEMMA ScriptInvInit ==
  ASSUME Init
  PROVE  ScriptInv
<1>1. /\ sent = [s \in Shard |-> << >>] /\ replies = [s \in Shard |-> << >>]
      /\ evalFree = EvalCap /\ loadFree = LoadCap /\ dbFree = PendingCap
  BY DEF Init, v_db_script_init
<1>2. PICK s0 \in Shard :
        call = [c \in Call |->
                  [shard |-> s0, script |-> 0, retried |-> FALSE, ret |-> "none",
                   answers |-> << >>, ran |-> 0, spared |-> 0]]
  BY DEF Init
<1>3. /\ EvalCap \in Nat /\ LoadCap \in Nat /\ PendingCap \in Nat /\ MaxFlush \in Nat
      /\ MaxConnect \in Nat /\ ScriptCount \in Nat /\ ScriptCount # 0
  BY PoolAssumption
<1>4. ScriptTypeOK
  <2>1. 0 \in Script
    BY <1>3 DEF Script
  <2>2. << >> \in Seq(Result \cup {"fail"}) /\ << >> \in Seq(Command) /\ << >> \in Seq(Reply)
    OBVIOUS
  <2>3. call \in [Call -> CallRecord]
    BY <1>2, <2>1, <2>2 DEF CallRecord
  <2>4. sent \in [Shard -> Seq(Command)] /\ replies \in [Shard -> Seq(Reply)]
    BY <1>1, <2>2
  <2>5. evalFree \in 0 .. EvalCap /\ loadFree \in 0 .. LoadCap /\ dbFree \in 0 .. PendingCap
    BY <1>1, <1>3
  <2>6. /\ g_sha \in [Shard -> SUBSET Script] /\ link \in [Shard -> {"down", "connecting", "up", "failed"}]
        /\ late \in [Shard -> SUBSET Command] /\ cache \in [Shard -> SUBSET Script]
    BY DEF Init, v_db_script_init
  <2>7. flushes \in [Shard -> 0 .. MaxFlush] /\ connects \in [Shard -> 0 .. MaxConnect]
    BY <1>3 DEF Init
  <2> QED
    BY <2>3, <2>4, <2>5, <2>6, <2>7 DEF ScriptTypeOK
<1>5. ASSUME NEW s \in Shard
      PROVE  /\ Len(Outstanding(s)) = 0 /\ Len(sent[s]) = 0 /\ Len(replies[s]) = 0
             /\ DOMAIN Outstanding(s) = {} /\ \A i : i \notin 1 .. Len(Outstanding(s))
  <2>1. sent[s] = << >> /\ replies[s] = << >>
    BY <1>1
  <2>2. Len(Outstanding(s)) = Len(replies[s]) + Len(sent[s])
    BY <1>4, CallsOfCommands
  <2>3. Len(<< >>) = 0 /\ 0 + 0 = 0
    OBVIOUS
  <2>4. Len(Outstanding(s)) = 0
    BY <2>1, <2>2, <2>3
  <2>5. DOMAIN Outstanding(s) = 1 .. Len(Outstanding(s))
    BY <1>4, OutstandingIs
  <2> QED
    BY <2>1, <2>3, <2>4, <2>5
<1>6. /\ OpenCalls = {} /\ AllAt = {} /\ LoadsAt = {}
  BY <1>2, <1>5 DEF OpenCalls, AllAt, LoadsAt, Loads
<1>7. Counts
  <2>1. IsFiniteSet({}) /\ Cardinality({}) = 0
    BY FS_EmptySet
  <2>2. EvalCap = EvalCap - 0 /\ LoadCap = LoadCap - 0 /\ PendingCap = PendingCap - 0
    BY <1>3
  <2> QED
    BY <1>1, <1>6, <2>1, <2>2 DEF Counts
<1>8. ASSUME NEW c \in Call PROVE CallOK(c)
  <2>1. ~Owned(c) /\ OneOwner(c)
    BY <1>5 DEF Owned, OneOwner, CallAt
  <2>2. Len(<< >>) <= 1 /\ << >> # <<"noscript">>
    OBVIOUS
  <2>3. /\ call[c].ret = "none" /\ call[c].answers = << >> /\ call[c].ran = 0 /\ ~call[c].retried
    BY <1>2
  <2> QED
    BY <1>6, <2>1, <2>2, <2>3 DEF CallOK
<1>9. \A s \in Shard :
        /\ Len(Outstanding(s)) <= PendingCap
        /\ \A i \in 1 .. Len(Outstanding(s)) : CommandOK(s, Outstanding(s)[i])
        /\ \A i \in 1 .. Len(sent[s]) : SentOK(s, sent[s][i])
        /\ \A i \in 1 .. Len(replies[s]) : ReplyOK(s, replies[s][i])
  BY <1>3, <1>5
<1> QED
  BY <1>4, <1>7, <1>8, <1>9 DEF ScriptInv

(* Every step preserves the invariant.                                     *)
LEMMA ScriptInvNext ==
  ASSUME ScriptInv, LateInv, [Next]_vars
  PROVE  ScriptInv'
<1>1. CASE UNCHANGED vars
  <2>1. /\ UNCHANGED <<g_sha, link, sent, late, replies, call, cache, flushes, connects>>
        /\ UNCHANGED pools
    BY <1>1 DEF vars, pools
  <2>2. UNCHANGED <<evalFree, loadFree, dbFree>>
    BY <2>1 DEF pools
  <2>3. \A t \in Shard : Outstanding(t)' = Outstanding(t)
    BY <2>1 DEF Outstanding
  <2>4. OpenCalls' = OpenCalls
    BY <2>1 DEF OpenCalls
  <2>5. Counts'
    BY <2>1, <2>3, <2>4, SameCounts
  <2>6. ScriptTypeOK'
    BY <2>1, <2>2 DEF ScriptInv, ScriptTypeOK
  <2>7. \A c \in Call : CallOK(c)'
    <3> TAKE c \in Call
    <3>1. (Owned(c)' <=> Owned(c)) /\ (OneOwner(c)' <=> OneOwner(c))
      BY <2>3, SameCommands
    <3>2. CallOK(c)
      BY DEF ScriptInv
    <3> QED
      BY <2>1, <2>4, <3>1, <3>2 DEF CallOK
  <2>8. \A s \in Shard :
          /\ Len(Outstanding(s)') <= PendingCap
          /\ \A i \in 1 .. Len(Outstanding(s)') : CommandOK(s, Outstanding(s)[i])'
          /\ \A i \in 1 .. Len(sent'[s]) : SentOK(s, sent[s][i])'
          /\ \A i \in 1 .. Len(replies'[s]) : ReplyOK(s, replies[s][i])'
    <3> TAKE s \in Shard
    <3>1. /\ Len(Outstanding(s)) <= PendingCap
          /\ \A i \in 1 .. Len(Outstanding(s)) : CommandOK(s, Outstanding(s)[i])
          /\ \A i \in 1 .. Len(sent[s]) : SentOK(s, sent[s][i])
          /\ \A i \in 1 .. Len(replies[s]) : ReplyOK(s, replies[s][i])
      BY DEF ScriptInv
    <3>2. Outstanding(s)' = Outstanding(s) /\ sent'[s] = sent[s] /\ replies'[s] = replies[s]
      BY <2>1, <2>3
    <3>3. \A i \in 1 .. Len(Outstanding(s)') : CommandOK(s, Outstanding(s)[i])'
      BY <2>1, <3>1, <3>2 DEF CommandOK
    <3>4. \A i \in 1 .. Len(sent'[s]) : SentOK(s, sent[s][i])'
      BY <2>1, <3>1, <3>2 DEF SentOK, Explained
    <3>5. \A i \in 1 .. Len(replies'[s]) : ReplyOK(s, replies[s][i])'
      BY <2>1, <3>1, <3>2 DEF ReplyOK, Explained
    <3>6. Len(Outstanding(s)') <= PendingCap
      BY <3>1, <3>2
    <3> QED
      BY <3>3, <3>4, <3>5, <3>6
  <2> QED
    BY <2>5, <2>6, <2>7, <2>8 DEF ScriptInv
<1>2. CASE \E c \in Call : v_db_evalsha(c)
  BY <1>2, EvalStep
<1>3. CASE \E s \in Shard : on_reply(s)
  BY <1>3, ReplyStep
<1>4. CASE \E s \in Shard : Connected(s) /\ UNCHANGED <<g_sha, cache, flushes, connects>>
  BY <1>4, ConnectStep
<1>5. CASE \E s \in Shard : LinkEnds(s)
  BY <1>5, DisconnectStep
<1>6. CASE \E s \in Shard : RedisExec(s)
  BY <1>6, ExecStep
<1>7. CASE \E s \in Shard : RedisForgets(s)
  BY <1>7, ForgetsStep
<1>8. CASE \E s \in Shard : \E cmd \in late[s] : LateExec(s, cmd)
  BY <1>8, LateStep
<1> QED
  BY <1>1, <1>2, <1>3, <1>4, <1>5, <1>6, <1>7, <1>8 DEF Next, connect_cb, LinkEnds

(* v_db_script.c and v_stub_db.c keep the inductive invariant.             *)
THEOREM ScriptInvariant == Spec => [](ScriptInv /\ LateInv)
<1>1. Init => ScriptInv /\ LateInv
  <2>1. Init => LateInv
    BY DEF Init, LateInv
  <2> QED
    BY <2>1, ScriptInvInit
<1>2. ScriptInv /\ LateInv /\ [Next]_vars => ScriptInv' /\ LateInv'
  BY ScriptInvNext, LateInvNext
<1> QED
  BY <1>1, <1>2, PTL DEF Spec

(* Types, and no pool of v_db_script.c and v_stub_db.c beyond its size.    *)
THEOREM ScriptTypeCorrect == Spec => []ScriptTypeOK
<1>1. ScriptInv => ScriptTypeOK
  BY DEF ScriptInv
<1> QED
  BY <1>1, ScriptInvariant, PTL

(* Where the one command of an open call is.                               *)
LEMMA PlacesOfCall ==
  ASSUME ScriptInv, NEW c \in Call
  PROVE  /\ Places(c) # {} <=> Owned(c)
         /\ IsFiniteSet(Places(c)) /\ Cardinality(Places(c)) = IF Owned(c) THEN 1 ELSE 0
<1>1. \A s \in Shard : DOMAIN Outstanding(s) = 1 .. Len(Outstanding(s)) /\ Len(Outstanding(s)) \in Nat
                       /\ Len(Outstanding(s)) <= PendingCap
  BY OutstandingIs DEF ScriptInv
<1>2. PendingCap \in Nat
  BY PoolAssumption
<1>3. ASSUME NEW s \in Shard, NEW i PROVE <<s, i>> \in Places(c) <=> i \in Nat /\ CallAt(s, i, c)
  <2>1. PICK n \in Nat : n = Len(Outstanding(s)) /\ n <= PendingCap /\ DOMAIN Outstanding(s) = 1 .. n
    BY <1>1
  <2>2. i \in 1 .. n => i \in 1 .. PendingCap /\ i \in Nat
    BY <1>2, <2>1
  <2>3. <<s, i>> \in Places(c) <=> i \in 1 .. PendingCap /\ i \in 1 .. n /\ Outstanding(s)[i].call = c
    BY <2>1 DEF Places
  <2>4. CallAt(s, i, c) <=> i \in 1 .. n /\ Outstanding(s)[i].call = c
    BY <2>1 DEF CallAt
  <2> QED
    BY <2>2, <2>3, <2>4
<1>4. \A x \in Places(c) : \E s \in Shard : \E i : x = <<s, i>>
  BY DEF Places
<1>5. OneOwner(c)
  BY DEF ScriptInv, CallOK
<1>6. CASE Owned(c)
  <2>1. PICK s \in Shard, i \in Nat : CallAt(s, i, c)
    BY <1>6 DEF Owned
  <2>2. Places(c) = {<<s, i>>}
    BY <1>3, <1>4, <1>5, <2>1 DEF OneOwner
  <2> QED
    BY <1>6, <2>2, FS_Singleton
<1>7. CASE ~Owned(c)
  <2>1. Places(c) = {}
    BY <1>3, <1>4, <1>7 DEF Owned
  <2> QED
    BY <1>7, <2>1, FS_EmptySet
<1> QED
  BY <1>6, <1>7

(* evalsha_reply_cb(), load_reply_cb(), on_reply(): an accepted call of    *)
(* v_db_evalsha() waits for exactly one command or was answered once, and  *)
(* a refused one is never answered, whatever breaks in between.            *)
THEOREM CallsAnsweredOnce == Spec => []AnsweredOnce
<1>1. ScriptInv => AnsweredOnce
  <2> SUFFICES ASSUME ScriptInv, NEW c \in Call
               PROVE  Len(call[c].answers) + Cardinality(Places(c)) =
                        IF call[c].ret = "OK" THEN 1 ELSE 0
    BY DEF AnsweredOnce
  <2>1. CallOK(c)
    BY DEF ScriptInv
  <2>2. Cardinality(Places(c)) = IF Owned(c) THEN 1 ELSE 0
    BY PlacesOfCall
  <2>3. PICK ans \in Seq(Result \cup {"fail"}) : ans = call[c].answers
    BY DEF ScriptInv, ScriptTypeOK, CallRecord
  <2>4. PICK n \in Nat : n = Len(ans) /\ (n = 0 <=> ans = << >>)
    BY EmptySeq
  <2>5. CASE Owned(c)
    <3>1. call[c].ret = "OK" /\ ans = << >>
      BY <2>1, <2>3, <2>5 DEF CallOK, OpenCalls
    <3>2. n = 0 /\ 0 + 1 = 1
      BY <2>4, <3>1
    <3> QED
      BY <2>2, <2>3, <2>4, <2>5, <3>1, <3>2
  <2>6. CASE ~Owned(c) /\ call[c].ret = "OK"
    <3>1. ans # << >> /\ n <= 1
      BY <2>1, <2>3, <2>4, <2>6 DEF CallOK, OpenCalls
    <3>2. n = 1 /\ 1 + 0 = 1
      BY <2>4, <3>1
    <3> QED
      BY <2>2, <2>3, <2>4, <2>6, <3>2
  <2>7. CASE ~Owned(c) /\ call[c].ret # "OK"
    <3>1. ans = << >>
      BY <2>1, <2>3, <2>7 DEF CallOK
    <3>2. n = 0 /\ 0 + 0 = 0
      BY <2>4, <3>1
    <3> QED
      BY <2>2, <2>3, <2>4, <2>7, <3>2
  <2> QED
    BY <2>5, <2>6, <2>7
<1> QED
  BY <1>1, ScriptInvariant, PTL

(* rte_mempool_put() in the callbacks: at every moment each of the three   *)
(* pools is missing exactly the objects of the calls and commands in       *)
(* flight.                                                                 *)
THEOREM PoolsWhole == Spec => []PoolsBaseline
<1>1. ScriptInv => PoolsBaseline
  <2> SUFFICES ASSUME ScriptInv PROVE PoolsBaseline
    OBVIOUS
  <2>1. {c \in Call : Places(c) # {}} = OpenCalls
    <3>1. \A c \in Call : Places(c) # {} <=> c \in OpenCalls
      BY PlacesOfCall DEF ScriptInv, CallOK
    <3>2. OpenCalls \subseteq Call
      BY DEF OpenCalls
    <3> QED
      BY <3>1, <3>2
  <2>2. /\ evalFree = EvalCap - Cardinality(OpenCalls)
        /\ loadFree = LoadCap - Cardinality(LoadsAt)
        /\ dbFree = PendingCap - Cardinality(AllAt)
    BY DEF ScriptInv, Counts
  <2> QED
    BY <2>1, <2>2 DEF PoolsBaseline, LoadsAt, AllAt
<1> QED
  BY <1>1, ScriptInvariant, PTL

(* evalsha_reply_cb(): a caller is told NOSCRIPT only when the shard lost  *)
(* its scripts more often than the one retry can make up for.              *)
THEOREM OneRetrySuffices == Spec => []RetrySuffices
<1>1. ScriptInv => RetrySuffices
  BY DEF ScriptInv, CallOK, RetrySuffices
<1> QED
  BY <1>1, ScriptInvariant, PTL

-----------------------------------------------------------------------------
(* The implementation of ScriptCalls, all but its fairness.                *)

(* The state of ScriptCalls.                                               *)
Acc == [c \in Call |-> call[c].ret]
Ans == [c \in Call |-> FirstAnswer(c)]
RanTimes == [c \in Call |-> call[c].ran]

(* Every step is one of ScriptCalls or leaves its state alone.             *)
CallsStep == [Calls!Next]_(Calls!vars)

(* v_db_script.c does nothing that ScriptCalls does not allow.             *)
FollowsCalls == Calls!Init /\ [][Calls!Next]_(Calls!vars)

(* The steps of ScriptCalls in terms of that state.                        *)
LEMMA AbstractSteps ==
  ASSUME NEW c \in Call
  PROVE  /\ Acc[c] = "none" /\ Acc' = [Acc EXCEPT ![c] = "ERR"] /\ Ans' = Ans /\ RanTimes' = RanTimes
              => CallsStep
         /\ Acc[c] = "none" /\ Acc' = [Acc EXCEPT ![c] = "OK"] /\ RanTimes' = RanTimes
            /\ Ans' \in {Ans, [Ans EXCEPT ![c] = "fail"]}
              => CallsStep
         /\ Acc[c] = "OK" /\ Ans[c] \in {"none", "fail"} /\ RanTimes[c] = 0 /\ Acc' = Acc
            /\ Ans' = Ans /\ RanTimes' = [RanTimes EXCEPT ![c] = 1]
              => CallsStep
<1>1. Acc[c] = "none" /\ Acc' = [Acc EXCEPT ![c] = "ERR"] /\ Ans' = Ans /\ RanTimes' = RanTimes
        => Calls!Refuse(c)
  BY DEF Acc, Ans, RanTimes, Calls!Refuse
<1>2. Acc[c] = "none" /\ Acc' = [Acc EXCEPT ![c] = "OK"] /\ RanTimes' = RanTimes
        /\ Ans' \in {Ans, [Ans EXCEPT ![c] = "fail"]}
        => Calls!Accept(c)
  BY DEF Acc, Ans, RanTimes, Calls!Accept
<1>3. Acc[c] = "OK" /\ Ans[c] \in {"none", "fail"} /\ RanTimes[c] = 0 /\ Acc' = Acc /\ Ans' = Ans
        /\ RanTimes' = [RanTimes EXCEPT ![c] = 1]
        => Calls!Run(c)
  BY DEF Acc, Ans, RanTimes, Calls!Run
<1>4. Calls!Refuse(c) \/ Calls!Accept(c) \/ Calls!Run(c) => CallsStep
  BY DEF CallsStep, Calls!Next
<1> QED
  BY <1>1, <1>2, <1>3, <1>4

(* Report(c) of ScriptCalls, in terms of that state.                       *)
LEMMA AbstractReport ==
  ASSUME NEW c \in Call, NEW a, Acc[c] = "OK", Ans[c] = "none", Acc' = Acc, RanTimes' = RanTimes,
         Ans' = [Ans EXCEPT ![c] = a],
         IF RanTimes[c] = 1 THEN a = "ok" ELSE a \in {"error", "noscript"}
  PROVE  CallsStep
<1>1. Calls!Report(c)
  BY DEF Acc, Ans, RanTimes, Calls!Report, Calls!Open
<1> QED
  BY <1>1 DEF CallsStep, Calls!Next

(* Fail(C) of ScriptCalls, in terms of that state.                         *)
LEMMA AbstractFail ==
  ASSUME NEW C \in SUBSET Call, \A c \in C : Acc[c] = "OK" /\ Ans[c] = "none",
         Acc' = Acc, RanTimes' = RanTimes,
         Ans' = [c \in Call |-> IF c \in C THEN "fail" ELSE Ans[c]]
  PROVE  CallsStep
<1>1. Calls!Fail(C)
  BY DEF Acc, Ans, RanTimes, Calls!Fail, Calls!Open
<1> QED
  BY <1>1 DEF CallsStep, Calls!Next

(* A step that leaves that state alone stutters.                           *)
LEMMA AbstractStutter ==
  ASSUME Acc' = Acc, Ans' = Ans, RanTimes' = RanTimes
  PROVE  CallsStep
BY DEF CallsStep, Calls!vars, Acc, Ans, RanTimes

(* One call changes.                                                       *)
LEMMA AbstractOne ==
  ASSUME NEW c \in Call, \A d \in Call : d # c => call'[d] = call[d]
  PROVE  /\ Acc' = [Acc EXCEPT ![c] = call'[c].ret]
         /\ Ans' = [Ans EXCEPT ![c] = FirstAnswer(c)']
         /\ RanTimes' = [RanTimes EXCEPT ![c] = call'[c].ran]
         /\ Acc[c] = call[c].ret /\ Ans[c] = FirstAnswer(c) /\ RanTimes[c] = call[c].ran
         /\ Acc = [Acc EXCEPT ![c] = Acc[c]] /\ Ans = [Ans EXCEPT ![c] = Ans[c]]
         /\ RanTimes = [RanTimes EXCEPT ![c] = RanTimes[c]]
<1>1. /\ Acc[c] = call[c].ret /\ Ans[c] = FirstAnswer(c) /\ RanTimes[c] = call[c].ran
      /\ Acc = [Acc EXCEPT ![c] = Acc[c]] /\ Ans = [Ans EXCEPT ![c] = Ans[c]]
      /\ RanTimes = [RanTimes EXCEPT ![c] = RanTimes[c]]
  BY DEF Acc, Ans, RanTimes
<1>2. \A d \in Call : d # c => FirstAnswer(d)' = FirstAnswer(d)
  BY DEF FirstAnswer
<1>3. Ans' = [Ans EXCEPT ![c] = FirstAnswer(c)']
  BY <1>2 DEF Ans
<1>4. Acc' = [Acc EXCEPT ![c] = call'[c].ret] /\ RanTimes' = [RanTimes EXCEPT ![c] = call'[c].ran]
  BY DEF Acc, RanTimes
<1> QED
  BY <1>1, <1>3, <1>4

(* What the abstract answer is.                                            *)
LEMMA AnswerIs ==
  ASSUME NEW c
  PROVE  /\ call[c].answers = << >> => FirstAnswer(c) = "none"
         /\ \A a : call[c].answers = <<a>> => FirstAnswer(c) = a
         /\ call'[c].answers = << >> => FirstAnswer(c)' = "none"
         /\ \A a : call'[c].answers = <<a>> => FirstAnswer(c)' = a
<1>1. \A a : <<a>> # << >> /\ Head(<<a>>) = a
  OBVIOUS
<1> QED
  BY <1>1 DEF FirstAnswer

(* v_db_evalsha() refuses or accepts.                                      *)
LEMMA EvalFollows ==
  ASSUME ScriptInv, NEW c \in Call, v_db_evalsha(c)
  PROVE  CallsStep
<1>1. PICK s \in Shard, k \in Script, fits \in BOOLEAN :
        EvalRefused(c, s, k, fits) \/ EvalIssued(c, s, k, fits)
  BY DEF v_db_evalsha
<1>2. call[c].ret = "none"
  BY DEF v_db_evalsha
<1>3. call[c].answers = << >> /\ call[c].ran = 0
  BY <1>2 DEF ScriptInv, CallOK
<1>4. FirstAnswer(c) = "none"
  BY <1>3, AnswerIs
<1>5. ASSUME NEW ret \in {"OK", "ERR"}, NEW answers \in Seq(Result \cup {"fail"}), NEW a,
             Called(c, s, k, ret, answers),
             (answers = << >> /\ a = "none") \/ (answers = <<a>> /\ a = "fail" /\ ret = "OK")
      PROVE  CallsStep
  <2>1. Made(c, s, k, ret, answers)
    BY <1>2, <1>5, CallMade
  <2>2. /\ Acc' = [Acc EXCEPT ![c] = call'[c].ret]
        /\ Ans' = [Ans EXCEPT ![c] = FirstAnswer(c)']
        /\ RanTimes' = [RanTimes EXCEPT ![c] = call'[c].ran]
        /\ Acc[c] = call[c].ret /\ Ans[c] = FirstAnswer(c) /\ RanTimes[c] = call[c].ran
        /\ Ans = [Ans EXCEPT ![c] = Ans[c]]
        /\ RanTimes = [RanTimes EXCEPT ![c] = RanTimes[c]]
    BY <2>1, AbstractOne DEF Made
  <2>3. call'[c].ret = ret /\ call'[c].answers = answers /\ call'[c].ran = 0
    BY <2>1 DEF Made
  <2>4. FirstAnswer(c)' = a
    BY <1>5, <2>3, AnswerIs
  <2>5. /\ Acc[c] = "none" /\ Acc' = [Acc EXCEPT ![c] = ret] /\ RanTimes' = RanTimes
        /\ Ans' = [Ans EXCEPT ![c] = a] /\ (a = "none" => Ans' = Ans)
    BY <1>2, <1>3, <1>4, <2>2, <2>3, <2>4
  <2>6. CASE ret = "ERR"
    <3>1. a = "none"
      BY <1>5, <2>6
    <3> QED
      BY <2>5, <2>6, <3>1, AbstractSteps
  <2>7. CASE ret = "OK"
    <3>1. Ans' \in {Ans, [Ans EXCEPT ![c] = "fail"]}
      BY <1>5, <2>5
    <3> QED
      BY <2>5, <2>7, <3>1, AbstractSteps
  <2> QED
    BY <2>6, <2>7
<1>6. << >> \in Seq(Result \cup {"fail"}) /\ <<"fail">> \in Seq(Result \cup {"fail"})
  <2>1. Done("OK", <<"fail">>) /\ Done("ERR", << >>)
    BY DEF Done
  <2> QED
    BY <2>1, DoneFacts
<1>7. CASE EvalRefused(c, s, k, fits)
  <2>1. Called(c, s, k, "ERR", << >>)
    BY <1>7 DEF EvalRefused
  <2>2. PICK ret \in {"OK", "ERR"}, answers \in Seq(Result \cup {"fail"}), a \in {"none", "fail"} :
          ret = "ERR" /\ answers = << >> /\ a = "none"
    BY <1>6
  <2> QED
    BY <1>5, <2>1, <2>2
<1>8. CASE Called(c, s, k, "OK", << >>)
  <2>1. PICK ret \in {"OK", "ERR"}, answers \in Seq(Result \cup {"fail"}), a \in {"none", "fail"} :
          ret = "OK" /\ answers = << >> /\ a = "none"
    BY <1>6
  <2> QED
    BY <1>5, <1>8, <2>1
<1>9. CASE Called(c, s, k, "OK", <<"fail">>)
  <2>1. PICK ret \in {"OK", "ERR"}, answers \in Seq(Result \cup {"fail"}), a \in {"none", "fail"} :
          ret = "OK" /\ answers = <<"fail">> /\ a = "fail"
    BY <1>6
  <2> QED
    BY <1>5, <1>9, <2>1
<1>10. CASE EvalIssued(c, s, k, fits)
  BY <1>8, <1>9, <1>10 DEF EvalIssued
<1> QED
  BY <1>1, <1>7, <1>10

(* A callback that answers reports what Redis said, or fails.              *)
LEMMA AnswerFollows ==
  ASSUME ScriptInv, NEW s \in Shard, NEW r, Heard(s, r), NEW c \in Call, c = r.cmd.call,
         NEW cc, Becomes(c, cc), NEW a, cc.answers = <<a>>,
         a = "fail" \/ (IF call[c].ran = 1 THEN a = "ok" ELSE a \in {"error", "noscript"})
  PROVE  CallsStep
<1>1. call'[c] = cc /\ \A d \in Call : d # c => call'[d] = call[d]
  BY Became
<1>2. cc.ret = "OK" /\ cc.ran = call[c].ran
  BY DEF Becomes
<1>3. call[c].ret = "OK" /\ call[c].answers = << >>
  BY DEF Heard
<1>4. FirstAnswer(c) = "none" /\ FirstAnswer(c)' = a
  BY <1>1, <1>3, AnswerIs
<1>5. /\ Acc' = [Acc EXCEPT ![c] = call'[c].ret]
      /\ Ans' = [Ans EXCEPT ![c] = FirstAnswer(c)']
      /\ RanTimes' = [RanTimes EXCEPT ![c] = call'[c].ran]
      /\ Acc[c] = call[c].ret /\ Ans[c] = FirstAnswer(c) /\ RanTimes[c] = call[c].ran
      /\ Acc = [Acc EXCEPT ![c] = Acc[c]]
      /\ RanTimes = [RanTimes EXCEPT ![c] = RanTimes[c]]
  BY <1>1, AbstractOne
<1>6. /\ Acc[c] = "OK" /\ Ans[c] = "none" /\ Acc' = Acc /\ RanTimes' = RanTimes
      /\ Ans' = [Ans EXCEPT ![c] = a] /\ RanTimes[c] = call[c].ran
  BY <1>1, <1>2, <1>3, <1>4, <1>5
<1>7. CASE a = "fail"
  <2>1. PICK C \in SUBSET Call : C = {c}
    OBVIOUS
  <2>2. Ans' = [d \in Call |-> IF d \in C THEN "fail" ELSE Ans[d]]
    <3>1. Ans = [d \in Call |-> Ans[d]]
      BY DEF Ans
    <3> QED
      BY <1>6, <1>7, <2>1, <3>1
  <2> QED
    BY <1>6, <2>1, <2>2, AbstractFail
<1>8. CASE IF call[c].ran = 1 THEN a = "ok" ELSE a \in {"error", "noscript"}
  BY <1>6, <1>8, AbstractReport
<1> QED
  BY <1>7, <1>8

(* A callback that does not answer leaves the abstract state alone.        *)
LEMMA ResendFollows ==
  ASSUME ScriptInv, NEW s \in Shard, NEW r, Heard(s, r), NEW c \in Call, c = r.cmd.call,
         NEW cc, Becomes(c, cc), cc.answers = << >>
  PROVE  CallsStep
<1>1. call'[c] = cc /\ \A d \in Call : d # c => call'[d] = call[d]
  BY Became
<1>2. cc.ret = "OK" /\ cc.ran = call[c].ran
  BY DEF Becomes
<1>3. call[c].ret = "OK" /\ call[c].answers = << >>
  BY DEF Heard
<1>4. FirstAnswer(c) = "none" /\ FirstAnswer(c)' = "none"
  BY <1>1, <1>3, AnswerIs
<1>5. /\ Acc' = [Acc EXCEPT ![c] = call'[c].ret]
      /\ Ans' = [Ans EXCEPT ![c] = FirstAnswer(c)']
      /\ RanTimes' = [RanTimes EXCEPT ![c] = call'[c].ran]
      /\ Acc[c] = call[c].ret /\ Ans[c] = FirstAnswer(c) /\ RanTimes[c] = call[c].ran
      /\ Acc = [Acc EXCEPT ![c] = Acc[c]] /\ Ans = [Ans EXCEPT ![c] = Ans[c]]
      /\ RanTimes = [RanTimes EXCEPT ![c] = RanTimes[c]]
  BY <1>1, AbstractOne
<1>6. Acc' = Acc /\ RanTimes' = RanTimes /\ Ans' = Ans
  BY <1>1, <1>2, <1>3, <1>4, <1>5
<1> QED
  BY <1>6, AbstractStutter

(* The calls are as they were.                                             *)
LEMMA SameFollows ==
  ASSUME UNCHANGED call
  PROVE  CallsStep
<1>1. Acc' = Acc /\ Ans' = Ans /\ RanTimes' = RanTimes
  BY DEF Acc, Ans, RanTimes, FirstAnswer
<1> QED
  BY <1>1, AbstractStutter

(* The answer "fail" follows ScriptCalls whatever Redis did.               *)
LEMMA FailFollows ==
  ASSUME ScriptInv, NEW s \in Shard, NEW r, Heard(s, r), NEW c \in Call, c = r.cmd.call,
         call' = Told(c, "fail")
  PROVE  CallsStep
<1>1. PICK a \in Result \cup {"fail"} : a = "fail"
  OBVIOUS
<1>2. PICK was \in BOOLEAN : was = call[c].retried
  <2>1. call[c] \in CallRecord
    BY DEF ScriptInv, ScriptTypeOK
  <2> QED
    BY <2>1 DEF CallRecord
<1>3. was => call[c].spared <= flushes[call[c].shard]
  BY <1>2 DEF ScriptInv, CallOK
<1>4. PICK cc : cc.answers = <<a>> /\ Becomes(c, cc)
  <2>1. (was <=> call[c].retried) /\ call' = Told(c, a)
    BY <1>1, <1>2
  <2> QED
    BY <1>3, <2>1, ToldBecomes
<1> QED
  BY <1>1, <1>4, AnswerFollows

(* evalsha_reply_cb() reports what Redis answered, fails or tries again.   *)
LEMMA EvalReplyFollows ==
  ASSUME ScriptInv, NEW s \in Shard, NEW r, Heard(s, r), r.cmd.op = "EVALSHA",
         evalsha_reply_cb(s, r.cmd.call, r.result)
  PROVE  CallsStep
<1>1. PICK c \in Call : c = r.cmd.call
  BY DEF Heard, CommandOK
<1>2. /\ call[c].shard = s /\ call[c].ran = IF r.result = "ok" THEN 1 ELSE 0
      /\ r.result = "noscript" => Explained(s, c)
      /\ r.result \in Result
  BY <1>1 DEF Heard, CommandOK, ReplyOK, Reply
<1>3. call[c].spared \in Nat /\ flushes[s] \in Nat /\ call[c].retried \in BOOLEAN
  <2>1. call[c] \in CallRecord /\ flushes[s] \in 0 .. MaxFlush
    BY DEF ScriptInv, ScriptTypeOK
  <2> QED
    BY <2>1 DEF CallRecord
<1>4. Retries(c, r.result) => call[c].spared <= flushes[call[c].shard]
  BY <1>2, <1>3 DEF Explained, Retries
<1>5. CASE Retries(c, r.result) /\ call' = [call EXCEPT ![c].retried = TRUE]
  <2>1. \E cc : RetriedAs(c, cc)
    BY <1>1, <1>4, <1>5, RetryBecomes
  <2>2. PICK cc : Becomes(c, cc) /\ cc.answers = << >>
    BY <2>1 DEF RetriedAs
  <2> QED
    BY <1>1, <2>2, ResendFollows
<1>6. CASE Retries(c, r.result) /\ call' = [Told(c, "fail") EXCEPT ![c].retried = TRUE]
  <2>1. PICK a \in Result \cup {"fail"} : a = "fail"
    OBVIOUS
  <2>2. call[c].spared <= flushes[call[c].shard] /\ TRUE \in BOOLEAN
    BY <1>4, <1>6
  <2>3. PICK cc : cc.answers = <<a>> /\ Becomes(c, cc)
    BY <1>1, <1>6, <2>1, <2>2, ToldBecomes
  <2> QED
    BY <1>1, <2>1, <2>3, AnswerFollows
<1>7. CASE ~Retries(c, r.result) /\ call' = Told(c, r.result)
  <2>1. PICK a \in Result \cup {"fail"} : a = r.result
    BY <1>2
  <2>2. PICK was \in BOOLEAN : was = call[c].retried
    BY <1>3
  <2>3. was => call[c].spared <= flushes[call[c].shard]
    BY <2>2 DEF ScriptInv, CallOK
  <2>4. PICK cc : cc.answers = <<a>> /\ Becomes(c, cc)
    <3>1. (was <=> call[c].retried) /\ call' = Told(c, a)
      BY <1>7, <2>1, <2>2
    <3> QED
      BY <1>1, <2>3, <3>1, ToldBecomes
  <2>5. IF call[c].ran = 1 THEN a = "ok" ELSE a \in {"error", "noscript"}
    BY <1>2, <2>1 DEF Result
  <2> QED
    BY <1>1, <2>4, <2>5, AnswerFollows
<1> QED
  BY <1>1, <1>5, <1>6, <1>7 DEF evalsha_reply_cb

(* load_reply_cb() fails its call or leaves it as it was.                  *)
LEMMA LoadReplyFollows ==
  ASSUME ScriptInv, NEW s \in Shard, NEW r, Heard(s, r),
         LoadOk(s, r.cmd.script, r.cmd.call) \/ LoadFailed(r.cmd.call)
  PROVE  CallsStep
<1>1. r.cmd.call \in Call \/ r.cmd.call = NoCall
  BY DEF Heard, Command
<1>2. UNCHANGED call \/ (r.cmd.call # NoCall /\ call' = Told(r.cmd.call, "fail"))
  BY DEF LoadOk, LoadFailed
<1>3. CASE UNCHANGED call
  BY <1>3, SameFollows
<1>4. CASE r.cmd.call # NoCall /\ call' = Told(r.cmd.call, "fail")
  <2>1. PICK c \in Call : c = r.cmd.call
    BY <1>1, <1>4
  <2> QED
    BY <1>4, <2>1, FailFollows
<1> QED
  BY <1>2, <1>3, <1>4

(* on_reply() follows ScriptCalls.                                         *)
LEMMA ReplyFollows ==
  ASSUME ScriptInv, NEW s \in Shard, on_reply(s)
  PROVE  CallsStep
<1>1. PICK r : r = Head(replies[s])
  OBVIOUS
<1>2. /\ replies[s] # << >>
      /\ \/ r.cmd.op = "EVALSHA" /\ evalsha_reply_cb(s, r.cmd.call, r.result)
         \/ LoadOk(s, r.cmd.script, r.cmd.call)
         \/ LoadFailed(r.cmd.call)
  BY <1>1 DEF on_reply
<1>3. Heard(s, r)
  BY <1>1, <1>2, HeardFacts
<1> QED
  BY <1>2, <1>3, EvalReplyFollows, LoadReplyFollows

(* A lost connection fails the open calls it carried, and no other.        *)
LEMMA TeardownFollows ==
  ASSUME ScriptInv, NEW s \in Shard, Teardown(s)
  PROVE  CallsStep
<1>1. PICK n \in Nat : n = Len(Outstanding(s))
  BY OutstandingIs DEF ScriptInv
<1>2. Due(s) \subseteq OpenCalls
  BY <1>1, DueCalls
<1>3. PICK C \in SUBSET Call : C = Due(s)
  BY <1>2 DEF OpenCalls
<1>4. ASSUME NEW c \in Call, c \in C
      PROVE  /\ Acc[c] = "OK" /\ Ans[c] = "none"
             /\ call'[c].ret = call[c].ret /\ call'[c].ran = call[c].ran /\ FirstAnswer(c)' = "fail"
  <2>1. c \in OpenCalls /\ c \in Due(s)
    BY <1>2, <1>3, <1>4
  <2>2. call[c].ret = "OK" /\ call[c].answers = << >>
    BY <2>1 DEF OpenCalls
  <2>3. call'[c].answers = <<"fail">> /\ call'[c].ret = call[c].ret /\ call'[c].ran = call[c].ran
    BY <2>1, DueTold
  <2>4. FirstAnswer(c) = "none" /\ FirstAnswer(c)' = "fail"
    BY <2>2, <2>3, AnswerIs
  <2> QED
    BY <2>2, <2>3, <2>4 DEF Acc, Ans
<1>5. ASSUME NEW c \in Call, c \notin C
      PROVE  call'[c] = call[c] /\ FirstAnswer(c)' = FirstAnswer(c)
  <2>1. call'[c] = call[c]
    BY <1>3, <1>5 DEF Teardown
  <2> QED
    BY <2>1 DEF FirstAnswer
<1>6. Acc' = Acc /\ RanTimes' = RanTimes
  <2>1. \A c \in Call : call'[c].ret = call[c].ret /\ call'[c].ran = call[c].ran
    BY <1>4, <1>5
  <2> QED
    BY <2>1 DEF Acc, RanTimes
<1>7. Ans' = [c \in Call |-> IF c \in C THEN "fail" ELSE Ans[c]]
  <2>1. \A c \in Call : FirstAnswer(c)' = IF c \in C THEN "fail" ELSE FirstAnswer(c)
    BY <1>4, <1>5
  <2>2. \A c \in Call : Ans[c] = FirstAnswer(c)
    BY DEF Ans
  <2>3. Ans' = [c \in Call |-> FirstAnswer(c)']
    BY DEF Ans
  <2> QED
    BY <2>1, <2>2, <2>3
<1>8. \A c \in C : Acc[c] = "OK" /\ Ans[c] = "none"
  BY <1>4
<1> QED
  BY <1>6, <1>7, <1>8, AbstractFail

(* Redis runs the script of a call that has not run, and that was not      *)
(* answered or was told of a failure.                                      *)
LEMMA RunFollows ==
  ASSUME NEW c \in Call, NEW n, n = 1, Runs(c, n), call[c].ret = "OK", call[c].ran = 0,
         NEW a \in {"none", "fail"}, FirstAnswer(c) = a, FirstAnswer(c)' = a
  PROVE  CallsStep
<1>1. /\ \A d \in Call : d # c => call'[d] = call[d]
      /\ call'[c].ret = call[c].ret /\ call'[c].ran = 1
  BY DEF Runs
<1>2. /\ Acc' = [Acc EXCEPT ![c] = call'[c].ret]
      /\ Ans' = [Ans EXCEPT ![c] = FirstAnswer(c)']
      /\ RanTimes' = [RanTimes EXCEPT ![c] = call'[c].ran]
      /\ Acc[c] = call[c].ret /\ Ans[c] = FirstAnswer(c) /\ RanTimes[c] = call[c].ran
      /\ Acc = [Acc EXCEPT ![c] = Acc[c]] /\ Ans = [Ans EXCEPT ![c] = Ans[c]]
  BY <1>1, AbstractOne
<1>3. /\ Acc[c] = "OK" /\ Ans[c] = a /\ RanTimes[c] = 0 /\ Acc' = Acc /\ Ans' = Ans
      /\ RanTimes' = [RanTimes EXCEPT ![c] = 1]
  BY <1>1, <1>2
<1> QED
  BY <1>3, AbstractSteps

(* The script of an open call runs on its connection, or none does.        *)
LEMMA ExecFollows ==
  ASSUME ScriptInv, NEW s \in Shard, RedisExec(s)
  PROVE  CallsStep
<1>1. PICK cmd, result : Ran(s, cmd, result)
  BY DEF RedisExec, Ran
<1>2. /\ Len(replies[s]) + 1 \in Nat /\ CallAt(s, Len(replies[s]) + 1, cmd.call)
      /\ SentOK(s, cmd) /\ CommandOK(s, cmd)
  BY <1>1, RunFacts
<1>3. CASE ~(cmd.op = "EVALSHA" /\ result = "ok")
  <2>1. UNCHANGED call
    BY <1>1, <1>3 DEF Ran
  <2> QED
    BY <2>1, SameFollows
<1>4. CASE cmd.op = "EVALSHA" /\ result = "ok"
  <2>1. PICK c \in Call, i \in Nat : c = cmd.call /\ CallAt(s, i, c)
    BY <1>2, <1>4 DEF CommandOK
  <2>2. call[c].ret = "OK" /\ call[c].answers = << >>
    BY <2>1, OwnedCall
  <2>3. call[c].ran = 0
    BY <1>2, <2>1 DEF SentOK
  <2>4. PICK n \in Nat, a \in {"none", "fail"} : n = 1 /\ a = "none"
    OBVIOUS
  <2>5. Runs(c, n)
    <3>1. call' = [call EXCEPT ![c].ran = @ + 1]
      BY <1>1, <1>4, <2>1 DEF Ran
    <3> QED
      BY <2>3, <2>4, <3>1, RunsOne DEF ScriptInv
  <2>6. call'[c].answers = << >>
    BY <2>2, <2>5 DEF Runs
  <2>7. FirstAnswer(c) = a /\ FirstAnswer(c)' = a
    BY <2>2, <2>4, <2>6, AnswerIs
  <2> QED
    BY <2>2, <2>3, <2>4, <2>5, <2>7, RunFollows
<1> QED
  BY <1>3, <1>4

(* The script of a call that was told of a failure runs late, or a script  *)
(* is loaded late.                                                         *)
LEMMA LateFollows ==
  ASSUME ScriptInv, LateInv, NEW s \in Shard, NEW cmd, LateExec(s, cmd)
  PROVE  CallsStep
<1>1. PICK d, n :
        /\ Runs(d, n) /\ (d \notin Call => call' = call)
        /\ d \in Call => call[d].ret = "OK" /\ call[d].answers = <<"fail">> /\ call[d].ran = 0 /\ n = 1
  BY LateFacts
<1>2. CASE d \notin Call
  BY <1>1, <1>2, SameFollows
<1>3. CASE d \in Call
  <2>1. call'[d].answers = <<"fail">>
    BY <1>1, <1>3 DEF Runs
  <2>2. PICK a \in {"none", "fail"} : a = "fail"
    OBVIOUS
  <2>3. FirstAnswer(d) = a /\ FirstAnswer(d)' = a
    BY <1>1, <1>3, <2>1, <2>2, AnswerIs
  <2> QED
    BY <1>1, <1>3, <2>3, RunFollows
<1> QED
  BY <1>2, <1>3

(* Every step of v_db_script.c is one that ScriptCalls allows.             *)
LEMMA NextFollows ==
  ASSUME ScriptInv, LateInv, [Next]_vars
  PROVE  CallsStep
<1>1. CASE UNCHANGED vars
  BY <1>1, SameFollows DEF vars
<1>2. CASE \E c \in Call : v_db_evalsha(c)
  BY <1>2, EvalFollows
<1>3. CASE \E s \in Shard : on_reply(s)
  BY <1>3, ReplyFollows
<1>4. CASE \E s \in Shard : Connected(s) \/ RedisForgets(s)
  BY <1>4, SameFollows DEF Connected, RedisForgets
<1>5. CASE \E s \in Shard : Teardown(s)
  BY <1>5, TeardownFollows
<1>6. CASE \E s \in Shard : RedisExec(s)
  BY <1>6, ExecFollows
<1>7. CASE \E s \in Shard : \E cmd \in late[s] : LateExec(s, cmd)
  BY <1>7, LateFollows
<1> QED
  BY <1>1, <1>2, <1>3, <1>4, <1>5, <1>6, <1>7
    DEF Next, connect_cb, ConnectFailed, disconnect_cb, v_stub_db_test_force_reconnect

(* v_db_script.c does nothing that ScriptCalls does not allow: whatever    *)
(* retries, lost connections and what Redis still runs of them do, a call  *)
(* is answered at most once, its script runs at most once, and an answer   *)
(* that is Redis's own says whether it ran.  This is the safety part of    *)
(* ImplementsCalls.                                                        *)
THEOREM ScriptFollowsCalls == Spec => FollowsCalls
<1>1. Init => Calls!Init
  <2> SUFFICES ASSUME Init PROVE Calls!Init
    OBVIOUS
  <2>1. PICK s0 \in Shard :
          call = [c \in Call |->
                    [shard |-> s0, script |-> 0, retried |-> FALSE, ret |-> "none",
                     answers |-> << >>, ran |-> 0, spared |-> 0]]
    BY DEF Init
  <2>2. \A c \in Call : call[c].ret = "none" /\ call[c].answers = << >> /\ call[c].ran = 0
    BY <2>1
  <2>3. \A c \in Call : FirstAnswer(c) = "none"
    BY <2>2 DEF FirstAnswer
  <2> QED
    BY <2>2, <2>3 DEF Calls!Init
<1>2. ScriptInv /\ LateInv /\ [Next]_vars => [Calls!Next]_(Calls!vars)
  BY NextFollows DEF CallsStep
<1> QED
  BY <1>1, <1>2, ScriptInvariant, PTL DEF Spec, FollowsCalls
=============================================================================
