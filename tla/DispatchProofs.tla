--------------------------- MODULE DispatchProofs ---------------------------
(***************************************************************************)
(* Proofs about Dispatch for any number of workers, any ring and pool      *)
(* sizes and any number of datagrams: no message object is lost or put     *)
(* back twice, no datagram is handled twice, and the slot table never      *)
(* points to a transaction that is over.                                   *)
(*                                                                         *)
(* Every datagram is in one place: not yet arrived, in a ring, in the      *)
(* hands of an lcore, waiting for Redis, or over (InOnePlace).  One lcore  *)
(* moves in a step, and it moves one datagram at most: StepKeeps gathers   *)
(* what such a step has to show, Relocated that no other datagram changes  *)
(* place, and BaselineKept that the counts stay in balance.                *)
(***************************************************************************)
EXTENDS Dispatch, FiniteSetTheorems, WellFoundedInduction, TLAPS

(* Datagram m is in a ring, which holds none twice.                        *)
In(ring, m) == \E i \in 1 .. Len(ring) : ring[i] = m
Distinct(ring) == \A i, j \in 1 .. Len(ring) : ring[i] = ring[j] => i = j

(* Lcore l has datagram m in its hands.  While finish() destroys the       *)
(* transaction, its reply has already gone on.                             *)
Holds(l, m) == lcore[l].msg = m /\ lcore[l].at # "destroy"

(* A datagram that has arrived is in exactly one place.                    *)
InOnePlace(m) ==
  /\ m <= arrived <=> \/ In(rx, m) \/ In(tx, m) \/ m \in live \/ m \in ended
                      \/ \E l \in Lcore : Holds(l, m)
  /\ In(rx, m) => ~In(tx, m) /\ m \notin live /\ m \notin ended
  /\ In(tx, m) => m \notin live /\ m \notin ended
  /\ m \in live => m \notin ended
  /\ \A l \in Lcore : Holds(l, m) =>
       /\ ~In(rx, m) /\ ~In(tx, m) /\ m \notin live /\ m \notin ended
       /\ \A k \in Lcore : Holds(k, m) => k = l

WorkerAt == {"idle", "handle", "claim", "start", "tx", "txput", "release"}
IoAt == {"idle", "rxput", "tx", "txput", "destroy", "send"}

(* What lcore l does, and whether it has a datagram.                       *)
LcoreOK(l) ==
  /\ lcore[l].at \in IF l = Io THEN IoAt ELSE WorkerAt
  /\ lcore[l].at = "idle" => lcore[l] = Idle
  /\ lcore[l].msg = 0 <=> lcore[l].at \in {"idle", "release"}

(* A transaction is destroyed after its reply was queued or given up.      *)
DestroyedIsOver ==
  lcore[Io].at = "destroy" => In(tx, lcore[Io].msg) \/ lcore[Io].msg \in ended

(* The inductive invariant: the lcores, rings, pools and the slot table    *)
(* agree on where every datagram and every object is.                      *)
DispatchInv ==
  /\ DispatchTypeOK /\ MessagesBaseline /\ NoDanglingTransaction
  /\ \A l \in Lcore : LcoreOK(l)
  /\ Distinct(rx) /\ Distinct(tx)
  /\ \A m \in Datagram : InOnePlace(m)
  /\ DestroyedIsOver

-----------------------------------------------------------------------------
(* Facts about the constants, the rings and the counts.                    *)

(* Datagrams and lcores are finitely many.                                 *)
LEMMA Finite ==
  /\ IsFiniteSet(Lcore) /\ IsFiniteSet(Worker) /\ IsFiniteSet(Datagram)
  /\ RingSize \in Nat /\ RingSize # 0 /\ PfcpCap \in Nat /\ TxnCap \in Nat /\ MaxRx \in Nat
  /\ Io \in Lcore /\ Io \notin Worker /\ Worker \subseteq Lcore
  /\ \A l \in Lcore : l # Io => l \in Worker
  /\ Datagram \subseteq Nat /\ 0 \notin Datagram
<1>1. IsFiniteSet(Worker \cup {Io})
  BY DispatchAssumption, FS_AddElement
<1>2. IsFiniteSet(1 .. MaxRx)
  BY DispatchAssumption, FS_Interval
<1> QED
  BY <1>1, <1>2, DispatchAssumption DEF Lcore, Datagram

(* rte_ring_enqueue(): the datagram is in the ring, the others stay.       *)
LEMMA RingAppend ==
  ASSUME NEW q \in Seq(Datagram), NEW d \in Datagram, Distinct(q), ~In(q, d)
  PROVE  /\ Append(q, d) \in Seq(Datagram) /\ Len(Append(q, d)) = Len(q) + 1
         /\ Distinct(Append(q, d))
         /\ \A m : In(Append(q, d), m) <=> In(q, m) \/ m = d
<1> DEFINE n == Len(q)
           r == Append(q, d)
<1>1. /\ r \in Seq(Datagram) /\ Len(r) = n + 1 /\ n \in Nat /\ r[n + 1] = d
      /\ \A i \in 1 .. n : r[i] = q[i]
  OBVIOUS
<1> HIDE DEF n, r
<1>2. \A i \in 1 .. n + 1 : i \in 1 .. n \/ i = n + 1
  BY <1>1
<1>3. Distinct(r)
  BY <1>1, <1>2 DEF Distinct, In, n
<1>4. \A m : In(r, m) <=> In(q, m) \/ m = d
  BY <1>1, <1>2 DEF In, n
<1> QED
  BY <1>1, <1>3, <1>4 DEF n, r

(* rte_ring_dequeue(): the first one leaves, the others stay.              *)
LEMMA RingTail ==
  ASSUME NEW q \in Seq(Datagram), q # << >>, Distinct(q)
  PROVE  /\ Tail(q) \in Seq(Datagram) /\ Len(Tail(q)) = Len(q) - 1 /\ Len(q) # 0
         /\ Head(q) \in Datagram /\ In(q, Head(q))
         /\ Distinct(Tail(q))
         /\ \A m : In(Tail(q), m) <=> In(q, m) /\ m # Head(q)
<1> DEFINE n == Len(q)
           r == Tail(q)
<1>1. /\ r \in Seq(Datagram) /\ Len(r) = n - 1 /\ n \in Nat /\ n # 0
      /\ Head(q) = q[1] /\ Head(q) \in Datagram
      /\ \A i \in 1 .. n - 1 : r[i] = q[i + 1]
  OBVIOUS
<1> HIDE DEF n, r
<1>2. In(q, Head(q))
  BY <1>1 DEF In, n
<1>3. \A i \in 1 .. n - 1 : i + 1 \in 1 .. n /\ i + 1 # 1
  BY <1>1
<1>4. \A i, j \in 1 .. n - 1 : i + 1 = j + 1 => i = j
  BY <1>1
<1>5. Distinct(r)
  BY <1>1, <1>3, <1>4 DEF Distinct, n
<1>6. ASSUME NEW m, In(r, m) PROVE In(q, m) /\ m # Head(q)
  <2>1. PICK i \in 1 .. n - 1 : r[i] = m
    BY <1>1, <1>6 DEF In
  <2>2. q[i + 1] = m /\ i + 1 \in 1 .. n /\ i + 1 # 1 /\ 1 \in 1 .. n
    BY <1>1, <1>3, <2>1
  <2> QED
    BY <1>1, <2>2 DEF In, Distinct, n
<1>7. ASSUME NEW m, In(q, m), m # Head(q) PROVE In(r, m)
  <2>1. PICK j \in 1 .. n : q[j] = m
    BY <1>7 DEF In, n
  <2>2. j - 1 \in 1 .. n - 1 /\ r[j - 1] = q[(j - 1) + 1] /\ (j - 1) + 1 = j
    BY <1>1, <1>7, <2>1
  <2> QED
    BY <1>1, <2>1, <2>2 DEF In
<1> QED
  BY <1>1, <1>2, <1>5, <1>6, <1>7 DEF n, r

(* An lcore moves on, the others stay.                                     *)
LEMMA LcoreAfter ==
  ASSUME DispatchTypeOK, NEW l \in Lcore, NEW to, Moves(l, to)
  PROVE  lcore'[l] = to /\ \A k \in Lcore : k # l => lcore'[k] = lcore[k]
BY DEF DispatchTypeOK, Moves

(* What a condition adds to a count.                                       *)
Ind(b) == IF b THEN 1 ELSE 0

(* How many lcores are in one of some steps, after one of them moved on.   *)
LEMMA DoingAfter ==
  ASSUME DispatchTypeOK, NEW l \in Lcore, NEW to, Moves(l, to), NEW steps
  PROVE  /\ Cardinality(Doing(steps)) \in Nat /\ Cardinality(Doing(steps)') \in Nat
         /\ Cardinality(Doing(steps)')
              = Cardinality(Doing(steps)) + Ind(to.at \in steps) - Ind(lcore[l].at \in steps)
<1> DEFINE S == Doing(steps)
           T == {k \in Lcore : lcore'[k].at \in steps}
<1>1. Doing(steps)' = T
  BY DEF Doing
<1>2. IsFiniteSet(S) /\ IsFiniteSet(T)
  BY Finite, FS_Subset DEF Doing
<1>3. Cardinality(S) \in Nat /\ Cardinality(T) \in Nat
  BY <1>2, FS_CardinalityType
<1>4. /\ to.at \in steps => T = S \cup {l}
      /\ to.at \notin steps => T = S \ {l}
      /\ l \in S <=> lcore[l].at \in steps
  BY LcoreAfter DEF Doing
<1>5. /\ Cardinality(S \cup {l}) = IF l \in S THEN Cardinality(S) ELSE Cardinality(S) + 1
      /\ Cardinality(S \ {l}) = IF l \in S THEN Cardinality(S) - 1 ELSE Cardinality(S)
  BY <1>2, FS_AddElement, FS_RemoveElement
<1> HIDE DEF S, T
<1>6. Cardinality(T) = Cardinality(S) + Ind(to.at \in steps) - Ind(lcore[l].at \in steps)
  <2>1. CASE to.at \in steps
    <3>1. Cardinality(T) = IF l \in S THEN Cardinality(S) ELSE Cardinality(S) + 1
      BY <1>4, <1>5, <2>1
    <3> QED
      BY <1>3, <1>4, <2>1, <3>1 DEF Ind
  <2>2. CASE to.at \notin steps
    <3>1. Cardinality(T) = IF l \in S THEN Cardinality(S) - 1 ELSE Cardinality(S)
      BY <1>4, <1>5, <2>2
    <3> QED
      BY <1>3, <1>4, <2>2, <3>1 DEF Ind
  <2> QED
    BY <2>1, <2>2
<1> QED
  BY <1>1, <1>3, <1>6 DEF S

(* How many workers have a datagram's message object.                      *)
Busy == {w \in Worker : lcore[w] # Idle}

(* How many workers are busy after a move of one lcore.                    *)
LEMMA BusyAfter ==
  ASSUME DispatchTypeOK, NEW l \in Lcore, NEW to, Moves(l, to)
  PROVE  /\ Cardinality(Busy) \in Nat /\ Cardinality(Busy') \in Nat
         /\ Cardinality(Busy) <= Cardinality(Worker)
         /\ l = Io => Cardinality(Busy') = Cardinality(Busy)
         /\ l # Io => Cardinality(Busy')
                        = Cardinality(Busy) + Ind(to # Idle) - Ind(lcore[l] # Idle)
<1> DEFINE S == Busy
           T == {w \in Worker : lcore'[w] # Idle}
<1>1. Busy' = T
  BY DEF Busy
<1>2. IsFiniteSet(S) /\ IsFiniteSet(T) /\ Cardinality(S) <= Cardinality(Worker)
  BY Finite, FS_Subset DEF Busy
<1>3. Cardinality(S) \in Nat /\ Cardinality(T) \in Nat
  BY <1>2, FS_CardinalityType
<1>4. /\ l = Io => T = S
      /\ l # Io /\ to # Idle => T = S \cup {l}
      /\ l # Io /\ to = Idle => T = S \ {l}
      /\ l # Io => (l \in S <=> lcore[l] # Idle)
  BY LcoreAfter, Finite DEF Busy
<1>5. /\ Cardinality(S \cup {l}) = IF l \in S THEN Cardinality(S) ELSE Cardinality(S) + 1
      /\ Cardinality(S \ {l}) = IF l \in S THEN Cardinality(S) - 1 ELSE Cardinality(S)
  BY <1>2, FS_AddElement, FS_RemoveElement
<1> HIDE DEF S, T
<1>6. l # Io => Cardinality(T) = Cardinality(S) + Ind(to # Idle) - Ind(lcore[l] # Idle)
  <2>1. CASE l # Io /\ to # Idle
    <3>1. Cardinality(T) = IF l \in S THEN Cardinality(S) ELSE Cardinality(S) + 1
      BY <1>4, <1>5, <2>1
    <3> QED
      BY <1>3, <1>4, <2>1, <3>1 DEF Ind
  <2>2. CASE l # Io /\ to = Idle
    <3>1. Cardinality(T) = IF l \in S THEN Cardinality(S) - 1 ELSE Cardinality(S)
      BY <1>4, <1>5, <2>2
    <3> QED
      BY <1>3, <1>4, <2>2, <3>1 DEF Ind
  <2> QED
    BY <2>1, <2>2
<1> QED
  BY <1>1, <1>2, <1>3, <1>4, <1>6 DEF S

-----------------------------------------------------------------------------
(* What the step of one lcore has to show.                                 *)

InPool == {"txput", "send"}
InPfcp == {"claim", "start", "tx", "txput", "destroy"}
LcoreRecord == [at : Step, msg : Datagram \cup {0}, slot : 0 .. TxnCap]

(* The message objects lcore l uses when it is at x.                       *)
Uses(l, x) == Ind(x.at \in InPool) + Ind(x.at \in {"rxput"}) + Ind(l # Io /\ x # Idle)

(* The step moves message objects between the pool, the rings and lcore l, *)
(* and decoded messages between their pool, the transactions and lcore l.  *)
PoolStep(l, to) ==
  poolFree' + Len(rx') + Len(tx') + Uses(l, to) = poolFree + Len(rx) + Len(tx) + Uses(l, lcore[l])

PfcpStep(l, to) ==
  pfcpFree' + Cardinality(live') + Ind(to.at \in InPfcp)
    = pfcpFree + Cardinality(live) + Ind(lcore[l].at \in InPfcp)

(* An lcore moves on and every count stays in balance.                     *)
LEMMA BaselineKept ==
  ASSUME DispatchInv, NEW l \in Lcore, NEW to \in LcoreRecord, Moves(l, to),
         Len(rx') \in Nat, Len(tx') \in Nat, live' \subseteq Datagram,
         poolFree' \in Int, pfcpFree' \in Int,
         PoolStep(l, to), PfcpStep(l, to)
  PROVE  MessagesBaseline' /\ poolFree' <= 2 * RingSize /\ pfcpFree' <= PfcpCap
<1> DEFINE a == Cardinality(Doing(InPool))
           aa == Cardinality(Doing(InPool)')
           b == Cardinality(Doing({"rxput"}))
           bb == Cardinality(Doing({"rxput"})')
           c == Cardinality(Busy)
           cc == Cardinality(Busy')
           d == Cardinality(Doing(InPfcp))
           dd == Cardinality(Doing(InPfcp)')
           e == Cardinality(live)
           ee == Cardinality(live')
           p == Len(rx)
           pp == Len(rx')
           q == Len(tx)
           qq == Len(tx')
<1>0. DispatchTypeOK /\ MessagesBaseline /\ LcoreOK(l)
  BY DEF DispatchInv
<1>1. /\ a \in Nat /\ aa \in Nat
      /\ aa = a + Ind(to.at \in InPool) - Ind(lcore[l].at \in InPool)
  BY <1>0, DoingAfter
<1>2. /\ b \in Nat /\ bb \in Nat
      /\ bb = b + Ind(to.at \in {"rxput"}) - Ind(lcore[l].at \in {"rxput"})
  BY <1>0, DoingAfter
<1>3. /\ d \in Nat /\ dd \in Nat
      /\ dd = d + Ind(to.at \in InPfcp) - Ind(lcore[l].at \in InPfcp)
  BY <1>0, DoingAfter
<1>4. /\ c \in Nat /\ cc \in Nat
      /\ cc = c + Ind(l # Io /\ to # Idle) - Ind(l # Io /\ lcore[l] # Idle)
  <2>1. /\ c \in Nat /\ cc \in Nat
        /\ l = Io => cc = c
        /\ l # Io => cc = c + Ind(to # Idle) - Ind(lcore[l] # Idle)
    BY <1>0, BusyAfter
  <2> HIDE DEF c, cc
  <2> QED
    BY <2>1 DEF Ind
<1>5. IsFiniteSet(live) /\ IsFiniteSet(live')
  BY <1>0, Finite, FS_Subset DEF DispatchTypeOK
<1>6. e \in Nat /\ ee \in Nat /\ p \in Nat /\ q \in Nat /\ pp \in Nat /\ qq \in Nat
      /\ RingSize \in Nat /\ PfcpCap \in Nat /\ poolFree \in Int /\ pfcpFree \in Int
  <2>1. e \in Nat /\ ee \in Nat
    BY <1>5, FS_CardinalityType
  <2>2. p \in Nat /\ q \in Nat
    BY <1>0 DEF DispatchTypeOK
  <2>3. RingSize \in Nat /\ PfcpCap \in Nat /\ poolFree \in Int /\ pfcpFree \in Int
    BY <1>0, Finite DEF DispatchTypeOK
  <2> QED
    BY <2>1, <2>2, <2>3
<1>7. /\ poolFree = 2 * RingSize - p - (q + a) - b - c
      /\ pfcpFree = PfcpCap - e - d
  BY <1>0 DEF MessagesBaseline, Replies, Busy, InPool, InPfcp
<1>8. /\ poolFree' + pp + qq + Uses(l, to) = poolFree + p + q + Uses(l, lcore[l])
      /\ pfcpFree' + ee + Ind(to.at \in InPfcp) = pfcpFree + e + Ind(lcore[l].at \in InPfcp)
  BY DEF PoolStep, PfcpStep
<1>9. MessagesBaseline' <=> /\ poolFree' = 2 * RingSize - pp - (qq + aa) - bb - cc
                            /\ pfcpFree' = PfcpCap - ee - dd
  BY DEF MessagesBaseline, Replies, Busy, InPool, InPfcp
<1> DEFINE i1 == Ind(to.at \in InPool)
           i2 == Ind(to.at \in {"rxput"})
           i3 == Ind(l # Io /\ to # Idle)
           i4 == Ind(to.at \in InPfcp)
           j1 == Ind(lcore[l].at \in InPool)
           j2 == Ind(lcore[l].at \in {"rxput"})
           j3 == Ind(l # Io /\ lcore[l] # Idle)
           j4 == Ind(lcore[l].at \in InPfcp)
<1>10. /\ aa = a + i1 - j1 /\ bb = b + i2 - j2 /\ cc = c + i3 - j3 /\ dd = d + i4 - j4
       /\ poolFree' + pp + qq + (i1 + i2 + i3) = poolFree + p + q + (j1 + j2 + j3)
       /\ pfcpFree' + ee + i4 = pfcpFree + e + j4
  BY <1>1, <1>2, <1>3, <1>4, <1>8 DEF Uses
<1>11. /\ i1 \in Int /\ i2 \in Int /\ i3 \in Int /\ i4 \in Int
       /\ j1 \in Int /\ j2 \in Int /\ j3 \in Int /\ j4 \in Int
  BY DEF Ind
<1> HIDE DEF a, aa, b, bb, c, cc, d, dd, e, ee, p, pp, q, qq, i1, i2, i3, i4, j1, j2, j3, j4
<1>12. /\ poolFree' = 2 * RingSize - pp - (qq + aa) - bb - cc
       /\ pfcpFree' = PfcpCap - ee - dd
  <2>1. /\ a \in Int /\ aa \in Int /\ b \in Int /\ bb \in Int
        /\ c \in Int /\ cc \in Int /\ d \in Int /\ dd \in Int
    BY <1>1, <1>2, <1>3, <1>4
  <2>2. PICK f \in Int, ff \in Int, x \in Int, xx \in Int, i \in Int, j \in Int, u \in Int,
              uu \in Int, n \in Int :
          /\ f = poolFree /\ ff = poolFree' /\ x = p + q /\ xx = pp + qq
          /\ i = i1 + i2 + i3 /\ j = j1 + j2 + j3 /\ u = a + b + c /\ uu = aa + bb + cc
          /\ n = 2 * RingSize
    BY <1>6, <1>11, <2>1
  <2>3. uu = u + i - j
    BY <1>10, <1>11, <2>1, <2>2
  <2>4. f = n - x - u
    BY <1>6, <1>7, <2>1, <2>2
  <2>5. ff + xx + i = f + x + j
    <3>1. /\ f + p + q + (j1 + j2 + j3) = f + x + j
          /\ ff + pp + qq + (i1 + i2 + i3) = ff + xx + i
      BY <1>6, <1>11, <2>2
    <3> QED
      BY <1>10, <2>2, <3>1
  <2>6. ff = n - xx - uu
    BY <2>3, <2>4, <2>5
  <2>7. poolFree' = 2 * RingSize - pp - (qq + aa) - bb - cc
    BY <1>6, <2>1, <2>2, <2>6
  <2>8. PICK g \in Int, gg \in Int, ex \in Int, exx \in Int, ii \in Int, jj \in Int, v \in Int,
              vv \in Int, m \in Int :
          /\ g = pfcpFree /\ gg = pfcpFree' /\ ex = e /\ exx = ee
          /\ ii = i4 /\ jj = j4 /\ v = d /\ vv = dd /\ m = PfcpCap
    BY <1>6, <1>11, <2>1
  <2>9. vv = v + ii - jj /\ g = m - ex - v /\ gg + exx + ii = g + ex + jj
    BY <1>7, <1>10, <2>8
  <2>10. gg = m - exx - vv
    BY <2>9
  <2> QED
    BY <2>7, <2>8, <2>10
<1>13. poolFree' <= 2 * RingSize /\ pfcpFree' <= PfcpCap
  <2>1. /\ aa \in Nat /\ bb \in Nat /\ cc \in Nat /\ dd \in Nat
    BY <1>1, <1>2, <1>3, <1>4
  <2> QED
    BY <1>6, <1>12, <2>1
<1> QED
  BY <1>9, <1>12, <1>13

(* The places of the datagrams that other lcores hold do not change.       *)
LEMMA StepKeeps ==
  ASSUME DispatchInv, NEW l \in Lcore, NEW to \in LcoreRecord, Moves(l, to),
         to.at \in IF l = Io THEN IoAt ELSE WorkerAt,
         to.at = "idle" => to = Idle,
         to.msg = 0 <=> to.at \in {"idle", "release"},
         rx' \in Seq(Datagram) /\ Len(rx') < RingSize /\ Distinct(rx'),
         tx' \in Seq(Datagram) /\ Len(tx') < RingSize /\ Distinct(tx'),
         live' \subseteq Datagram /\ ended' \subseteq Datagram /\ arrived' \in 0 .. MaxRx,
         poolFree' \in Nat, pfcpFree' \in Nat, txnFree' \in 0 .. TxnCap,
         slots' \in [1 .. TxnCap -> Datagram \cup {0}],
         PoolStep(l, to), PfcpStep(l, to),
         NoDanglingTransaction', \A m \in Datagram : InOnePlace(m)', DestroyedIsOver'
  PROVE  DispatchInv'
<1>0. DispatchTypeOK /\ \A k \in Lcore : LcoreOK(k)
  BY DEF DispatchInv
<1>1. Len(rx') \in Nat /\ Len(tx') \in Nat
  OBVIOUS
<1>2. MessagesBaseline' /\ poolFree' <= 2 * RingSize /\ pfcpFree' <= PfcpCap
  BY <1>1, BaselineKept
<1>3. lcore'[l] = to /\ \A k \in Lcore : k # l => lcore'[k] = lcore[k]
  BY <1>0, LcoreAfter
<1>4. \A k \in Lcore : LcoreOK(k)'
  BY <1>0, <1>3 DEF LcoreOK
<1>5. lcore' \in [Lcore -> LcoreRecord]
  BY <1>0 DEF DispatchTypeOK, Moves, LcoreRecord
<1>6. poolFree' \in 0 .. 2 * RingSize /\ pfcpFree' \in 0 .. PfcpCap
  BY <1>2, Finite
<1>7. DispatchTypeOK'
  BY <1>5, <1>6 DEF DispatchTypeOK, LcoreRecord
<1> QED
  BY <1>2, <1>4, <1>7 DEF DispatchInv

-----------------------------------------------------------------------------
(* What a step does to the places of the datagrams and the transactions.   *)

(* The datagrams in the hands of the lcores after lcore l moved on.        *)
LEMMA HoldsAfter ==
  ASSUME DispatchTypeOK, NEW l \in Lcore, NEW to, Moves(l, to)
  PROVE  /\ \A m : Holds(l, m)' <=> to.msg = m /\ to.at # "destroy"
         /\ \A k \in Lcore : \A m : k # l => (Holds(k, m)' <=> Holds(k, m))
BY LcoreAfter DEF Holds

(* The steps in which lcore l works for a transaction that exists.         *)
TxnAt(l) == IF l = Io THEN {"tx", "txput", "destroy"} ELSE {"start"}

(* A request is in progress while it waits or an lcore works for it.       *)
LEMMA InProgressIs ==
  \A m : m \in InProgress <=> \/ m \in live
                              \/ \E l \in Lcore : lcore[l].at \in TxnAt(l) /\ lcore[l].msg = m
<1>1. \A m : m \in InProgress <=>
        \/ m \in live
        \/ \E w \in Worker : lcore[w].at = "start" /\ m = lcore[w].msg
        \/ lcore[Io].at \in {"tx", "txput", "destroy"} /\ m = lcore[Io].msg
  BY Finite DEF InProgress, Doing
<1> QED
  BY <1>1, Finite DEF TxnAt

(* The same after lcore l moved on.                                        *)
LEMMA InProgressAfter ==
  ASSUME DispatchTypeOK, NEW l \in Lcore, NEW to, Moves(l, to)
  PROVE  \A m : m \in InProgress' <=>
           \/ m \in live'
           \/ to.at \in TxnAt(l) /\ to.msg = m
           \/ \E k \in Lcore : k # l /\ lcore[k].at \in TxnAt(k) /\ lcore[k].msg = m
<1>1. \A m : m \in InProgress' <=>
        m \in live' \/ \E k \in Lcore : lcore'[k].at \in TxnAt(k) /\ lcore'[k].msg = m
  <2>1. \A m : m \in InProgress' <=>
          \/ m \in live'
          \/ \E w \in Worker : lcore'[w].at = "start" /\ m = lcore'[w].msg
          \/ lcore'[Io].at \in {"tx", "txput", "destroy"} /\ m = lcore'[Io].msg
    BY Finite DEF InProgress, Doing
  <2> QED
    BY <2>1, Finite DEF TxnAt
<1>2. lcore'[l] = to /\ \A k \in Lcore : k # l => lcore'[k] = lcore[k]
  BY LcoreAfter
<1> QED
  BY <1>1, <1>2

(* Requests in progress are finitely many.                                 *)
LEMMA InProgressFinite ==
  ASSUME DispatchTypeOK
  PROVE  /\ InProgress \ {0} \subseteq Datagram /\ IsFiniteSet(InProgress)
         /\ Cardinality(InProgress) \in Nat
<1>1. InProgress \subseteq Datagram \cup {0}
  BY InProgressIs DEF DispatchTypeOK
<1>2. IsFiniteSet(Datagram \cup {0})
  BY Finite, FS_AddElement
<1>3. IsFiniteSet(InProgress)
  BY <1>1, <1>2, FS_Subset
<1> QED
  BY <1>1, <1>3, FS_CardinalityType

(* Nothing about the transactions changes.                                 *)
LEMMA SameTransactions ==
  ASSUME DispatchInv, NEW l \in Lcore, NEW to, Moves(l, to), UNCHANGED <<txnFree, slots>>,
         \A m : (m \in live' \/ (to.at \in TxnAt(l) /\ to.msg = m))
                <=> (m \in live \/ (lcore[l].at \in TxnAt(l) /\ lcore[l].msg = m))
  PROVE  /\ NoDanglingTransaction' /\ txnFree' \in 0 .. TxnCap
         /\ slots' \in [1 .. TxnCap -> Datagram \cup {0}]
<1>1. DispatchTypeOK /\ NoDanglingTransaction
  BY DEF DispatchInv
<1>2. ASSUME NEW m PROVE m \in InProgress' <=> m \in InProgress
  <2>1. m \in InProgress' <=>
           \/ m \in live'
           \/ to.at \in TxnAt(l) /\ to.msg = m
           \/ \E k \in Lcore : k # l /\ lcore[k].at \in TxnAt(k) /\ lcore[k].msg = m
    BY <1>1, InProgressAfter
  <2>2. m \in InProgress <=>
           m \in live \/ \E k \in Lcore : lcore[k].at \in TxnAt(k) /\ lcore[k].msg = m
    BY InProgressIs
  <2> QED
    BY <2>1, <2>2
<1>3. InProgress' = InProgress
  BY <1>2
<1> QED
  BY <1>1, <1>3 DEF NoDanglingTransaction, DispatchTypeOK

(* Where datagram d is, it is nowhere else.                                *)
LEMMA Placed ==
  ASSUME DispatchInv, NEW d \in Datagram
  PROVE  /\ \A l \in Lcore : Holds(l, d) =>
              /\ d <= arrived /\ ~In(rx, d) /\ ~In(tx, d) /\ d \notin live /\ d \notin ended
              /\ \A k \in Lcore : k # l => ~Holds(k, d)
         /\ In(rx, d) => /\ d <= arrived /\ ~In(tx, d) /\ d \notin live /\ d \notin ended
                         /\ \A k \in Lcore : ~Holds(k, d)
         /\ In(tx, d) => /\ d <= arrived /\ ~In(rx, d) /\ d \notin live /\ d \notin ended
                         /\ \A k \in Lcore : ~Holds(k, d)
         /\ d \in live => /\ d <= arrived /\ ~In(rx, d) /\ ~In(tx, d) /\ d \notin ended
                          /\ \A k \in Lcore : ~Holds(k, d)
         /\ d \in ended => d \notin live /\ \A k \in Lcore : ~Holds(k, d)
         /\ ~(d <= arrived) => /\ ~In(rx, d) /\ ~In(tx, d) /\ d \notin live /\ d \notin ended
                               /\ \A k \in Lcore : ~Holds(k, d)
<1>1. InOnePlace(d)
  BY DEF DispatchInv
<1> QED
  BY <1>1 DEF InOnePlace

(* Outside lcore l, datagram m is where it was.                            *)
Elsewhere(m) ==
  /\ In(rx, m)' <=> In(rx, m)
  /\ In(tx, m)' <=> In(tx, m)
  /\ m \in live' <=> m \in live
  /\ m \in ended' <=> m \in ended
  /\ m <= arrived' <=> m <= arrived

(* Datagram d is now in exactly one place, the lcore at `to' included.     *)
NowAt(to, d) ==
  LET held == to.msg = d /\ to.at # "destroy" IN
  /\ d <= arrived'
  /\ In(rx, d)' \/ In(tx, d)' \/ d \in live' \/ d \in ended' \/ held
  /\ In(rx, d)' => ~In(tx, d)' /\ d \notin live' /\ d \notin ended' /\ ~held
  /\ In(tx, d)' => d \notin live' /\ d \notin ended' /\ ~held
  /\ d \in live' => d \notin ended' /\ ~held
  /\ d \in ended' => ~held

(* A step of lcore l moves datagram d and no other.                        *)
LEMMA Relocated ==
  ASSUME DispatchInv, NEW l \in Lcore, NEW to, Moves(l, to), NEW d \in Datagram,
         lcore[l].msg \in {0, d}, to.msg \in {0, d},
         \A k \in Lcore : k # l => ~Holds(k, d),
         \A m \in Datagram : m # d => Elsewhere(m), NowAt(to, d)
  PROVE  \A m \in Datagram : InOnePlace(m)'
<1>1. /\ \A m : Holds(l, m)' <=> to.msg = m /\ to.at # "destroy"
      /\ \A k \in Lcore : \A m : k # l => (Holds(k, m)' <=> Holds(k, m))
  BY HoldsAfter DEF DispatchInv
<1>2. InOnePlace(d)'
  BY <1>1 DEF InOnePlace, NowAt
<1>3. ASSUME NEW m \in Datagram, m # d PROVE InOnePlace(m)'
  <2>1. InOnePlace(m) /\ Elsewhere(m)
    BY <1>3 DEF DispatchInv
  <2>2. \A k \in Lcore : Holds(k, m)' <=> Holds(k, m)
    BY <1>1, <1>3, Finite DEF Holds
  <2> QED
    BY <2>1, <2>2 DEF InOnePlace, Elsewhere
<1> QED
  BY <1>2, <1>3

(* Replies are taken off the ring by the I/O lcore only.                   *)
LEMMA OverKept ==
  ASSUME DispatchInv, NEW l \in Lcore, NEW to, Moves(l, to),
         l = Io => \/ to.at # "destroy"
                   \/ \E d : to.msg = d /\ (In(tx, d)' \/ d \in ended'),
         l # Io => ended \subseteq ended' /\ \A m : In(tx, m) => In(tx, m)'
  PROVE  DestroyedIsOver'
<1>0. DispatchTypeOK /\ DestroyedIsOver
  BY DEF DispatchInv
<1>1. PICK x : x = lcore'[Io].msg
  OBVIOUS
<1>2. lcore'[Io].at = "destroy" => In(tx, x)' \/ x \in ended'
  <2>1. CASE l = Io
    BY <1>0, <1>1, <2>1, LcoreAfter
  <2>2. CASE l # Io
    <3>1. lcore'[Io] = lcore[Io]
      BY <1>0, <2>2, LcoreAfter, Finite
    <3> QED
      BY <1>0, <1>1, <2>2, <3>1 DEF DestroyedIsOver
  <2> QED
    BY <2>1, <2>2
<1> QED
  BY <1>1, <1>2 DEF DestroyedIsOver, In

(* Requests that wait are finitely many.                                   *)
LEMMA LiveFinite ==
  ASSUME DispatchTypeOK
  PROVE  /\ IsFiniteSet(live) /\ Cardinality(live) \in Nat
         /\ \A d : d \notin live => Cardinality(live \cup {d}) = Cardinality(live) + 1
         /\ \A d : d \in live => Cardinality(live \ {d}) = Cardinality(live) - 1
<1>1. IsFiniteSet(live)
  BY Finite, FS_Subset DEF DispatchTypeOK
<1> QED
  BY <1>1, FS_CardinalityType, FS_AddElement, FS_RemoveElement

(* rte_ring_dequeue() on each ring.                                        *)
LEMMA TakenFromRx ==
  ASSUME DispatchInv, rx # << >>, rx' = Tail(rx)
  PROVE  /\ rx' \in Seq(Datagram) /\ Len(rx') = Len(rx) - 1 /\ Len(rx) # 0 /\ Distinct(rx')
         /\ Head(rx) \in Datagram /\ In(rx, Head(rx))
         /\ \A m : In(rx, m)' <=> In(rx, m) /\ m # Head(rx)
<1>1. rx \in Seq(Datagram) /\ Distinct(rx)
  BY DEF DispatchInv, DispatchTypeOK
<1>2. /\ Tail(rx) \in Seq(Datagram) /\ Len(Tail(rx)) = Len(rx) - 1 /\ Len(rx) # 0
      /\ Head(rx) \in Datagram /\ In(rx, Head(rx)) /\ Distinct(Tail(rx))
      /\ \A m : In(Tail(rx), m) <=> In(rx, m) /\ m # Head(rx)
  BY <1>1, RingTail
<1>3. ASSUME NEW m PROVE In(rx, m)' <=> In(Tail(rx), m)
  BY DEF In
<1> QED
  BY <1>2, <1>3

(* v_dispatch_tx_drain() takes the head of the TX ring.                    *)
LEMMA TakenFromTx ==
  ASSUME DispatchInv, tx # << >>, tx' = Tail(tx)
  PROVE  /\ tx' \in Seq(Datagram) /\ Len(tx') = Len(tx) - 1 /\ Len(tx) # 0 /\ Distinct(tx')
         /\ Head(tx) \in Datagram /\ In(tx, Head(tx))
         /\ \A m : In(tx, m)' <=> In(tx, m) /\ m # Head(tx)
<1>1. tx \in Seq(Datagram) /\ Distinct(tx)
  BY DEF DispatchInv, DispatchTypeOK
<1>2. /\ Tail(tx) \in Seq(Datagram) /\ Len(Tail(tx)) = Len(tx) - 1 /\ Len(tx) # 0
      /\ Head(tx) \in Datagram /\ In(tx, Head(tx)) /\ Distinct(Tail(tx))
      /\ \A m : In(Tail(tx), m) <=> In(tx, m) /\ m # Head(tx)
  BY <1>1, RingTail
<1>3. ASSUME NEW m PROVE In(tx, m)' <=> In(Tail(tx), m)
  BY DEF In
<1> QED
  BY <1>2, <1>3

(* rte_ring_enqueue() on each ring, when it is not full.                   *)
LEMMA PutInRx ==
  ASSUME DispatchInv, NEW d \in Datagram, ~In(rx, d), ~Full(rx), rx' = Append(rx, d)
  PROVE  /\ rx' \in Seq(Datagram) /\ Len(rx') = Len(rx) + 1 /\ Distinct(rx')
         /\ Len(rx') < RingSize
         /\ \A m : In(rx, m)' <=> In(rx, m) \/ m = d
<1>1. rx \in Seq(Datagram) /\ Distinct(rx) /\ Len(rx) < RingSize /\ Len(rx) \in Nat
  BY DEF DispatchInv, DispatchTypeOK
<1>2. /\ Append(rx, d) \in Seq(Datagram) /\ Len(Append(rx, d)) = Len(rx) + 1
      /\ Distinct(Append(rx, d)) /\ \A m : In(Append(rx, d), m) <=> In(rx, m) \/ m = d
  BY <1>1, RingAppend
<1>3. ASSUME NEW m PROVE In(rx, m)' <=> In(Append(rx, d), m)
  BY DEF In
<1>4. Len(rx) + 1 < RingSize
  BY <1>1, Finite DEF Full
<1> QED
  BY <1>2, <1>3, <1>4

(* v_dispatch_tx_enqueue() puts a reply at the end of the TX ring.         *)
LEMMA PutInTx ==
  ASSUME DispatchInv, NEW d \in Datagram, ~In(tx, d), ~Full(tx), tx' = Append(tx, d)
  PROVE  /\ tx' \in Seq(Datagram) /\ Len(tx') = Len(tx) + 1 /\ Distinct(tx')
         /\ Len(tx') < RingSize
         /\ \A m : In(tx, m)' <=> In(tx, m) \/ m = d
<1>1. tx \in Seq(Datagram) /\ Distinct(tx) /\ Len(tx) < RingSize /\ Len(tx) \in Nat
  BY DEF DispatchInv, DispatchTypeOK
<1>2. /\ Append(tx, d) \in Seq(Datagram) /\ Len(Append(tx, d)) = Len(tx) + 1
      /\ Distinct(Append(tx, d)) /\ \A m : In(Append(tx, d), m) <=> In(tx, m) \/ m = d
  BY <1>1, RingAppend
<1>3. ASSUME NEW m PROVE In(tx, m)' <=> In(Append(tx, d), m)
  BY DEF In
<1>4. Len(tx) + 1 < RingSize
  BY <1>1, Finite DEF Full
<1> QED
  BY <1>2, <1>3, <1>4

(* v_port_txn_create(): lcore l has a transaction for d.                   *)
LEMMA NewTransaction ==
  ASSUME DispatchInv, NEW l \in Lcore, NEW to, Moves(l, to), live' = live,
         to.at \in TxnAt(l), lcore[l].at \notin TxnAt(l), to.msg \in Datagram, txnFree > 0,
         txnFree' = txnFree - 1, slots' = [slots EXCEPT ![lcore[l].slot] = to.msg]
  PROVE  /\ NoDanglingTransaction' /\ txnFree' \in 0 .. TxnCap
         /\ slots' \in [1 .. TxnCap -> Datagram \cup {0}]
<1> DEFINE P == InProgress
           PP == InProgress \cup {to.msg}
<1>1. DispatchTypeOK /\ NoDanglingTransaction /\ TxnCap \in Nat
  BY Finite DEF DispatchInv
<1>2. InProgress' = PP
  <2>1. ASSUME NEW m PROVE m \in InProgress' <=> m \in PP
    <3>1. m \in InProgress' <=>
             \/ m \in live'
             \/ to.at \in TxnAt(l) /\ to.msg = m
             \/ \E k \in Lcore : k # l /\ lcore[k].at \in TxnAt(k) /\ lcore[k].msg = m
      BY <1>1, InProgressAfter
    <3>2. m \in InProgress <=>
             m \in live \/ \E k \in Lcore : lcore[k].at \in TxnAt(k) /\ lcore[k].msg = m
      BY InProgressIs
    <3> QED
      BY <3>1, <3>2
  <2> QED
    BY <2>1
<1>3. IsFiniteSet(P) /\ Cardinality(P) \in Nat
  BY <1>1, InProgressFinite
<1>4. Cardinality(PP) <= Cardinality(P) + 1 /\ Cardinality(PP) \in Nat
  <2>1. IsFiniteSet(PP) /\ Cardinality(PP) = IF to.msg \in P THEN Cardinality(P) ELSE Cardinality(P) + 1
    BY <1>3, FS_AddElement
  <2>2. Cardinality(PP) \in Nat
    BY <2>1, FS_CardinalityType
  <2> HIDE DEF P, PP
  <2> QED
    BY <1>3, <2>1, <2>2
<1>5. txnFree \in 0 .. TxnCap /\ txnFree <= TxnCap - Cardinality(P)
      /\ \A i \in 1 .. TxnCap : slots[i] \in P \cup {0}
  BY <1>1 DEF DispatchTypeOK, NoDanglingTransaction
<1>6. \A i \in 1 .. TxnCap : slots'[i] = slots[i] \/ slots'[i] = to.msg
  BY <1>1 DEF DispatchTypeOK
<1>7. slots' \in [1 .. TxnCap -> Datagram \cup {0}]
  BY <1>1 DEF DispatchTypeOK
<1>8. \A i \in 1 .. TxnCap : slots'[i] \in PP \cup {0}
  BY <1>5, <1>6
<1> HIDE DEF P, PP
<1>9. txnFree' <= TxnCap - Cardinality(PP) /\ txnFree' \in 0 .. TxnCap
  BY <1>1, <1>3, <1>4, <1>5
<1> QED
  BY <1>2, <1>7, <1>8, <1>9 DEF NoDanglingTransaction

(* v_port_txn_destroy(): lcore l's transaction for d is over.              *)
LEMMA OverTransaction ==
  ASSUME DispatchInv, NEW l \in Lcore, NEW to, Moves(l, to), live' = live, NEW d \in Datagram,
         to.at \notin TxnAt(l), lcore[l].at \in TxnAt(l), lcore[l].msg = d, Destroyed(d),
         d \notin live, \A k \in Lcore : k # l => ~(lcore[k].at \in TxnAt(k) /\ lcore[k].msg = d)
  PROVE  /\ NoDanglingTransaction' /\ txnFree' \in 0 .. TxnCap
         /\ slots' \in [1 .. TxnCap -> Datagram \cup {0}]
<1> DEFINE P == InProgress
           PP == InProgress \ {d}
<1>1. DispatchTypeOK /\ NoDanglingTransaction /\ TxnCap \in Nat
  BY Finite DEF DispatchInv
<1>2. InProgress' = PP /\ d \in P
  <2>1. ASSUME NEW m PROVE m \in InProgress' <=> m \in PP
    <3>1. m \in InProgress' <=>
             \/ m \in live'
             \/ to.at \in TxnAt(l) /\ to.msg = m
             \/ \E k \in Lcore : k # l /\ lcore[k].at \in TxnAt(k) /\ lcore[k].msg = m
      BY <1>1, InProgressAfter
    <3>2. m \in InProgress <=>
             m \in live \/ \E k \in Lcore : lcore[k].at \in TxnAt(k) /\ lcore[k].msg = m
      BY InProgressIs
    <3> QED
      BY <3>1, <3>2
  <2>2. d \in InProgress
    BY InProgressIs
  <2> QED
    BY <2>1, <2>2
<1>3. IsFiniteSet(P) /\ Cardinality(P) \in Nat
  BY <1>1, InProgressFinite
<1>4. Cardinality(PP) = Cardinality(P) - 1 /\ Cardinality(PP) \in Nat
  <2>1. IsFiniteSet(PP) /\ Cardinality(PP) = IF d \in P THEN Cardinality(P) - 1 ELSE Cardinality(P)
    BY <1>3, FS_RemoveElement
  <2>2. Cardinality(PP) \in Nat
    BY <2>1, FS_CardinalityType
  <2> HIDE DEF P, PP
  <2> QED
    BY <1>2, <1>3, <2>1, <2>2
<1>5. txnFree \in 0 .. TxnCap /\ txnFree <= TxnCap - Cardinality(P)
      /\ \A i \in 1 .. TxnCap : slots[i] \in P \cup {0}
  BY <1>1 DEF DispatchTypeOK, NoDanglingTransaction
<1>6. /\ slots' \in [1 .. TxnCap -> Datagram \cup {0}]
      /\ \A i \in 1 .. TxnCap : slots'[i] = 0 \/ (slots'[i] = slots[i] /\ slots[i] # d)
      /\ txnFree' = txnFree \/ txnFree' = txnFree + 1
  <2>1. CASE \E i \in 1 .. TxnCap : slots[i] = d
    BY <1>1, <2>1 DEF Destroyed, DispatchTypeOK
  <2>2. CASE ~\E i \in 1 .. TxnCap : slots[i] = d
    BY <1>1, <2>2 DEF Destroyed, DispatchTypeOK
  <2> QED
    BY <2>1, <2>2
<1>7. \A i \in 1 .. TxnCap : slots'[i] \in PP \cup {0}
  BY <1>5, <1>6
<1> HIDE DEF P, PP
<1>8. txnFree' <= TxnCap - Cardinality(PP) /\ txnFree' \in 0 .. TxnCap
  BY <1>1, <1>3, <1>4, <1>5, <1>6
<1> QED
  BY <1>2, <1>6, <1>7, <1>8 DEF NoDanglingTransaction

-----------------------------------------------------------------------------
(* One lemma for each thing a step may do.                                 *)

(* v_dispatch_worker_poll() takes a datagram off the ring.                 *)
LEMMA DequeueKeeps ==
  ASSUME DispatchInv, NEW w \in Worker,
         lcore[w].at = "idle", rx # << >>, Moves(w, At("handle", Head(rx), 0)), rx' = Tail(rx),
         UNCHANGED <<poolFree, tx, pfcpFree, txnFree, slots, live, arrived, ended>>
  PROVE  DispatchInv'
<1>a. PICK d, to : d = Head(rx) /\ to = At("handle", Head(rx), 0)
  OBVIOUS
<1>0. DispatchTypeOK /\ LcoreOK(w) /\ w \in Lcore /\ w # Io
  BY Finite DEF DispatchInv
<1>1. /\ d \in Datagram /\ d # 0 /\ lcore[w].msg = 0 /\ In(rx, d)
      /\ rx' \in Seq(Datagram) /\ Len(rx') = Len(rx) - 1 /\ Len(rx) # 0 /\ Distinct(rx')
      /\ \A m : In(rx, m)' <=> In(rx, m) /\ m # d
  BY <1>a, <1>0, TakenFromRx, Finite DEF LcoreOK
<1>2. /\ to.at = "handle" /\ to.msg = d /\ to \in LcoreRecord
      /\ to.at \in IF w = Io THEN IoAt ELSE WorkerAt
      /\ (to = Idle <=> to.at = "idle") /\ (lcore[w] = Idle <=> lcore[w].at = "idle")
  BY <1>a, <1>0, <1>1, Finite DEF LcoreOK, LcoreRecord, At, Idle, Step, IoAt, WorkerAt
<1>3. /\ ~In(tx, d) /\ d \notin live /\ d \notin ended /\ d <= arrived
      /\ \A k \in Lcore : k # w => ~Holds(k, d)
  BY <1>0, <1>1, Placed
<1>5. /\ Moves(w, to)
      /\ rx' = Tail(rx)
      /\ UNCHANGED <<poolFree, tx, pfcpFree, txnFree, slots, live, arrived, ended>>
  BY <1>a
<1>6. NoDanglingTransaction' /\ txnFree' \in 0 .. TxnCap /\ slots' \in [1 .. TxnCap -> Datagram \cup {0}]
  <2>1. \A m : (m \in live' \/ (to.at \in TxnAt(w) /\ to.msg = m))
             <=> (m \in live \/ (lcore[w].at \in TxnAt(w) /\ lcore[w].msg = m))
    BY <1>0, <1>1, <1>2, <1>5 DEF TxnAt
  <2> QED
    BY <1>0, <1>5, <2>1, SameTransactions
<1>7. \A m \in Datagram : InOnePlace(m)'
  <2>1. \A m : (In(tx, m)' <=> In(tx, m))
    BY <1>5 DEF In
  <2>2. ASSUME NEW m \in Datagram, m # d PROVE Elsewhere(m)
    BY <1>1, <1>5, <2>1, <2>2 DEF Elsewhere
  <2>3. NowAt(to, d)
    BY <1>1, <1>2, <1>3, <1>5, <2>1 DEF NowAt
  <2> QED
    BY <1>0, <1>1, <1>2, <1>3, <1>5, <2>2, <2>3, Relocated
<1>8. PoolStep(w, to) /\ PfcpStep(w, to)
  <2>1. Uses(w, to) = 1 /\ Uses(w, lcore[w]) = 0
    BY <1>0, <1>2 DEF Uses, Ind, InPool
  <2>2. Ind(to.at \in InPfcp) = 0 /\ Ind(lcore[w].at \in InPfcp) = 0
    BY <1>2 DEF Ind, InPfcp
  <2>3. live' = live /\ Cardinality(live) \in Nat
    BY <1>0, <1>5, LiveFinite
  <2>4. PoolStep(w, to)
    BY <1>0, <1>1, <1>5, <2>1 DEF PoolStep, DispatchTypeOK
  <2>5. PfcpStep(w, to)
    BY <1>0, <1>5, <2>2, <2>3 DEF PfcpStep, DispatchTypeOK
  <2> QED
    BY <2>4, <2>5
<1>9. DestroyedIsOver'
  BY <1>0, <1>1, <1>2, <1>5, OverKept DEF In
<1>10. /\ rx' \in Seq(Datagram) /\ Len(rx') < RingSize /\ Distinct(rx')
       /\ tx' \in Seq(Datagram) /\ Len(tx') < RingSize /\ Distinct(tx')
       /\ poolFree' \in Nat /\ pfcpFree' \in Nat /\ arrived' \in 0 .. MaxRx
       /\ live' \subseteq Datagram /\ ended' \subseteq Datagram
  BY <1>0, <1>1, <1>5, Finite DEF DispatchTypeOK, DispatchInv, Datagram
<1> QED
  BY <1>0, <1>1, <1>2, <1>5, <1>6, <1>7, <1>8, <1>9, <1>10, StepKeeps

(* v_dispatch_rx() takes a message object for a datagram,                  *)
LEMMA RxTakesKeeps ==
  ASSUME DispatchInv, 
         lcore[Io].at = "idle", arrived < MaxRx, poolFree > 0,
         Moves(Io, At("rxput", arrived + 1, 0)), poolFree' = poolFree - 1,
         arrived' = arrived + 1, UNCHANGED <<rx, tx, pfcpFree, txnFree, slots, live, ended>>
  PROVE  DispatchInv'
<1>a. PICK d, to : d = arrived + 1 /\ to = At("rxput", arrived + 1, 0)
  OBVIOUS
<1>0. DispatchTypeOK /\ LcoreOK(Io) /\ Io \in Lcore
  BY Finite DEF DispatchInv
<1>1. /\ d \in Datagram /\ d # 0 /\ lcore[Io].msg = 0 /\ ~(d <= arrived) /\ d <= d
      /\ \A m \in Datagram : m # d => (m <= d <=> m <= arrived)
  BY <1>a, <1>0, Finite DEF LcoreOK, DispatchTypeOK, Datagram
<1>2. /\ to.at = "rxput" /\ to.msg = d /\ to \in LcoreRecord
      /\ to.at \in IF Io = Io THEN IoAt ELSE WorkerAt
      /\ (to = Idle <=> to.at = "idle") /\ (lcore[Io] = Idle <=> lcore[Io].at = "idle")
  BY <1>a, <1>0, <1>1, Finite DEF LcoreOK, LcoreRecord, At, Idle, Step, IoAt, WorkerAt
<1>3. /\ ~In(rx, d) /\ ~In(tx, d) /\ d \notin live /\ d \notin ended
      /\ \A k \in Lcore : k # Io => ~Holds(k, d)
  BY <1>0, <1>1, Placed
<1>5. /\ Moves(Io, to)
      /\ poolFree' = poolFree - 1 /\ arrived' = d
      /\ UNCHANGED <<rx, tx, pfcpFree, txnFree, slots, live, ended>>
  BY <1>a
<1>6. NoDanglingTransaction' /\ txnFree' \in 0 .. TxnCap /\ slots' \in [1 .. TxnCap -> Datagram \cup {0}]
  <2>1. \A m : (m \in live' \/ (to.at \in TxnAt(Io) /\ to.msg = m))
             <=> (m \in live \/ (lcore[Io].at \in TxnAt(Io) /\ lcore[Io].msg = m))
    BY <1>0, <1>1, <1>2, <1>5 DEF TxnAt
  <2> QED
    BY <1>0, <1>5, <2>1, SameTransactions
<1>7. \A m \in Datagram : InOnePlace(m)'
  <2>1. \A m : (In(rx, m)' <=> In(rx, m)) /\ (In(tx, m)' <=> In(tx, m))
    BY <1>5 DEF In
  <2>2. ASSUME NEW m \in Datagram, m # d PROVE Elsewhere(m)
    BY <1>1, <1>5, <2>1, <2>2 DEF Elsewhere
  <2>3. NowAt(to, d)
    BY <1>1, <1>2, <1>3, <1>5, <2>1 DEF NowAt
  <2> QED
    BY <1>0, <1>1, <1>2, <1>3, <1>5, <2>2, <2>3, Relocated
<1>8. PoolStep(Io, to) /\ PfcpStep(Io, to)
  <2>1. Uses(Io, to) = 1 /\ Uses(Io, lcore[Io]) = 0
    BY <1>0, <1>2 DEF Uses, Ind, InPool
  <2>2. Ind(to.at \in InPfcp) = 0 /\ Ind(lcore[Io].at \in InPfcp) = 0
    BY <1>2 DEF Ind, InPfcp
  <2>3. live' = live /\ Cardinality(live) \in Nat
    BY <1>0, <1>5, LiveFinite
  <2>4. PoolStep(Io, to)
    BY <1>0, <1>1, <1>5, <2>1 DEF PoolStep, DispatchTypeOK
  <2>5. PfcpStep(Io, to)
    BY <1>0, <1>5, <2>2, <2>3 DEF PfcpStep, DispatchTypeOK
  <2> QED
    BY <2>4, <2>5
<1>9. DestroyedIsOver'
  BY <1>0, <1>1, <1>2, <1>5, OverKept DEF In
<1>10. /\ rx' \in Seq(Datagram) /\ Len(rx') < RingSize /\ Distinct(rx')
       /\ tx' \in Seq(Datagram) /\ Len(tx') < RingSize /\ Distinct(tx')
       /\ poolFree' \in Nat /\ pfcpFree' \in Nat /\ arrived' \in 0 .. MaxRx
       /\ live' \subseteq Datagram /\ ended' \subseteq Datagram
  BY <1>0, <1>1, <1>5, Finite DEF DispatchTypeOK, DispatchInv, Datagram
<1> QED
  BY <1>0, <1>1, <1>2, <1>5, <1>6, <1>7, <1>8, <1>9, <1>10, StepKeeps

(* or drops the datagram.                                                  *)
LEMMA RxDropsKeeps ==
  ASSUME DispatchInv, 
         lcore[Io].at = "idle", arrived < MaxRx, Moves(Io, Idle), arrived' = arrived + 1,
         ended' = ended \cup {arrived + 1},
         UNCHANGED <<poolFree, rx, tx, pfcpFree, txnFree, slots, live>>
  PROVE  DispatchInv'
<1>a. PICK d, to : d = arrived + 1 /\ to = Idle
  OBVIOUS
<1>0. DispatchTypeOK /\ LcoreOK(Io) /\ Io \in Lcore
  BY Finite DEF DispatchInv
<1>1. /\ d \in Datagram /\ d # 0 /\ lcore[Io].msg = 0 /\ ~(d <= arrived) /\ d <= d
      /\ \A m \in Datagram : m # d => (m <= d <=> m <= arrived)
  BY <1>a, <1>0, Finite DEF LcoreOK, DispatchTypeOK, Datagram
<1>2. /\ to.at = "idle" /\ to.msg = 0 /\ to \in LcoreRecord
      /\ to.at \in IF Io = Io THEN IoAt ELSE WorkerAt
      /\ (to = Idle <=> to.at = "idle") /\ (lcore[Io] = Idle <=> lcore[Io].at = "idle")
  BY <1>a, <1>0, <1>1, Finite DEF LcoreOK, LcoreRecord, At, Idle, Step, IoAt, WorkerAt
<1>3. /\ ~In(rx, d) /\ ~In(tx, d) /\ d \notin live /\ d \notin ended
      /\ \A k \in Lcore : k # Io => ~Holds(k, d)
  BY <1>0, <1>1, Placed
<1>5. /\ Moves(Io, to)
      /\ arrived' = d /\ ended' = ended \cup {d}
      /\ UNCHANGED <<poolFree, rx, tx, pfcpFree, txnFree, slots, live>>
  BY <1>a
<1>6. NoDanglingTransaction' /\ txnFree' \in 0 .. TxnCap /\ slots' \in [1 .. TxnCap -> Datagram \cup {0}]
  <2>1. \A m : (m \in live' \/ (to.at \in TxnAt(Io) /\ to.msg = m))
             <=> (m \in live \/ (lcore[Io].at \in TxnAt(Io) /\ lcore[Io].msg = m))
    BY <1>0, <1>1, <1>2, <1>5 DEF TxnAt
  <2> QED
    BY <1>0, <1>5, <2>1, SameTransactions
<1>7. \A m \in Datagram : InOnePlace(m)'
  <2>1. \A m : (In(rx, m)' <=> In(rx, m)) /\ (In(tx, m)' <=> In(tx, m))
    BY <1>5 DEF In
  <2>2. ASSUME NEW m \in Datagram, m # d PROVE Elsewhere(m)
    BY <1>1, <1>5, <2>1, <2>2 DEF Elsewhere
  <2>3. NowAt(to, d)
    BY <1>1, <1>2, <1>3, <1>5, <2>1 DEF NowAt
  <2> QED
    BY <1>0, <1>1, <1>2, <1>3, <1>5, <2>2, <2>3, Relocated
<1>8. PoolStep(Io, to) /\ PfcpStep(Io, to)
  <2>1. Uses(Io, to) = 0 /\ Uses(Io, lcore[Io]) = 0
    BY <1>0, <1>2 DEF Uses, Ind, InPool
  <2>2. Ind(to.at \in InPfcp) = 0 /\ Ind(lcore[Io].at \in InPfcp) = 0
    BY <1>2 DEF Ind, InPfcp
  <2>3. live' = live /\ Cardinality(live) \in Nat
    BY <1>0, <1>5, LiveFinite
  <2>4. PoolStep(Io, to)
    BY <1>0, <1>1, <1>5, <2>1 DEF PoolStep, DispatchTypeOK
  <2>5. PfcpStep(Io, to)
    BY <1>0, <1>5, <2>2, <2>3 DEF PfcpStep, DispatchTypeOK
  <2> QED
    BY <2>4, <2>5
<1>9. DestroyedIsOver'
  BY <1>0, <1>1, <1>2, <1>5, OverKept DEF In
<1>10. /\ rx' \in Seq(Datagram) /\ Len(rx') < RingSize /\ Distinct(rx')
       /\ tx' \in Seq(Datagram) /\ Len(tx') < RingSize /\ Distinct(tx')
       /\ poolFree' \in Nat /\ pfcpFree' \in Nat /\ arrived' \in 0 .. MaxRx
       /\ live' \subseteq Datagram /\ ended' \subseteq Datagram
  BY <1>0, <1>1, <1>5, Finite DEF DispatchTypeOK, DispatchInv, Datagram
<1> QED
  BY <1>0, <1>1, <1>2, <1>5, <1>6, <1>7, <1>8, <1>9, <1>10, StepKeeps

(* The inbound ring is full, and the datagram dropped,                     *)
LEMMA RxFullKeeps ==
  ASSUME DispatchInv, 
         lcore[Io].at = "rxput", Moves(Io, Idle), poolFree' = poolFree + 1,
         ended' = ended \cup {lcore[Io].msg},
         UNCHANGED <<rx, tx, pfcpFree, txnFree, slots, live, arrived>>
  PROVE  DispatchInv'
<1>a. PICK d, to : d = lcore[Io].msg /\ to = Idle
  OBVIOUS
<1>0. DispatchTypeOK /\ LcoreOK(Io) /\ Io \in Lcore
  BY Finite DEF DispatchInv
<1>1. d \in Datagram /\ d # 0
  BY <1>a, <1>0 DEF LcoreOK, DispatchTypeOK
<1>2. /\ to.at = "idle" /\ to.msg = 0 /\ to \in LcoreRecord
      /\ to.at \in IF Io = Io THEN IoAt ELSE WorkerAt
      /\ (to = Idle <=> to.at = "idle") /\ (lcore[Io] = Idle <=> lcore[Io].at = "idle")
  BY <1>a, <1>0, <1>1, Finite DEF LcoreOK, LcoreRecord, At, Idle, Step, IoAt, WorkerAt
<1>3. /\ ~In(rx, d) /\ ~In(tx, d) /\ d \notin live /\ d \notin ended /\ d <= arrived
      /\ \A k \in Lcore : k # Io => ~Holds(k, d)
  <2>1. Holds(Io, d)
    BY <1>a DEF Holds
  <2> QED
    BY <1>0, <1>1, <2>1, Placed
<1>5. /\ Moves(Io, to) /\ lcore[Io].msg = d
      /\ poolFree' = poolFree + 1 /\ ended' = ended \cup {d}
      /\ UNCHANGED <<rx, tx, pfcpFree, txnFree, slots, live, arrived>>
  BY <1>a
<1>6. NoDanglingTransaction' /\ txnFree' \in 0 .. TxnCap /\ slots' \in [1 .. TxnCap -> Datagram \cup {0}]
  <2>1. \A m : (m \in live' \/ (to.at \in TxnAt(Io) /\ to.msg = m))
             <=> (m \in live \/ (lcore[Io].at \in TxnAt(Io) /\ lcore[Io].msg = m))
    BY <1>0, <1>1, <1>2, <1>5 DEF TxnAt
  <2> QED
    BY <1>0, <1>5, <2>1, SameTransactions
<1>7. \A m \in Datagram : InOnePlace(m)'
  <2>1. \A m : (In(rx, m)' <=> In(rx, m)) /\ (In(tx, m)' <=> In(tx, m))
    BY <1>5 DEF In
  <2>2. ASSUME NEW m \in Datagram, m # d PROVE Elsewhere(m)
    BY <1>1, <1>5, <2>1, <2>2 DEF Elsewhere
  <2>3. NowAt(to, d)
    BY <1>1, <1>2, <1>3, <1>5, <2>1 DEF NowAt
  <2> QED
    BY <1>0, <1>1, <1>2, <1>3, <1>5, <2>2, <2>3, Relocated
<1>8. PoolStep(Io, to) /\ PfcpStep(Io, to)
  <2>1. Uses(Io, to) = 0 /\ Uses(Io, lcore[Io]) = 1
    BY <1>0, <1>2 DEF Uses, Ind, InPool
  <2>2. Ind(to.at \in InPfcp) = 0 /\ Ind(lcore[Io].at \in InPfcp) = 0
    BY <1>2 DEF Ind, InPfcp
  <2>3. live' = live /\ Cardinality(live) \in Nat
    BY <1>0, <1>5, LiveFinite
  <2>4. PoolStep(Io, to)
    BY <1>0, <1>1, <1>5, <2>1 DEF PoolStep, DispatchTypeOK
  <2>5. PfcpStep(Io, to)
    BY <1>0, <1>5, <2>2, <2>3 DEF PfcpStep, DispatchTypeOK
  <2> QED
    BY <2>4, <2>5
<1>9. DestroyedIsOver'
  BY <1>0, <1>1, <1>2, <1>5, OverKept DEF In
<1>10. /\ rx' \in Seq(Datagram) /\ Len(rx') < RingSize /\ Distinct(rx')
       /\ tx' \in Seq(Datagram) /\ Len(tx') < RingSize /\ Distinct(tx')
       /\ poolFree' \in Nat /\ pfcpFree' \in Nat /\ arrived' \in 0 .. MaxRx
       /\ live' \subseteq Datagram /\ ended' \subseteq Datagram
  BY <1>0, <1>1, <1>5, Finite DEF DispatchTypeOK, DispatchInv, Datagram
<1> QED
  BY <1>0, <1>1, <1>2, <1>5, <1>6, <1>7, <1>8, <1>9, <1>10, StepKeeps

(* or it is queued for the workers.                                        *)
LEMMA RxQueuesKeeps ==
  ASSUME DispatchInv, 
         lcore[Io].at = "rxput", ~Full(rx), Moves(Io, Idle), rx' = Append(rx, lcore[Io].msg),
         UNCHANGED <<poolFree, tx, pfcpFree, txnFree, slots, live, arrived, ended>>
  PROVE  DispatchInv'
<1>a. PICK d, to : d = lcore[Io].msg /\ to = Idle
  OBVIOUS
<1>0. DispatchTypeOK /\ LcoreOK(Io) /\ Io \in Lcore
  BY Finite DEF DispatchInv
<1>1. d \in Datagram /\ d # 0
  BY <1>a, <1>0 DEF LcoreOK, DispatchTypeOK
<1>2. /\ to.at = "idle" /\ to.msg = 0 /\ to \in LcoreRecord
      /\ to.at \in IF Io = Io THEN IoAt ELSE WorkerAt
      /\ (to = Idle <=> to.at = "idle") /\ (lcore[Io] = Idle <=> lcore[Io].at = "idle")
  BY <1>a, <1>0, <1>1, Finite DEF LcoreOK, LcoreRecord, At, Idle, Step, IoAt, WorkerAt
<1>3. /\ ~In(rx, d) /\ ~In(tx, d) /\ d \notin live /\ d \notin ended /\ d <= arrived
      /\ \A k \in Lcore : k # Io => ~Holds(k, d)
  <2>1. Holds(Io, d)
    BY <1>a DEF Holds
  <2> QED
    BY <1>0, <1>1, <2>1, Placed
<1>4. /\ rx' \in Seq(Datagram) /\ Len(rx') = Len(rx) + 1 /\ Distinct(rx') /\ Len(rx') < RingSize
      /\ \A m : In(rx, m)' <=> In(rx, m) \/ m = d
  BY <1>a, <1>1, <1>3, PutInRx
<1>5. /\ Moves(Io, to) /\ lcore[Io].msg = d
      /\ rx' = Append(rx, d)
      /\ UNCHANGED <<poolFree, tx, pfcpFree, txnFree, slots, live, arrived, ended>>
  BY <1>a
<1>6. NoDanglingTransaction' /\ txnFree' \in 0 .. TxnCap /\ slots' \in [1 .. TxnCap -> Datagram \cup {0}]
  <2>1. \A m : (m \in live' \/ (to.at \in TxnAt(Io) /\ to.msg = m))
             <=> (m \in live \/ (lcore[Io].at \in TxnAt(Io) /\ lcore[Io].msg = m))
    BY <1>0, <1>1, <1>2, <1>5 DEF TxnAt
  <2> QED
    BY <1>0, <1>5, <2>1, SameTransactions
<1>7. \A m \in Datagram : InOnePlace(m)'
  <2>1. \A m : (In(tx, m)' <=> In(tx, m))
    BY <1>5 DEF In
  <2>2. ASSUME NEW m \in Datagram, m # d PROVE Elsewhere(m)
    BY <1>1, <1>4, <1>5, <2>1, <2>2 DEF Elsewhere
  <2>3. NowAt(to, d)
    BY <1>1, <1>4, <1>2, <1>3, <1>5, <2>1 DEF NowAt
  <2> QED
    BY <1>0, <1>1, <1>2, <1>3, <1>5, <2>2, <2>3, Relocated
<1>8. PoolStep(Io, to) /\ PfcpStep(Io, to)
  <2>1. Uses(Io, to) = 0 /\ Uses(Io, lcore[Io]) = 1
    BY <1>0, <1>2 DEF Uses, Ind, InPool
  <2>2. Ind(to.at \in InPfcp) = 0 /\ Ind(lcore[Io].at \in InPfcp) = 0
    BY <1>2 DEF Ind, InPfcp
  <2>3. live' = live /\ Cardinality(live) \in Nat
    BY <1>0, <1>5, LiveFinite
  <2>4. PoolStep(Io, to)
    BY <1>0, <1>1, <1>4, <1>5, <2>1 DEF PoolStep, DispatchTypeOK
  <2>5. PfcpStep(Io, to)
    BY <1>0, <1>5, <2>2, <2>3 DEF PfcpStep, DispatchTypeOK
  <2> QED
    BY <2>4, <2>5
<1>9. DestroyedIsOver'
  BY <1>0, <1>1, <1>4, <1>2, <1>5, OverKept DEF In
<1>10. /\ rx' \in Seq(Datagram) /\ Len(rx') < RingSize /\ Distinct(rx')
       /\ tx' \in Seq(Datagram) /\ Len(tx') < RingSize /\ Distinct(tx')
       /\ poolFree' \in Nat /\ pfcpFree' \in Nat /\ arrived' \in 0 .. MaxRx
       /\ live' \subseteq Datagram /\ ended' \subseteq Datagram
  BY <1>0, <1>1, <1>4, <1>5, Finite DEF DispatchTypeOK, DispatchInv, Datagram
<1> QED
  BY <1>0, <1>1, <1>2, <1>5, <1>6, <1>7, <1>8, <1>9, <1>10, StepKeeps

(* v_flow_handle_msg() drops a datagram,                                   *)
LEMMA HandleDropsKeeps ==
  ASSUME DispatchInv, NEW w \in Worker,
         lcore[w].at = "handle", Moves(w, At("release", 0, 0)),
         ended' = ended \cup {lcore[w].msg},
         UNCHANGED <<poolFree, rx, tx, pfcpFree, txnFree, slots, live, arrived>>
  PROVE  DispatchInv'
<1>a. PICK d, to : d = lcore[w].msg /\ to = At("release", 0, 0)
  OBVIOUS
<1>0. DispatchTypeOK /\ LcoreOK(w) /\ w \in Lcore /\ w # Io
  BY Finite DEF DispatchInv
<1>1. d \in Datagram /\ d # 0
  BY <1>a, <1>0 DEF LcoreOK, DispatchTypeOK
<1>2. /\ to.at = "release" /\ to.msg = 0 /\ to \in LcoreRecord
      /\ to.at \in IF w = Io THEN IoAt ELSE WorkerAt
      /\ (to = Idle <=> to.at = "idle") /\ (lcore[w] = Idle <=> lcore[w].at = "idle")
  BY <1>a, <1>0, <1>1, Finite DEF LcoreOK, LcoreRecord, At, Idle, Step, IoAt, WorkerAt
<1>3. /\ ~In(rx, d) /\ ~In(tx, d) /\ d \notin live /\ d \notin ended /\ d <= arrived
      /\ \A k \in Lcore : k # w => ~Holds(k, d)
  <2>1. Holds(w, d)
    BY <1>a DEF Holds
  <2> QED
    BY <1>0, <1>1, <2>1, Placed
<1>5. /\ Moves(w, to) /\ lcore[w].msg = d
      /\ ended' = ended \cup {d}
      /\ UNCHANGED <<poolFree, rx, tx, pfcpFree, txnFree, slots, live, arrived>>
  BY <1>a
<1>6. NoDanglingTransaction' /\ txnFree' \in 0 .. TxnCap /\ slots' \in [1 .. TxnCap -> Datagram \cup {0}]
  <2>1. \A m : (m \in live' \/ (to.at \in TxnAt(w) /\ to.msg = m))
             <=> (m \in live \/ (lcore[w].at \in TxnAt(w) /\ lcore[w].msg = m))
    BY <1>0, <1>1, <1>2, <1>5 DEF TxnAt
  <2> QED
    BY <1>0, <1>5, <2>1, SameTransactions
<1>7. \A m \in Datagram : InOnePlace(m)'
  <2>1. \A m : (In(rx, m)' <=> In(rx, m)) /\ (In(tx, m)' <=> In(tx, m))
    BY <1>5 DEF In
  <2>2. ASSUME NEW m \in Datagram, m # d PROVE Elsewhere(m)
    BY <1>1, <1>5, <2>1, <2>2 DEF Elsewhere
  <2>3. NowAt(to, d)
    BY <1>1, <1>2, <1>3, <1>5, <2>1 DEF NowAt
  <2> QED
    BY <1>0, <1>1, <1>2, <1>3, <1>5, <2>2, <2>3, Relocated
<1>8. PoolStep(w, to) /\ PfcpStep(w, to)
  <2>1. Uses(w, to) = 1 /\ Uses(w, lcore[w]) = 1
    BY <1>0, <1>2 DEF Uses, Ind, InPool
  <2>2. Ind(to.at \in InPfcp) = 0 /\ Ind(lcore[w].at \in InPfcp) = 0
    BY <1>2 DEF Ind, InPfcp
  <2>3. live' = live /\ Cardinality(live) \in Nat
    BY <1>0, <1>5, LiveFinite
  <2>4. PoolStep(w, to)
    BY <1>0, <1>1, <1>5, <2>1 DEF PoolStep, DispatchTypeOK
  <2>5. PfcpStep(w, to)
    BY <1>0, <1>5, <2>2, <2>3 DEF PfcpStep, DispatchTypeOK
  <2> QED
    BY <2>4, <2>5
<1>9. DestroyedIsOver'
  BY <1>0, <1>1, <1>2, <1>5, OverKept DEF In
<1>10. /\ rx' \in Seq(Datagram) /\ Len(rx') < RingSize /\ Distinct(rx')
       /\ tx' \in Seq(Datagram) /\ Len(tx') < RingSize /\ Distinct(tx')
       /\ poolFree' \in Nat /\ pfcpFree' \in Nat /\ arrived' \in 0 .. MaxRx
       /\ live' \subseteq Datagram /\ ended' \subseteq Datagram
  BY <1>0, <1>1, <1>5, Finite DEF DispatchTypeOK, DispatchInv, Datagram
<1> QED
  BY <1>0, <1>1, <1>2, <1>5, <1>6, <1>7, <1>8, <1>9, <1>10, StepKeeps

(* answers it at once,                                                     *)
LEMMA HandleRepliesKeeps ==
  ASSUME DispatchInv, NEW w \in Worker,
         lcore[w].at = "handle", pfcpFree > 0, Moves(w, At("tx", lcore[w].msg, 0)),
         pfcpFree' = pfcpFree - 1,
         UNCHANGED <<poolFree, rx, tx, txnFree, slots, live, arrived, ended>>
  PROVE  DispatchInv'
<1>a. PICK d, to : d = lcore[w].msg /\ to = At("tx", lcore[w].msg, 0)
  OBVIOUS
<1>0. DispatchTypeOK /\ LcoreOK(w) /\ w \in Lcore /\ w # Io
  BY Finite DEF DispatchInv
<1>1. d \in Datagram /\ d # 0
  BY <1>a, <1>0 DEF LcoreOK, DispatchTypeOK
<1>2. /\ to.at = "tx" /\ to.msg = d /\ to \in LcoreRecord
      /\ to.at \in IF w = Io THEN IoAt ELSE WorkerAt
      /\ (to = Idle <=> to.at = "idle") /\ (lcore[w] = Idle <=> lcore[w].at = "idle")
  BY <1>a, <1>0, <1>1, Finite DEF LcoreOK, LcoreRecord, At, Idle, Step, IoAt, WorkerAt
<1>3. /\ ~In(rx, d) /\ ~In(tx, d) /\ d \notin live /\ d \notin ended /\ d <= arrived
      /\ \A k \in Lcore : k # w => ~Holds(k, d)
  <2>1. Holds(w, d)
    BY <1>a DEF Holds
  <2> QED
    BY <1>0, <1>1, <2>1, Placed
<1>5. /\ Moves(w, to) /\ lcore[w].msg = d
      /\ pfcpFree' = pfcpFree - 1
      /\ UNCHANGED <<poolFree, rx, tx, txnFree, slots, live, arrived, ended>>
  BY <1>a
<1>6. NoDanglingTransaction' /\ txnFree' \in 0 .. TxnCap /\ slots' \in [1 .. TxnCap -> Datagram \cup {0}]
  <2>1. \A m : (m \in live' \/ (to.at \in TxnAt(w) /\ to.msg = m))
             <=> (m \in live \/ (lcore[w].at \in TxnAt(w) /\ lcore[w].msg = m))
    BY <1>0, <1>1, <1>2, <1>5 DEF TxnAt
  <2> QED
    BY <1>0, <1>5, <2>1, SameTransactions
<1>7. \A m \in Datagram : InOnePlace(m)'
  <2>1. \A m : (In(rx, m)' <=> In(rx, m)) /\ (In(tx, m)' <=> In(tx, m))
    BY <1>5 DEF In
  <2>2. ASSUME NEW m \in Datagram, m # d PROVE Elsewhere(m)
    BY <1>1, <1>5, <2>1, <2>2 DEF Elsewhere
  <2>3. NowAt(to, d)
    BY <1>1, <1>2, <1>3, <1>5, <2>1 DEF NowAt
  <2> QED
    BY <1>0, <1>1, <1>2, <1>3, <1>5, <2>2, <2>3, Relocated
<1>8. PoolStep(w, to) /\ PfcpStep(w, to)
  <2>1. Uses(w, to) = 1 /\ Uses(w, lcore[w]) = 1
    BY <1>0, <1>2 DEF Uses, Ind, InPool
  <2>2. Ind(to.at \in InPfcp) = 1 /\ Ind(lcore[w].at \in InPfcp) = 0
    BY <1>2 DEF Ind, InPfcp
  <2>3. live' = live /\ Cardinality(live) \in Nat
    BY <1>0, <1>5, LiveFinite
  <2>4. PoolStep(w, to)
    BY <1>0, <1>1, <1>5, <2>1 DEF PoolStep, DispatchTypeOK
  <2>5. PfcpStep(w, to)
    BY <1>0, <1>5, <2>2, <2>3 DEF PfcpStep, DispatchTypeOK
  <2> QED
    BY <2>4, <2>5
<1>9. DestroyedIsOver'
  BY <1>0, <1>1, <1>2, <1>5, OverKept DEF In
<1>10. /\ rx' \in Seq(Datagram) /\ Len(rx') < RingSize /\ Distinct(rx')
       /\ tx' \in Seq(Datagram) /\ Len(tx') < RingSize /\ Distinct(tx')
       /\ poolFree' \in Nat /\ pfcpFree' \in Nat /\ arrived' \in 0 .. MaxRx
       /\ live' \subseteq Datagram /\ ended' \subseteq Datagram
  BY <1>0, <1>1, <1>5, Finite DEF DispatchTypeOK, DispatchInv, Datagram
<1> QED
  BY <1>0, <1>1, <1>2, <1>5, <1>6, <1>7, <1>8, <1>9, <1>10, StepKeeps

(* or has found a slot for its transaction.                                *)
LEMMA HandleClaimsKeeps ==
  ASSUME DispatchInv, NEW w \in Worker,
         lcore[w].at = "handle", pfcpFree > 0, FirstFree \in 1 .. TxnCap,
         Moves(w, At("claim", lcore[w].msg, FirstFree)), pfcpFree' = pfcpFree - 1,
         UNCHANGED <<poolFree, rx, tx, txnFree, slots, live, arrived, ended>>
  PROVE  DispatchInv'
<1>a. PICK d, to : d = lcore[w].msg /\ to = At("claim", lcore[w].msg, FirstFree)
  OBVIOUS
<1>0. DispatchTypeOK /\ LcoreOK(w) /\ w \in Lcore /\ w # Io
  BY Finite DEF DispatchInv
<1>1. d \in Datagram /\ d # 0
  BY <1>a, <1>0 DEF LcoreOK, DispatchTypeOK
<1>2. /\ to.at = "claim" /\ to.msg = d /\ to \in LcoreRecord
      /\ to.at \in IF w = Io THEN IoAt ELSE WorkerAt
      /\ (to = Idle <=> to.at = "idle") /\ (lcore[w] = Idle <=> lcore[w].at = "idle")
  BY <1>a, <1>0, <1>1, Finite DEF LcoreOK, LcoreRecord, At, Idle, Step, IoAt, WorkerAt
<1>3. /\ ~In(rx, d) /\ ~In(tx, d) /\ d \notin live /\ d \notin ended /\ d <= arrived
      /\ \A k \in Lcore : k # w => ~Holds(k, d)
  <2>1. Holds(w, d)
    BY <1>a DEF Holds
  <2> QED
    BY <1>0, <1>1, <2>1, Placed
<1>5. /\ Moves(w, to) /\ lcore[w].msg = d
      /\ pfcpFree' = pfcpFree - 1
      /\ UNCHANGED <<poolFree, rx, tx, txnFree, slots, live, arrived, ended>>
  BY <1>a
<1>6. NoDanglingTransaction' /\ txnFree' \in 0 .. TxnCap /\ slots' \in [1 .. TxnCap -> Datagram \cup {0}]
  <2>1. \A m : (m \in live' \/ (to.at \in TxnAt(w) /\ to.msg = m))
             <=> (m \in live \/ (lcore[w].at \in TxnAt(w) /\ lcore[w].msg = m))
    BY <1>0, <1>1, <1>2, <1>5 DEF TxnAt
  <2> QED
    BY <1>0, <1>5, <2>1, SameTransactions
<1>7. \A m \in Datagram : InOnePlace(m)'
  <2>1. \A m : (In(rx, m)' <=> In(rx, m)) /\ (In(tx, m)' <=> In(tx, m))
    BY <1>5 DEF In
  <2>2. ASSUME NEW m \in Datagram, m # d PROVE Elsewhere(m)
    BY <1>1, <1>5, <2>1, <2>2 DEF Elsewhere
  <2>3. NowAt(to, d)
    BY <1>1, <1>2, <1>3, <1>5, <2>1 DEF NowAt
  <2> QED
    BY <1>0, <1>1, <1>2, <1>3, <1>5, <2>2, <2>3, Relocated
<1>8. PoolStep(w, to) /\ PfcpStep(w, to)
  <2>1. Uses(w, to) = 1 /\ Uses(w, lcore[w]) = 1
    BY <1>0, <1>2 DEF Uses, Ind, InPool
  <2>2. Ind(to.at \in InPfcp) = 1 /\ Ind(lcore[w].at \in InPfcp) = 0
    BY <1>2 DEF Ind, InPfcp
  <2>3. live' = live /\ Cardinality(live) \in Nat
    BY <1>0, <1>5, LiveFinite
  <2>4. PoolStep(w, to)
    BY <1>0, <1>1, <1>5, <2>1 DEF PoolStep, DispatchTypeOK
  <2>5. PfcpStep(w, to)
    BY <1>0, <1>5, <2>2, <2>3 DEF PfcpStep, DispatchTypeOK
  <2> QED
    BY <2>4, <2>5
<1>9. DestroyedIsOver'
  BY <1>0, <1>1, <1>2, <1>5, OverKept DEF In
<1>10. /\ rx' \in Seq(Datagram) /\ Len(rx') < RingSize /\ Distinct(rx')
       /\ tx' \in Seq(Datagram) /\ Len(tx') < RingSize /\ Distinct(tx')
       /\ poolFree' \in Nat /\ pfcpFree' \in Nat /\ arrived' \in 0 .. MaxRx
       /\ live' \subseteq Datagram /\ ended' \subseteq Datagram
  BY <1>0, <1>1, <1>5, Finite DEF DispatchTypeOK, DispatchInv, Datagram
<1> QED
  BY <1>0, <1>1, <1>2, <1>5, <1>6, <1>7, <1>8, <1>9, <1>10, StepKeeps

(* v_port_txn_create() fills the slot,                                     *)
LEMMA CreateFillsKeeps ==
  ASSUME DispatchInv, NEW w \in Worker,
         lcore[w].at = "claim", txnFree > 0, Moves(w, At("start", lcore[w].msg, 0)),
         txnFree' = txnFree - 1, slots' = [slots EXCEPT ![lcore[w].slot] = lcore[w].msg],
         UNCHANGED <<poolFree, rx, tx, pfcpFree, live, arrived, ended>>
  PROVE  DispatchInv'
<1>a. PICK d, to : d = lcore[w].msg /\ to = At("start", lcore[w].msg, 0)
  OBVIOUS
<1>0. DispatchTypeOK /\ LcoreOK(w) /\ w \in Lcore /\ w # Io
  BY Finite DEF DispatchInv
<1>1. d \in Datagram /\ d # 0
  BY <1>a, <1>0 DEF LcoreOK, DispatchTypeOK
<1>2. /\ to.at = "start" /\ to.msg = d /\ to \in LcoreRecord
      /\ to.at \in IF w = Io THEN IoAt ELSE WorkerAt
      /\ (to = Idle <=> to.at = "idle") /\ (lcore[w] = Idle <=> lcore[w].at = "idle")
  BY <1>a, <1>0, <1>1, Finite DEF LcoreOK, LcoreRecord, At, Idle, Step, IoAt, WorkerAt
<1>3. /\ ~In(rx, d) /\ ~In(tx, d) /\ d \notin live /\ d \notin ended /\ d <= arrived
      /\ \A k \in Lcore : k # w => ~Holds(k, d)
  <2>1. Holds(w, d)
    BY <1>a DEF Holds
  <2> QED
    BY <1>0, <1>1, <2>1, Placed
<1>5. /\ Moves(w, to) /\ lcore[w].msg = d
      /\ txnFree' = txnFree - 1 /\ slots' = [slots EXCEPT ![lcore[w].slot] = d]
      /\ UNCHANGED <<poolFree, rx, tx, pfcpFree, live, arrived, ended>>
  BY <1>a
<1>6. NoDanglingTransaction' /\ txnFree' \in 0 .. TxnCap /\ slots' \in [1 .. TxnCap -> Datagram \cup {0}]
  <2>1. to.at \in TxnAt(w) /\ lcore[w].at \notin TxnAt(w)
    BY <1>0, <1>2 DEF TxnAt
  <2> QED
    BY <1>0, <1>1, <1>2, <1>5, <2>1, NewTransaction
<1>7. \A m \in Datagram : InOnePlace(m)'
  <2>1. \A m : (In(rx, m)' <=> In(rx, m)) /\ (In(tx, m)' <=> In(tx, m))
    BY <1>5 DEF In
  <2>2. ASSUME NEW m \in Datagram, m # d PROVE Elsewhere(m)
    BY <1>1, <1>5, <2>1, <2>2 DEF Elsewhere
  <2>3. NowAt(to, d)
    BY <1>1, <1>2, <1>3, <1>5, <2>1 DEF NowAt
  <2> QED
    BY <1>0, <1>1, <1>2, <1>3, <1>5, <2>2, <2>3, Relocated
<1>8. PoolStep(w, to) /\ PfcpStep(w, to)
  <2>1. Uses(w, to) = 1 /\ Uses(w, lcore[w]) = 1
    BY <1>0, <1>2 DEF Uses, Ind, InPool
  <2>2. Ind(to.at \in InPfcp) = 1 /\ Ind(lcore[w].at \in InPfcp) = 1
    BY <1>2 DEF Ind, InPfcp
  <2>3. live' = live /\ Cardinality(live) \in Nat
    BY <1>0, <1>5, LiveFinite
  <2>4. PoolStep(w, to)
    BY <1>0, <1>1, <1>5, <2>1 DEF PoolStep, DispatchTypeOK
  <2>5. PfcpStep(w, to)
    BY <1>0, <1>5, <2>2, <2>3 DEF PfcpStep, DispatchTypeOK
  <2> QED
    BY <2>4, <2>5
<1>9. DestroyedIsOver'
  BY <1>0, <1>1, <1>2, <1>5, OverKept DEF In
<1>10. /\ rx' \in Seq(Datagram) /\ Len(rx') < RingSize /\ Distinct(rx')
       /\ tx' \in Seq(Datagram) /\ Len(tx') < RingSize /\ Distinct(tx')
       /\ poolFree' \in Nat /\ pfcpFree' \in Nat /\ arrived' \in 0 .. MaxRx
       /\ live' \subseteq Datagram /\ ended' \subseteq Datagram
  BY <1>0, <1>1, <1>5, Finite DEF DispatchTypeOK, DispatchInv, Datagram
<1> QED
  BY <1>0, <1>1, <1>2, <1>5, <1>6, <1>7, <1>8, <1>9, <1>10, StepKeeps

(* or finds the pool empty.                                                *)
LEMMA CreateFailsKeeps ==
  ASSUME DispatchInv, NEW w \in Worker,
         lcore[w].at = "claim", Moves(w, At("release", 0, 0)), pfcpFree' = pfcpFree + 1,
         ended' = ended \cup {lcore[w].msg},
         UNCHANGED <<poolFree, rx, tx, txnFree, slots, live, arrived>>
  PROVE  DispatchInv'
<1>a. PICK d, to : d = lcore[w].msg /\ to = At("release", 0, 0)
  OBVIOUS
<1>0. DispatchTypeOK /\ LcoreOK(w) /\ w \in Lcore /\ w # Io
  BY Finite DEF DispatchInv
<1>1. d \in Datagram /\ d # 0
  BY <1>a, <1>0 DEF LcoreOK, DispatchTypeOK
<1>2. /\ to.at = "release" /\ to.msg = 0 /\ to \in LcoreRecord
      /\ to.at \in IF w = Io THEN IoAt ELSE WorkerAt
      /\ (to = Idle <=> to.at = "idle") /\ (lcore[w] = Idle <=> lcore[w].at = "idle")
  BY <1>a, <1>0, <1>1, Finite DEF LcoreOK, LcoreRecord, At, Idle, Step, IoAt, WorkerAt
<1>3. /\ ~In(rx, d) /\ ~In(tx, d) /\ d \notin live /\ d \notin ended /\ d <= arrived
      /\ \A k \in Lcore : k # w => ~Holds(k, d)
  <2>1. Holds(w, d)
    BY <1>a DEF Holds
  <2> QED
    BY <1>0, <1>1, <2>1, Placed
<1>5. /\ Moves(w, to) /\ lcore[w].msg = d
      /\ pfcpFree' = pfcpFree + 1 /\ ended' = ended \cup {d}
      /\ UNCHANGED <<poolFree, rx, tx, txnFree, slots, live, arrived>>
  BY <1>a
<1>6. NoDanglingTransaction' /\ txnFree' \in 0 .. TxnCap /\ slots' \in [1 .. TxnCap -> Datagram \cup {0}]
  <2>1. \A m : (m \in live' \/ (to.at \in TxnAt(w) /\ to.msg = m))
             <=> (m \in live \/ (lcore[w].at \in TxnAt(w) /\ lcore[w].msg = m))
    BY <1>0, <1>1, <1>2, <1>5 DEF TxnAt
  <2> QED
    BY <1>0, <1>5, <2>1, SameTransactions
<1>7. \A m \in Datagram : InOnePlace(m)'
  <2>1. \A m : (In(rx, m)' <=> In(rx, m)) /\ (In(tx, m)' <=> In(tx, m))
    BY <1>5 DEF In
  <2>2. ASSUME NEW m \in Datagram, m # d PROVE Elsewhere(m)
    BY <1>1, <1>5, <2>1, <2>2 DEF Elsewhere
  <2>3. NowAt(to, d)
    BY <1>1, <1>2, <1>3, <1>5, <2>1 DEF NowAt
  <2> QED
    BY <1>0, <1>1, <1>2, <1>3, <1>5, <2>2, <2>3, Relocated
<1>8. PoolStep(w, to) /\ PfcpStep(w, to)
  <2>1. Uses(w, to) = 1 /\ Uses(w, lcore[w]) = 1
    BY <1>0, <1>2 DEF Uses, Ind, InPool
  <2>2. Ind(to.at \in InPfcp) = 0 /\ Ind(lcore[w].at \in InPfcp) = 1
    BY <1>2 DEF Ind, InPfcp
  <2>3. live' = live /\ Cardinality(live) \in Nat
    BY <1>0, <1>5, LiveFinite
  <2>4. PoolStep(w, to)
    BY <1>0, <1>1, <1>5, <2>1 DEF PoolStep, DispatchTypeOK
  <2>5. PfcpStep(w, to)
    BY <1>0, <1>5, <2>2, <2>3 DEF PfcpStep, DispatchTypeOK
  <2> QED
    BY <2>4, <2>5
<1>9. DestroyedIsOver'
  BY <1>0, <1>1, <1>2, <1>5, OverKept DEF In
<1>10. /\ rx' \in Seq(Datagram) /\ Len(rx') < RingSize /\ Distinct(rx')
       /\ tx' \in Seq(Datagram) /\ Len(tx') < RingSize /\ Distinct(tx')
       /\ poolFree' \in Nat /\ pfcpFree' \in Nat /\ arrived' \in 0 .. MaxRx
       /\ live' \subseteq Datagram /\ ended' \subseteq Datagram
  BY <1>0, <1>1, <1>5, Finite DEF DispatchTypeOK, DispatchInv, Datagram
<1> QED
  BY <1>0, <1>1, <1>2, <1>5, <1>6, <1>7, <1>8, <1>9, <1>10, StepKeeps

(* The lookup of a request is sent,                                        *)
LEMMA StartWaitsKeeps ==
  ASSUME DispatchInv, NEW w \in Worker,
         lcore[w].at = "start", Moves(w, At("release", 0, 0)), live' = live \cup {lcore[w].msg},
         UNCHANGED <<poolFree, rx, tx, pfcpFree, txnFree, slots, arrived, ended>>
  PROVE  DispatchInv'
<1>a. PICK d, to : d = lcore[w].msg /\ to = At("release", 0, 0)
  OBVIOUS
<1>0. DispatchTypeOK /\ LcoreOK(w) /\ w \in Lcore /\ w # Io
  BY Finite DEF DispatchInv
<1>1. d \in Datagram /\ d # 0
  BY <1>a, <1>0 DEF LcoreOK, DispatchTypeOK
<1>2. /\ to.at = "release" /\ to.msg = 0 /\ to \in LcoreRecord
      /\ to.at \in IF w = Io THEN IoAt ELSE WorkerAt
      /\ (to = Idle <=> to.at = "idle") /\ (lcore[w] = Idle <=> lcore[w].at = "idle")
  BY <1>a, <1>0, <1>1, Finite DEF LcoreOK, LcoreRecord, At, Idle, Step, IoAt, WorkerAt
<1>3. /\ ~In(rx, d) /\ ~In(tx, d) /\ d \notin live /\ d \notin ended /\ d <= arrived
      /\ \A k \in Lcore : k # w => ~Holds(k, d)
  <2>1. Holds(w, d)
    BY <1>a DEF Holds
  <2> QED
    BY <1>0, <1>1, <2>1, Placed
<1>5. /\ Moves(w, to) /\ lcore[w].msg = d
      /\ live' = live \cup {d}
      /\ UNCHANGED <<poolFree, rx, tx, pfcpFree, txnFree, slots, arrived, ended>>
  BY <1>a
<1>6. NoDanglingTransaction' /\ txnFree' \in 0 .. TxnCap /\ slots' \in [1 .. TxnCap -> Datagram \cup {0}]
  <2>1. \A m : (m \in live' \/ (to.at \in TxnAt(w) /\ to.msg = m))
             <=> (m \in live \/ (lcore[w].at \in TxnAt(w) /\ lcore[w].msg = m))
    BY <1>0, <1>1, <1>2, <1>5 DEF TxnAt
  <2> QED
    BY <1>0, <1>5, <2>1, SameTransactions
<1>7. \A m \in Datagram : InOnePlace(m)'
  <2>1. \A m : (In(rx, m)' <=> In(rx, m)) /\ (In(tx, m)' <=> In(tx, m))
    BY <1>5 DEF In
  <2>2. ASSUME NEW m \in Datagram, m # d PROVE Elsewhere(m)
    BY <1>1, <1>5, <2>1, <2>2 DEF Elsewhere
  <2>3. NowAt(to, d)
    BY <1>1, <1>2, <1>3, <1>5, <2>1 DEF NowAt
  <2> QED
    BY <1>0, <1>1, <1>2, <1>3, <1>5, <2>2, <2>3, Relocated
<1>8. PoolStep(w, to) /\ PfcpStep(w, to)
  <2>1. Uses(w, to) = 1 /\ Uses(w, lcore[w]) = 1
    BY <1>0, <1>2 DEF Uses, Ind, InPool
  <2>2. Ind(to.at \in InPfcp) = 0 /\ Ind(lcore[w].at \in InPfcp) = 1
    BY <1>2 DEF Ind, InPfcp
  <2>3. Cardinality(live') = Cardinality(live) + 1 /\ Cardinality(live) \in Nat
    BY <1>0, <1>3, <1>5, LiveFinite
  <2>4. PoolStep(w, to)
    BY <1>0, <1>1, <1>5, <2>1 DEF PoolStep, DispatchTypeOK
  <2>5. PfcpStep(w, to)
    BY <1>0, <1>5, <2>2, <2>3 DEF PfcpStep, DispatchTypeOK
  <2> QED
    BY <2>4, <2>5
<1>9. DestroyedIsOver'
  BY <1>0, <1>1, <1>2, <1>5, OverKept DEF In
<1>10. /\ rx' \in Seq(Datagram) /\ Len(rx') < RingSize /\ Distinct(rx')
       /\ tx' \in Seq(Datagram) /\ Len(tx') < RingSize /\ Distinct(tx')
       /\ poolFree' \in Nat /\ pfcpFree' \in Nat /\ arrived' \in 0 .. MaxRx
       /\ live' \subseteq Datagram /\ ended' \subseteq Datagram
  BY <1>0, <1>1, <1>5, Finite DEF DispatchTypeOK, DispatchInv, Datagram
<1> QED
  BY <1>0, <1>1, <1>2, <1>5, <1>6, <1>7, <1>8, <1>9, <1>10, StepKeeps

(* or cannot be sent.                                                      *)
LEMMA StartFailsKeeps ==
  ASSUME DispatchInv, NEW w \in Worker,
         lcore[w].at = "start", Moves(w, At("release", 0, 0)), pfcpFree' = pfcpFree + 1,
         ended' = ended \cup {lcore[w].msg}, Destroyed(lcore[w].msg),
         UNCHANGED <<poolFree, rx, tx, live, arrived>>
  PROVE  DispatchInv'
<1>a. PICK d, to : d = lcore[w].msg /\ to = At("release", 0, 0)
  OBVIOUS
<1>0. DispatchTypeOK /\ LcoreOK(w) /\ w \in Lcore /\ w # Io
  BY Finite DEF DispatchInv
<1>1. d \in Datagram /\ d # 0
  BY <1>a, <1>0 DEF LcoreOK, DispatchTypeOK
<1>2. /\ to.at = "release" /\ to.msg = 0 /\ to \in LcoreRecord
      /\ to.at \in IF w = Io THEN IoAt ELSE WorkerAt
      /\ (to = Idle <=> to.at = "idle") /\ (lcore[w] = Idle <=> lcore[w].at = "idle")
  BY <1>a, <1>0, <1>1, Finite DEF LcoreOK, LcoreRecord, At, Idle, Step, IoAt, WorkerAt
<1>3. /\ ~In(rx, d) /\ ~In(tx, d) /\ d \notin live /\ d \notin ended /\ d <= arrived
      /\ \A k \in Lcore : k # w => ~Holds(k, d)
  <2>1. Holds(w, d)
    BY <1>a DEF Holds
  <2> QED
    BY <1>0, <1>1, <2>1, Placed
<1>5. /\ Moves(w, to) /\ lcore[w].msg = d
      /\ pfcpFree' = pfcpFree + 1 /\ ended' = ended \cup {d} /\ Destroyed(d)
      /\ UNCHANGED <<poolFree, rx, tx, live, arrived>>
  BY <1>a
<1>6. NoDanglingTransaction' /\ txnFree' \in 0 .. TxnCap /\ slots' \in [1 .. TxnCap -> Datagram \cup {0}]
  <2>1. to.at \notin TxnAt(w) /\ lcore[w].at \in TxnAt(w)
    BY <1>0, <1>2 DEF TxnAt
  <2>2. d \notin live /\ \A k \in Lcore : k # w => ~(lcore[k].at \in TxnAt(k) /\ lcore[k].msg = d)
    <3>1. ~(lcore[Io].at = "destroy" /\ lcore[Io].msg = d)
      BY <1>3 DEF DispatchInv, DestroyedIsOver
    <3> QED
      BY <1>3, <3>1 DEF Holds, TxnAt
  <2> QED
    BY <1>0, <1>1, <1>5, <2>1, <2>2, OverTransaction
<1>7. \A m \in Datagram : InOnePlace(m)'
  <2>1. \A m : (In(rx, m)' <=> In(rx, m)) /\ (In(tx, m)' <=> In(tx, m))
    BY <1>5 DEF In
  <2>2. ASSUME NEW m \in Datagram, m # d PROVE Elsewhere(m)
    BY <1>1, <1>5, <2>1, <2>2 DEF Elsewhere
  <2>3. NowAt(to, d)
    BY <1>1, <1>2, <1>3, <1>5, <2>1 DEF NowAt
  <2> QED
    BY <1>0, <1>1, <1>2, <1>3, <1>5, <2>2, <2>3, Relocated
<1>8. PoolStep(w, to) /\ PfcpStep(w, to)
  <2>1. Uses(w, to) = 1 /\ Uses(w, lcore[w]) = 1
    BY <1>0, <1>2 DEF Uses, Ind, InPool
  <2>2. Ind(to.at \in InPfcp) = 0 /\ Ind(lcore[w].at \in InPfcp) = 1
    BY <1>2 DEF Ind, InPfcp
  <2>3. live' = live /\ Cardinality(live) \in Nat
    BY <1>0, <1>5, LiveFinite
  <2>4. PoolStep(w, to)
    BY <1>0, <1>1, <1>5, <2>1 DEF PoolStep, DispatchTypeOK
  <2>5. PfcpStep(w, to)
    BY <1>0, <1>5, <2>2, <2>3 DEF PfcpStep, DispatchTypeOK
  <2> QED
    BY <2>4, <2>5
<1>9. DestroyedIsOver'
  BY <1>0, <1>1, <1>2, <1>5, OverKept DEF In
<1>10. /\ rx' \in Seq(Datagram) /\ Len(rx') < RingSize /\ Distinct(rx')
       /\ tx' \in Seq(Datagram) /\ Len(tx') < RingSize /\ Distinct(tx')
       /\ poolFree' \in Nat /\ pfcpFree' \in Nat /\ arrived' \in 0 .. MaxRx
       /\ live' \subseteq Datagram /\ ended' \subseteq Datagram
  BY <1>0, <1>1, <1>5, Finite DEF DispatchTypeOK, DispatchInv, Datagram
<1> QED
  BY <1>0, <1>1, <1>2, <1>5, <1>6, <1>7, <1>8, <1>9, <1>10, StepKeeps

(* v_dispatch_tx_enqueue() takes a message object for a reply,             *)
LEMMA TxTakesKeeps ==
  ASSUME DispatchInv, NEW l \in Lcore,
         lcore[l].at = "tx", poolFree > 0, Moves(l, At("txput", lcore[l].msg, 0)),
         poolFree' = poolFree - 1,
         UNCHANGED <<rx, tx, pfcpFree, txnFree, slots, live, arrived, ended>>
  PROVE  DispatchInv'
<1>a. PICK d, to : d = lcore[l].msg /\ to = At("txput", lcore[l].msg, 0)
  OBVIOUS
<1>0. DispatchTypeOK /\ LcoreOK(l) /\ l \in Lcore
  BY Finite DEF DispatchInv
<1>1. d \in Datagram /\ d # 0
  BY <1>a, <1>0 DEF LcoreOK, DispatchTypeOK
<1>2. /\ to.at = "txput" /\ to.msg = d /\ to \in LcoreRecord
      /\ to.at \in IF l = Io THEN IoAt ELSE WorkerAt
      /\ (to = Idle <=> to.at = "idle") /\ (lcore[l] = Idle <=> lcore[l].at = "idle")
  BY <1>a, <1>0, <1>1, Finite DEF LcoreOK, LcoreRecord, At, Idle, Step, IoAt, WorkerAt
<1>3. /\ ~In(rx, d) /\ ~In(tx, d) /\ d \notin live /\ d \notin ended /\ d <= arrived
      /\ \A k \in Lcore : k # l => ~Holds(k, d)
  <2>1. Holds(l, d)
    BY <1>a DEF Holds
  <2> QED
    BY <1>0, <1>1, <2>1, Placed
<1>5. /\ Moves(l, to) /\ lcore[l].msg = d
      /\ poolFree' = poolFree - 1
      /\ UNCHANGED <<rx, tx, pfcpFree, txnFree, slots, live, arrived, ended>>
  BY <1>a
<1>6. NoDanglingTransaction' /\ txnFree' \in 0 .. TxnCap /\ slots' \in [1 .. TxnCap -> Datagram \cup {0}]
  <2>1. \A m : (m \in live' \/ (to.at \in TxnAt(l) /\ to.msg = m))
             <=> (m \in live \/ (lcore[l].at \in TxnAt(l) /\ lcore[l].msg = m))
    BY <1>0, <1>1, <1>2, <1>5 DEF TxnAt
  <2> QED
    BY <1>0, <1>5, <2>1, SameTransactions
<1>7. \A m \in Datagram : InOnePlace(m)'
  <2>1. \A m : (In(rx, m)' <=> In(rx, m)) /\ (In(tx, m)' <=> In(tx, m))
    BY <1>5 DEF In
  <2>2. ASSUME NEW m \in Datagram, m # d PROVE Elsewhere(m)
    BY <1>1, <1>5, <2>1, <2>2 DEF Elsewhere
  <2>3. NowAt(to, d)
    BY <1>1, <1>2, <1>3, <1>5, <2>1 DEF NowAt
  <2> QED
    BY <1>0, <1>1, <1>2, <1>3, <1>5, <2>2, <2>3, Relocated
<1>8. PoolStep(l, to) /\ PfcpStep(l, to)
  <2>1. Uses(l, to) = Uses(l, lcore[l]) + 1 /\ Uses(l, lcore[l]) \in Nat
    BY <1>0, <1>2 DEF Uses, Ind, InPool
  <2>2. Ind(to.at \in InPfcp) = 1 /\ Ind(lcore[l].at \in InPfcp) = 1
    BY <1>2 DEF Ind, InPfcp
  <2>3. live' = live /\ Cardinality(live) \in Nat
    BY <1>0, <1>5, LiveFinite
  <2>4. PoolStep(l, to)
    BY <1>0, <1>1, <1>5, <2>1 DEF PoolStep, DispatchTypeOK
  <2>5. PfcpStep(l, to)
    BY <1>0, <1>5, <2>2, <2>3 DEF PfcpStep, DispatchTypeOK
  <2> QED
    BY <2>4, <2>5
<1>9. DestroyedIsOver'
  BY <1>0, <1>1, <1>2, <1>5, OverKept DEF In
<1>10. /\ rx' \in Seq(Datagram) /\ Len(rx') < RingSize /\ Distinct(rx')
       /\ tx' \in Seq(Datagram) /\ Len(tx') < RingSize /\ Distinct(tx')
       /\ poolFree' \in Nat /\ pfcpFree' \in Nat /\ arrived' \in 0 .. MaxRx
       /\ live' \subseteq Datagram /\ ended' \subseteq Datagram
  BY <1>0, <1>1, <1>5, Finite DEF DispatchTypeOK, DispatchInv, Datagram
<1> QED
  BY <1>0, <1>1, <1>2, <1>5, <1>6, <1>7, <1>8, <1>9, <1>10, StepKeeps

(* or finds none: a worker has its reply lost,                             *)
LEMMA TxEmptyWorkerKeeps ==
  ASSUME DispatchInv, NEW w \in Worker,
         lcore[w].at = "tx", Moves(w, At("release", 0, 0)), pfcpFree' = pfcpFree + 1,
         ended' = ended \cup {lcore[w].msg},
         UNCHANGED <<poolFree, rx, tx, txnFree, slots, live, arrived>>
  PROVE  DispatchInv'
<1>a. PICK d, to : d = lcore[w].msg /\ to = At("release", 0, 0)
  OBVIOUS
<1>0. DispatchTypeOK /\ LcoreOK(w) /\ w \in Lcore /\ w # Io
  BY Finite DEF DispatchInv
<1>1. d \in Datagram /\ d # 0
  BY <1>a, <1>0 DEF LcoreOK, DispatchTypeOK
<1>2. /\ to.at = "release" /\ to.msg = 0 /\ to \in LcoreRecord
      /\ to.at \in IF w = Io THEN IoAt ELSE WorkerAt
      /\ (to = Idle <=> to.at = "idle") /\ (lcore[w] = Idle <=> lcore[w].at = "idle")
  BY <1>a, <1>0, <1>1, Finite DEF LcoreOK, LcoreRecord, At, Idle, Step, IoAt, WorkerAt
<1>3. /\ ~In(rx, d) /\ ~In(tx, d) /\ d \notin live /\ d \notin ended /\ d <= arrived
      /\ \A k \in Lcore : k # w => ~Holds(k, d)
  <2>1. Holds(w, d)
    BY <1>a DEF Holds
  <2> QED
    BY <1>0, <1>1, <2>1, Placed
<1>5. /\ Moves(w, to) /\ lcore[w].msg = d
      /\ pfcpFree' = pfcpFree + 1 /\ ended' = ended \cup {d}
      /\ UNCHANGED <<poolFree, rx, tx, txnFree, slots, live, arrived>>
  BY <1>a
<1>6. NoDanglingTransaction' /\ txnFree' \in 0 .. TxnCap /\ slots' \in [1 .. TxnCap -> Datagram \cup {0}]
  <2>1. \A m : (m \in live' \/ (to.at \in TxnAt(w) /\ to.msg = m))
             <=> (m \in live \/ (lcore[w].at \in TxnAt(w) /\ lcore[w].msg = m))
    BY <1>0, <1>1, <1>2, <1>5 DEF TxnAt
  <2> QED
    BY <1>0, <1>5, <2>1, SameTransactions
<1>7. \A m \in Datagram : InOnePlace(m)'
  <2>1. \A m : (In(rx, m)' <=> In(rx, m)) /\ (In(tx, m)' <=> In(tx, m))
    BY <1>5 DEF In
  <2>2. ASSUME NEW m \in Datagram, m # d PROVE Elsewhere(m)
    BY <1>1, <1>5, <2>1, <2>2 DEF Elsewhere
  <2>3. NowAt(to, d)
    BY <1>1, <1>2, <1>3, <1>5, <2>1 DEF NowAt
  <2> QED
    BY <1>0, <1>1, <1>2, <1>3, <1>5, <2>2, <2>3, Relocated
<1>8. PoolStep(w, to) /\ PfcpStep(w, to)
  <2>1. Uses(w, to) = 1 /\ Uses(w, lcore[w]) = 1
    BY <1>0, <1>2 DEF Uses, Ind, InPool
  <2>2. Ind(to.at \in InPfcp) = 0 /\ Ind(lcore[w].at \in InPfcp) = 1
    BY <1>2 DEF Ind, InPfcp
  <2>3. live' = live /\ Cardinality(live) \in Nat
    BY <1>0, <1>5, LiveFinite
  <2>4. PoolStep(w, to)
    BY <1>0, <1>1, <1>5, <2>1 DEF PoolStep, DispatchTypeOK
  <2>5. PfcpStep(w, to)
    BY <1>0, <1>5, <2>2, <2>3 DEF PfcpStep, DispatchTypeOK
  <2> QED
    BY <2>4, <2>5
<1>9. DestroyedIsOver'
  BY <1>0, <1>1, <1>2, <1>5, OverKept DEF In
<1>10. /\ rx' \in Seq(Datagram) /\ Len(rx') < RingSize /\ Distinct(rx')
       /\ tx' \in Seq(Datagram) /\ Len(tx') < RingSize /\ Distinct(tx')
       /\ poolFree' \in Nat /\ pfcpFree' \in Nat /\ arrived' \in 0 .. MaxRx
       /\ live' \subseteq Datagram /\ ended' \subseteq Datagram
  BY <1>0, <1>1, <1>5, Finite DEF DispatchTypeOK, DispatchInv, Datagram
<1> QED
  BY <1>0, <1>1, <1>2, <1>5, <1>6, <1>7, <1>8, <1>9, <1>10, StepKeeps

(* and so has finish().                                                    *)
LEMMA TxEmptyIoKeeps ==
  ASSUME DispatchInv, 
         lcore[Io].at = "tx", Moves(Io, At("destroy", lcore[Io].msg, 0)),
         ended' = ended \cup {lcore[Io].msg},
         UNCHANGED <<poolFree, rx, tx, pfcpFree, txnFree, slots, live, arrived>>
  PROVE  DispatchInv'
<1>a. PICK d, to : d = lcore[Io].msg /\ to = At("destroy", lcore[Io].msg, 0)
  OBVIOUS
<1>0. DispatchTypeOK /\ LcoreOK(Io) /\ Io \in Lcore
  BY Finite DEF DispatchInv
<1>1. d \in Datagram /\ d # 0
  BY <1>a, <1>0 DEF LcoreOK, DispatchTypeOK
<1>2. /\ to.at = "destroy" /\ to.msg = d /\ to \in LcoreRecord
      /\ to.at \in IF Io = Io THEN IoAt ELSE WorkerAt
      /\ (to = Idle <=> to.at = "idle") /\ (lcore[Io] = Idle <=> lcore[Io].at = "idle")
  BY <1>a, <1>0, <1>1, Finite DEF LcoreOK, LcoreRecord, At, Idle, Step, IoAt, WorkerAt
<1>3. /\ ~In(rx, d) /\ ~In(tx, d) /\ d \notin live /\ d \notin ended /\ d <= arrived
      /\ \A k \in Lcore : k # Io => ~Holds(k, d)
  <2>1. Holds(Io, d)
    BY <1>a DEF Holds
  <2> QED
    BY <1>0, <1>1, <2>1, Placed
<1>5. /\ Moves(Io, to) /\ lcore[Io].msg = d
      /\ ended' = ended \cup {d}
      /\ UNCHANGED <<poolFree, rx, tx, pfcpFree, txnFree, slots, live, arrived>>
  BY <1>a
<1>6. NoDanglingTransaction' /\ txnFree' \in 0 .. TxnCap /\ slots' \in [1 .. TxnCap -> Datagram \cup {0}]
  <2>1. \A m : (m \in live' \/ (to.at \in TxnAt(Io) /\ to.msg = m))
             <=> (m \in live \/ (lcore[Io].at \in TxnAt(Io) /\ lcore[Io].msg = m))
    BY <1>0, <1>1, <1>2, <1>5 DEF TxnAt
  <2> QED
    BY <1>0, <1>5, <2>1, SameTransactions
<1>7. \A m \in Datagram : InOnePlace(m)'
  <2>1. \A m : (In(rx, m)' <=> In(rx, m)) /\ (In(tx, m)' <=> In(tx, m))
    BY <1>5 DEF In
  <2>2. ASSUME NEW m \in Datagram, m # d PROVE Elsewhere(m)
    BY <1>1, <1>5, <2>1, <2>2 DEF Elsewhere
  <2>3. NowAt(to, d)
    BY <1>1, <1>2, <1>3, <1>5, <2>1 DEF NowAt
  <2> QED
    BY <1>0, <1>1, <1>2, <1>3, <1>5, <2>2, <2>3, Relocated
<1>8. PoolStep(Io, to) /\ PfcpStep(Io, to)
  <2>1. Uses(Io, to) = 0 /\ Uses(Io, lcore[Io]) = 0
    BY <1>0, <1>2 DEF Uses, Ind, InPool
  <2>2. Ind(to.at \in InPfcp) = 1 /\ Ind(lcore[Io].at \in InPfcp) = 1
    BY <1>2 DEF Ind, InPfcp
  <2>3. live' = live /\ Cardinality(live) \in Nat
    BY <1>0, <1>5, LiveFinite
  <2>4. PoolStep(Io, to)
    BY <1>0, <1>1, <1>5, <2>1 DEF PoolStep, DispatchTypeOK
  <2>5. PfcpStep(Io, to)
    BY <1>0, <1>5, <2>2, <2>3 DEF PfcpStep, DispatchTypeOK
  <2> QED
    BY <2>4, <2>5
<1>9. DestroyedIsOver'
  BY <1>0, <1>1, <1>2, <1>5, OverKept DEF In
<1>10. /\ rx' \in Seq(Datagram) /\ Len(rx') < RingSize /\ Distinct(rx')
       /\ tx' \in Seq(Datagram) /\ Len(tx') < RingSize /\ Distinct(tx')
       /\ poolFree' \in Nat /\ pfcpFree' \in Nat /\ arrived' \in 0 .. MaxRx
       /\ live' \subseteq Datagram /\ ended' \subseteq Datagram
  BY <1>0, <1>1, <1>5, Finite DEF DispatchTypeOK, DispatchInv, Datagram
<1> QED
  BY <1>0, <1>1, <1>2, <1>5, <1>6, <1>7, <1>8, <1>9, <1>10, StepKeeps

(* The outbound ring is full: a worker's reply is lost,                    *)
LEMMA TxFullWorkerKeeps ==
  ASSUME DispatchInv, NEW w \in Worker,
         lcore[w].at = "txput", Moves(w, At("release", 0, 0)), poolFree' = poolFree + 1,
         pfcpFree' = pfcpFree + 1, ended' = ended \cup {lcore[w].msg},
         UNCHANGED <<rx, tx, txnFree, slots, live, arrived>>
  PROVE  DispatchInv'
<1>a. PICK d, to : d = lcore[w].msg /\ to = At("release", 0, 0)
  OBVIOUS
<1>0. DispatchTypeOK /\ LcoreOK(w) /\ w \in Lcore /\ w # Io
  BY Finite DEF DispatchInv
<1>1. d \in Datagram /\ d # 0
  BY <1>a, <1>0 DEF LcoreOK, DispatchTypeOK
<1>2. /\ to.at = "release" /\ to.msg = 0 /\ to \in LcoreRecord
      /\ to.at \in IF w = Io THEN IoAt ELSE WorkerAt
      /\ (to = Idle <=> to.at = "idle") /\ (lcore[w] = Idle <=> lcore[w].at = "idle")
  BY <1>a, <1>0, <1>1, Finite DEF LcoreOK, LcoreRecord, At, Idle, Step, IoAt, WorkerAt
<1>3. /\ ~In(rx, d) /\ ~In(tx, d) /\ d \notin live /\ d \notin ended /\ d <= arrived
      /\ \A k \in Lcore : k # w => ~Holds(k, d)
  <2>1. Holds(w, d)
    BY <1>a DEF Holds
  <2> QED
    BY <1>0, <1>1, <2>1, Placed
<1>5. /\ Moves(w, to) /\ lcore[w].msg = d
      /\ poolFree' = poolFree + 1 /\ pfcpFree' = pfcpFree + 1 /\ ended' = ended \cup {d}
      /\ UNCHANGED <<rx, tx, txnFree, slots, live, arrived>>
  BY <1>a
<1>6. NoDanglingTransaction' /\ txnFree' \in 0 .. TxnCap /\ slots' \in [1 .. TxnCap -> Datagram \cup {0}]
  <2>1. \A m : (m \in live' \/ (to.at \in TxnAt(w) /\ to.msg = m))
             <=> (m \in live \/ (lcore[w].at \in TxnAt(w) /\ lcore[w].msg = m))
    BY <1>0, <1>1, <1>2, <1>5 DEF TxnAt
  <2> QED
    BY <1>0, <1>5, <2>1, SameTransactions
<1>7. \A m \in Datagram : InOnePlace(m)'
  <2>1. \A m : (In(rx, m)' <=> In(rx, m)) /\ (In(tx, m)' <=> In(tx, m))
    BY <1>5 DEF In
  <2>2. ASSUME NEW m \in Datagram, m # d PROVE Elsewhere(m)
    BY <1>1, <1>5, <2>1, <2>2 DEF Elsewhere
  <2>3. NowAt(to, d)
    BY <1>1, <1>2, <1>3, <1>5, <2>1 DEF NowAt
  <2> QED
    BY <1>0, <1>1, <1>2, <1>3, <1>5, <2>2, <2>3, Relocated
<1>8. PoolStep(w, to) /\ PfcpStep(w, to)
  <2>1. Uses(w, to) = 1 /\ Uses(w, lcore[w]) = 2
    BY <1>0, <1>2 DEF Uses, Ind, InPool
  <2>2. Ind(to.at \in InPfcp) = 0 /\ Ind(lcore[w].at \in InPfcp) = 1
    BY <1>2 DEF Ind, InPfcp
  <2>3. live' = live /\ Cardinality(live) \in Nat
    BY <1>0, <1>5, LiveFinite
  <2>4. PoolStep(w, to)
    BY <1>0, <1>1, <1>5, <2>1 DEF PoolStep, DispatchTypeOK
  <2>5. PfcpStep(w, to)
    BY <1>0, <1>5, <2>2, <2>3 DEF PfcpStep, DispatchTypeOK
  <2> QED
    BY <2>4, <2>5
<1>9. DestroyedIsOver'
  BY <1>0, <1>1, <1>2, <1>5, OverKept DEF In
<1>10. /\ rx' \in Seq(Datagram) /\ Len(rx') < RingSize /\ Distinct(rx')
       /\ tx' \in Seq(Datagram) /\ Len(tx') < RingSize /\ Distinct(tx')
       /\ poolFree' \in Nat /\ pfcpFree' \in Nat /\ arrived' \in 0 .. MaxRx
       /\ live' \subseteq Datagram /\ ended' \subseteq Datagram
  BY <1>0, <1>1, <1>5, Finite DEF DispatchTypeOK, DispatchInv, Datagram
<1> QED
  BY <1>0, <1>1, <1>2, <1>5, <1>6, <1>7, <1>8, <1>9, <1>10, StepKeeps

(* and so is finish()'s.                                                   *)
LEMMA TxFullIoKeeps ==
  ASSUME DispatchInv, 
         lcore[Io].at = "txput", Moves(Io, At("destroy", lcore[Io].msg, 0)),
         poolFree' = poolFree + 1, ended' = ended \cup {lcore[Io].msg},
         UNCHANGED <<rx, tx, pfcpFree, txnFree, slots, live, arrived>>
  PROVE  DispatchInv'
<1>a. PICK d, to : d = lcore[Io].msg /\ to = At("destroy", lcore[Io].msg, 0)
  OBVIOUS
<1>0. DispatchTypeOK /\ LcoreOK(Io) /\ Io \in Lcore
  BY Finite DEF DispatchInv
<1>1. d \in Datagram /\ d # 0
  BY <1>a, <1>0 DEF LcoreOK, DispatchTypeOK
<1>2. /\ to.at = "destroy" /\ to.msg = d /\ to \in LcoreRecord
      /\ to.at \in IF Io = Io THEN IoAt ELSE WorkerAt
      /\ (to = Idle <=> to.at = "idle") /\ (lcore[Io] = Idle <=> lcore[Io].at = "idle")
  BY <1>a, <1>0, <1>1, Finite DEF LcoreOK, LcoreRecord, At, Idle, Step, IoAt, WorkerAt
<1>3. /\ ~In(rx, d) /\ ~In(tx, d) /\ d \notin live /\ d \notin ended /\ d <= arrived
      /\ \A k \in Lcore : k # Io => ~Holds(k, d)
  <2>1. Holds(Io, d)
    BY <1>a DEF Holds
  <2> QED
    BY <1>0, <1>1, <2>1, Placed
<1>5. /\ Moves(Io, to) /\ lcore[Io].msg = d
      /\ poolFree' = poolFree + 1 /\ ended' = ended \cup {d}
      /\ UNCHANGED <<rx, tx, pfcpFree, txnFree, slots, live, arrived>>
  BY <1>a
<1>6. NoDanglingTransaction' /\ txnFree' \in 0 .. TxnCap /\ slots' \in [1 .. TxnCap -> Datagram \cup {0}]
  <2>1. \A m : (m \in live' \/ (to.at \in TxnAt(Io) /\ to.msg = m))
             <=> (m \in live \/ (lcore[Io].at \in TxnAt(Io) /\ lcore[Io].msg = m))
    BY <1>0, <1>1, <1>2, <1>5 DEF TxnAt
  <2> QED
    BY <1>0, <1>5, <2>1, SameTransactions
<1>7. \A m \in Datagram : InOnePlace(m)'
  <2>1. \A m : (In(rx, m)' <=> In(rx, m)) /\ (In(tx, m)' <=> In(tx, m))
    BY <1>5 DEF In
  <2>2. ASSUME NEW m \in Datagram, m # d PROVE Elsewhere(m)
    BY <1>1, <1>5, <2>1, <2>2 DEF Elsewhere
  <2>3. NowAt(to, d)
    BY <1>1, <1>2, <1>3, <1>5, <2>1 DEF NowAt
  <2> QED
    BY <1>0, <1>1, <1>2, <1>3, <1>5, <2>2, <2>3, Relocated
<1>8. PoolStep(Io, to) /\ PfcpStep(Io, to)
  <2>1. Uses(Io, to) = 0 /\ Uses(Io, lcore[Io]) = 1
    BY <1>0, <1>2 DEF Uses, Ind, InPool
  <2>2. Ind(to.at \in InPfcp) = 1 /\ Ind(lcore[Io].at \in InPfcp) = 1
    BY <1>2 DEF Ind, InPfcp
  <2>3. live' = live /\ Cardinality(live) \in Nat
    BY <1>0, <1>5, LiveFinite
  <2>4. PoolStep(Io, to)
    BY <1>0, <1>1, <1>5, <2>1 DEF PoolStep, DispatchTypeOK
  <2>5. PfcpStep(Io, to)
    BY <1>0, <1>5, <2>2, <2>3 DEF PfcpStep, DispatchTypeOK
  <2> QED
    BY <2>4, <2>5
<1>9. DestroyedIsOver'
  BY <1>0, <1>1, <1>2, <1>5, OverKept DEF In
<1>10. /\ rx' \in Seq(Datagram) /\ Len(rx') < RingSize /\ Distinct(rx')
       /\ tx' \in Seq(Datagram) /\ Len(tx') < RingSize /\ Distinct(tx')
       /\ poolFree' \in Nat /\ pfcpFree' \in Nat /\ arrived' \in 0 .. MaxRx
       /\ live' \subseteq Datagram /\ ended' \subseteq Datagram
  BY <1>0, <1>1, <1>5, Finite DEF DispatchTypeOK, DispatchInv, Datagram
<1> QED
  BY <1>0, <1>1, <1>2, <1>5, <1>6, <1>7, <1>8, <1>9, <1>10, StepKeeps

(* A worker's reply is queued,                                             *)
LEMMA TxQueuesWorkerKeeps ==
  ASSUME DispatchInv, NEW w \in Worker,
         lcore[w].at = "txput", ~Full(tx), Moves(w, At("release", 0, 0)),
         tx' = Append(tx, lcore[w].msg), pfcpFree' = pfcpFree + 1,
         UNCHANGED <<poolFree, rx, txnFree, slots, live, arrived, ended>>
  PROVE  DispatchInv'
<1>a. PICK d, to : d = lcore[w].msg /\ to = At("release", 0, 0)
  OBVIOUS
<1>0. DispatchTypeOK /\ LcoreOK(w) /\ w \in Lcore /\ w # Io
  BY Finite DEF DispatchInv
<1>1. d \in Datagram /\ d # 0
  BY <1>a, <1>0 DEF LcoreOK, DispatchTypeOK
<1>2. /\ to.at = "release" /\ to.msg = 0 /\ to \in LcoreRecord
      /\ to.at \in IF w = Io THEN IoAt ELSE WorkerAt
      /\ (to = Idle <=> to.at = "idle") /\ (lcore[w] = Idle <=> lcore[w].at = "idle")
  BY <1>a, <1>0, <1>1, Finite DEF LcoreOK, LcoreRecord, At, Idle, Step, IoAt, WorkerAt
<1>3. /\ ~In(rx, d) /\ ~In(tx, d) /\ d \notin live /\ d \notin ended /\ d <= arrived
      /\ \A k \in Lcore : k # w => ~Holds(k, d)
  <2>1. Holds(w, d)
    BY <1>a DEF Holds
  <2> QED
    BY <1>0, <1>1, <2>1, Placed
<1>4. /\ tx' \in Seq(Datagram) /\ Len(tx') = Len(tx) + 1 /\ Distinct(tx') /\ Len(tx') < RingSize
      /\ \A m : In(tx, m)' <=> In(tx, m) \/ m = d
  BY <1>a, <1>1, <1>3, PutInTx
<1>5. /\ Moves(w, to) /\ lcore[w].msg = d
      /\ tx' = Append(tx, d) /\ pfcpFree' = pfcpFree + 1
      /\ UNCHANGED <<poolFree, rx, txnFree, slots, live, arrived, ended>>
  BY <1>a
<1>6. NoDanglingTransaction' /\ txnFree' \in 0 .. TxnCap /\ slots' \in [1 .. TxnCap -> Datagram \cup {0}]
  <2>1. \A m : (m \in live' \/ (to.at \in TxnAt(w) /\ to.msg = m))
             <=> (m \in live \/ (lcore[w].at \in TxnAt(w) /\ lcore[w].msg = m))
    BY <1>0, <1>1, <1>2, <1>5 DEF TxnAt
  <2> QED
    BY <1>0, <1>5, <2>1, SameTransactions
<1>7. \A m \in Datagram : InOnePlace(m)'
  <2>1. \A m : (In(rx, m)' <=> In(rx, m))
    BY <1>5 DEF In
  <2>2. ASSUME NEW m \in Datagram, m # d PROVE Elsewhere(m)
    BY <1>1, <1>4, <1>5, <2>1, <2>2 DEF Elsewhere
  <2>3. NowAt(to, d)
    BY <1>1, <1>4, <1>2, <1>3, <1>5, <2>1 DEF NowAt
  <2> QED
    BY <1>0, <1>1, <1>2, <1>3, <1>5, <2>2, <2>3, Relocated
<1>8. PoolStep(w, to) /\ PfcpStep(w, to)
  <2>1. Uses(w, to) = 1 /\ Uses(w, lcore[w]) = 2
    BY <1>0, <1>2 DEF Uses, Ind, InPool
  <2>2. Ind(to.at \in InPfcp) = 0 /\ Ind(lcore[w].at \in InPfcp) = 1
    BY <1>2 DEF Ind, InPfcp
  <2>3. live' = live /\ Cardinality(live) \in Nat
    BY <1>0, <1>5, LiveFinite
  <2>4. PoolStep(w, to)
    BY <1>0, <1>1, <1>4, <1>5, <2>1 DEF PoolStep, DispatchTypeOK
  <2>5. PfcpStep(w, to)
    BY <1>0, <1>5, <2>2, <2>3 DEF PfcpStep, DispatchTypeOK
  <2> QED
    BY <2>4, <2>5
<1>9. DestroyedIsOver'
  BY <1>0, <1>1, <1>4, <1>2, <1>5, OverKept
<1>10. /\ rx' \in Seq(Datagram) /\ Len(rx') < RingSize /\ Distinct(rx')
       /\ tx' \in Seq(Datagram) /\ Len(tx') < RingSize /\ Distinct(tx')
       /\ poolFree' \in Nat /\ pfcpFree' \in Nat /\ arrived' \in 0 .. MaxRx
       /\ live' \subseteq Datagram /\ ended' \subseteq Datagram
  BY <1>0, <1>1, <1>4, <1>5, Finite DEF DispatchTypeOK, DispatchInv, Datagram
<1> QED
  BY <1>0, <1>1, <1>2, <1>5, <1>6, <1>7, <1>8, <1>9, <1>10, StepKeeps

(* and finish()'s.                                                         *)
LEMMA TxQueuesIoKeeps ==
  ASSUME DispatchInv, 
         lcore[Io].at = "txput", ~Full(tx), Moves(Io, At("destroy", lcore[Io].msg, 0)),
         tx' = Append(tx, lcore[Io].msg),
         UNCHANGED <<poolFree, rx, pfcpFree, txnFree, slots, live, arrived, ended>>
  PROVE  DispatchInv'
<1>a. PICK d, to : d = lcore[Io].msg /\ to = At("destroy", lcore[Io].msg, 0)
  OBVIOUS
<1>0. DispatchTypeOK /\ LcoreOK(Io) /\ Io \in Lcore
  BY Finite DEF DispatchInv
<1>1. d \in Datagram /\ d # 0
  BY <1>a, <1>0 DEF LcoreOK, DispatchTypeOK
<1>2. /\ to.at = "destroy" /\ to.msg = d /\ to \in LcoreRecord
      /\ to.at \in IF Io = Io THEN IoAt ELSE WorkerAt
      /\ (to = Idle <=> to.at = "idle") /\ (lcore[Io] = Idle <=> lcore[Io].at = "idle")
  BY <1>a, <1>0, <1>1, Finite DEF LcoreOK, LcoreRecord, At, Idle, Step, IoAt, WorkerAt
<1>3. /\ ~In(rx, d) /\ ~In(tx, d) /\ d \notin live /\ d \notin ended /\ d <= arrived
      /\ \A k \in Lcore : k # Io => ~Holds(k, d)
  <2>1. Holds(Io, d)
    BY <1>a DEF Holds
  <2> QED
    BY <1>0, <1>1, <2>1, Placed
<1>4. /\ tx' \in Seq(Datagram) /\ Len(tx') = Len(tx) + 1 /\ Distinct(tx') /\ Len(tx') < RingSize
      /\ \A m : In(tx, m)' <=> In(tx, m) \/ m = d
  BY <1>a, <1>1, <1>3, PutInTx
<1>5. /\ Moves(Io, to) /\ lcore[Io].msg = d
      /\ tx' = Append(tx, d)
      /\ UNCHANGED <<poolFree, rx, pfcpFree, txnFree, slots, live, arrived, ended>>
  BY <1>a
<1>6. NoDanglingTransaction' /\ txnFree' \in 0 .. TxnCap /\ slots' \in [1 .. TxnCap -> Datagram \cup {0}]
  <2>1. \A m : (m \in live' \/ (to.at \in TxnAt(Io) /\ to.msg = m))
             <=> (m \in live \/ (lcore[Io].at \in TxnAt(Io) /\ lcore[Io].msg = m))
    BY <1>0, <1>1, <1>2, <1>5 DEF TxnAt
  <2> QED
    BY <1>0, <1>5, <2>1, SameTransactions
<1>7. \A m \in Datagram : InOnePlace(m)'
  <2>1. \A m : (In(rx, m)' <=> In(rx, m))
    BY <1>5 DEF In
  <2>2. ASSUME NEW m \in Datagram, m # d PROVE Elsewhere(m)
    BY <1>1, <1>4, <1>5, <2>1, <2>2 DEF Elsewhere
  <2>3. NowAt(to, d)
    BY <1>1, <1>4, <1>2, <1>3, <1>5, <2>1 DEF NowAt
  <2> QED
    BY <1>0, <1>1, <1>2, <1>3, <1>5, <2>2, <2>3, Relocated
<1>8. PoolStep(Io, to) /\ PfcpStep(Io, to)
  <2>1. Uses(Io, to) = 0 /\ Uses(Io, lcore[Io]) = 1
    BY <1>0, <1>2 DEF Uses, Ind, InPool
  <2>2. Ind(to.at \in InPfcp) = 1 /\ Ind(lcore[Io].at \in InPfcp) = 1
    BY <1>2 DEF Ind, InPfcp
  <2>3. live' = live /\ Cardinality(live) \in Nat
    BY <1>0, <1>5, LiveFinite
  <2>4. PoolStep(Io, to)
    BY <1>0, <1>1, <1>4, <1>5, <2>1 DEF PoolStep, DispatchTypeOK
  <2>5. PfcpStep(Io, to)
    BY <1>0, <1>5, <2>2, <2>3 DEF PfcpStep, DispatchTypeOK
  <2> QED
    BY <2>4, <2>5
<1>9. DestroyedIsOver'
  BY <1>0, <1>1, <1>4, <1>2, <1>5, OverKept
<1>10. /\ rx' \in Seq(Datagram) /\ Len(rx') < RingSize /\ Distinct(rx')
       /\ tx' \in Seq(Datagram) /\ Len(tx') < RingSize /\ Distinct(tx')
       /\ poolFree' \in Nat /\ pfcpFree' \in Nat /\ arrived' \in 0 .. MaxRx
       /\ live' \subseteq Datagram /\ ended' \subseteq Datagram
  BY <1>0, <1>1, <1>4, <1>5, Finite DEF DispatchTypeOK, DispatchInv, Datagram
<1> QED
  BY <1>0, <1>1, <1>2, <1>5, <1>6, <1>7, <1>8, <1>9, <1>10, StepKeeps

(* finish() has a reply to send,                                           *)
LEMMA FinishRepliesKeeps ==
  ASSUME DispatchInv, NEW e \in live,
         lcore[Io].at = "idle", Moves(Io, At("tx", e, 0)), live' = live \ {e},
         UNCHANGED <<poolFree, rx, tx, pfcpFree, txnFree, slots, arrived, ended>>
  PROVE  DispatchInv'
<1>a. PICK d, to : d = e /\ to = At("tx", e, 0)
  OBVIOUS
<1>0. DispatchTypeOK /\ LcoreOK(Io) /\ Io \in Lcore
  BY Finite DEF DispatchInv
<1>1. d \in Datagram /\ d # 0 /\ lcore[Io].msg = 0 /\ d \in live
  BY <1>a, <1>0, Finite DEF LcoreOK, DispatchTypeOK
<1>2. /\ to.at = "tx" /\ to.msg = d /\ to \in LcoreRecord
      /\ to.at \in IF Io = Io THEN IoAt ELSE WorkerAt
      /\ (to = Idle <=> to.at = "idle") /\ (lcore[Io] = Idle <=> lcore[Io].at = "idle")
  BY <1>a, <1>0, <1>1, Finite DEF LcoreOK, LcoreRecord, At, Idle, Step, IoAt, WorkerAt
<1>3. /\ ~In(rx, d) /\ ~In(tx, d) /\ d \notin ended /\ d <= arrived
      /\ \A k \in Lcore : k # Io => ~Holds(k, d)
  BY <1>0, <1>1, Placed
<1>5. /\ Moves(Io, to)
      /\ live' = live \ {d}
      /\ UNCHANGED <<poolFree, rx, tx, pfcpFree, txnFree, slots, arrived, ended>>
  BY <1>a
<1>6. NoDanglingTransaction' /\ txnFree' \in 0 .. TxnCap /\ slots' \in [1 .. TxnCap -> Datagram \cup {0}]
  <2>1. \A m : (m \in live' \/ (to.at \in TxnAt(Io) /\ to.msg = m))
             <=> (m \in live \/ (lcore[Io].at \in TxnAt(Io) /\ lcore[Io].msg = m))
    BY <1>0, <1>1, <1>2, <1>5 DEF TxnAt
  <2> QED
    BY <1>0, <1>5, <2>1, SameTransactions
<1>7. \A m \in Datagram : InOnePlace(m)'
  <2>1. \A m : (In(rx, m)' <=> In(rx, m)) /\ (In(tx, m)' <=> In(tx, m))
    BY <1>5 DEF In
  <2>2. ASSUME NEW m \in Datagram, m # d PROVE Elsewhere(m)
    BY <1>1, <1>5, <2>1, <2>2 DEF Elsewhere
  <2>3. NowAt(to, d)
    BY <1>1, <1>2, <1>3, <1>5, <2>1 DEF NowAt
  <2> QED
    BY <1>0, <1>1, <1>2, <1>3, <1>5, <2>2, <2>3, Relocated
<1>8. PoolStep(Io, to) /\ PfcpStep(Io, to)
  <2>1. Uses(Io, to) = 0 /\ Uses(Io, lcore[Io]) = 0
    BY <1>0, <1>2 DEF Uses, Ind, InPool
  <2>2. Ind(to.at \in InPfcp) = 1 /\ Ind(lcore[Io].at \in InPfcp) = 0
    BY <1>2 DEF Ind, InPfcp
  <2>3. Cardinality(live') = Cardinality(live) - 1 /\ Cardinality(live) \in Nat
    BY <1>0, <1>5, LiveFinite
  <2>4. PoolStep(Io, to)
    BY <1>0, <1>1, <1>5, <2>1 DEF PoolStep, DispatchTypeOK
  <2>5. PfcpStep(Io, to)
    BY <1>0, <1>5, <2>2, <2>3 DEF PfcpStep, DispatchTypeOK
  <2> QED
    BY <2>4, <2>5
<1>9. DestroyedIsOver'
  BY <1>0, <1>1, <1>2, <1>5, OverKept DEF In
<1>10. /\ rx' \in Seq(Datagram) /\ Len(rx') < RingSize /\ Distinct(rx')
       /\ tx' \in Seq(Datagram) /\ Len(tx') < RingSize /\ Distinct(tx')
       /\ poolFree' \in Nat /\ pfcpFree' \in Nat /\ arrived' \in 0 .. MaxRx
       /\ live' \subseteq Datagram /\ ended' \subseteq Datagram
  BY <1>0, <1>1, <1>5, Finite DEF DispatchTypeOK, DispatchInv, Datagram
<1> QED
  BY <1>0, <1>1, <1>2, <1>5, <1>6, <1>7, <1>8, <1>9, <1>10, StepKeeps

(* or none.                                                                *)
LEMMA FinishSilentKeeps ==
  ASSUME DispatchInv, NEW e \in live,
         lcore[Io].at = "idle", Moves(Io, At("destroy", e, 0)), live' = live \ {e},
         ended' = ended \cup {e},
         UNCHANGED <<poolFree, rx, tx, pfcpFree, txnFree, slots, arrived>>
  PROVE  DispatchInv'
<1>a. PICK d, to : d = e /\ to = At("destroy", e, 0)
  OBVIOUS
<1>0. DispatchTypeOK /\ LcoreOK(Io) /\ Io \in Lcore
  BY Finite DEF DispatchInv
<1>1. d \in Datagram /\ d # 0 /\ lcore[Io].msg = 0 /\ d \in live
  BY <1>a, <1>0, Finite DEF LcoreOK, DispatchTypeOK
<1>2. /\ to.at = "destroy" /\ to.msg = d /\ to \in LcoreRecord
      /\ to.at \in IF Io = Io THEN IoAt ELSE WorkerAt
      /\ (to = Idle <=> to.at = "idle") /\ (lcore[Io] = Idle <=> lcore[Io].at = "idle")
  BY <1>a, <1>0, <1>1, Finite DEF LcoreOK, LcoreRecord, At, Idle, Step, IoAt, WorkerAt
<1>3. /\ ~In(rx, d) /\ ~In(tx, d) /\ d \notin ended /\ d <= arrived
      /\ \A k \in Lcore : k # Io => ~Holds(k, d)
  BY <1>0, <1>1, Placed
<1>5. /\ Moves(Io, to)
      /\ live' = live \ {d} /\ ended' = ended \cup {d}
      /\ UNCHANGED <<poolFree, rx, tx, pfcpFree, txnFree, slots, arrived>>
  BY <1>a
<1>6. NoDanglingTransaction' /\ txnFree' \in 0 .. TxnCap /\ slots' \in [1 .. TxnCap -> Datagram \cup {0}]
  <2>1. \A m : (m \in live' \/ (to.at \in TxnAt(Io) /\ to.msg = m))
             <=> (m \in live \/ (lcore[Io].at \in TxnAt(Io) /\ lcore[Io].msg = m))
    BY <1>0, <1>1, <1>2, <1>5 DEF TxnAt
  <2> QED
    BY <1>0, <1>5, <2>1, SameTransactions
<1>7. \A m \in Datagram : InOnePlace(m)'
  <2>1. \A m : (In(rx, m)' <=> In(rx, m)) /\ (In(tx, m)' <=> In(tx, m))
    BY <1>5 DEF In
  <2>2. ASSUME NEW m \in Datagram, m # d PROVE Elsewhere(m)
    BY <1>1, <1>5, <2>1, <2>2 DEF Elsewhere
  <2>3. NowAt(to, d)
    BY <1>1, <1>2, <1>3, <1>5, <2>1 DEF NowAt
  <2> QED
    BY <1>0, <1>1, <1>2, <1>3, <1>5, <2>2, <2>3, Relocated
<1>8. PoolStep(Io, to) /\ PfcpStep(Io, to)
  <2>1. Uses(Io, to) = 0 /\ Uses(Io, lcore[Io]) = 0
    BY <1>0, <1>2 DEF Uses, Ind, InPool
  <2>2. Ind(to.at \in InPfcp) = 1 /\ Ind(lcore[Io].at \in InPfcp) = 0
    BY <1>2 DEF Ind, InPfcp
  <2>3. Cardinality(live') = Cardinality(live) - 1 /\ Cardinality(live) \in Nat
    BY <1>0, <1>5, LiveFinite
  <2>4. PoolStep(Io, to)
    BY <1>0, <1>1, <1>5, <2>1 DEF PoolStep, DispatchTypeOK
  <2>5. PfcpStep(Io, to)
    BY <1>0, <1>5, <2>2, <2>3 DEF PfcpStep, DispatchTypeOK
  <2> QED
    BY <2>4, <2>5
<1>9. DestroyedIsOver'
  BY <1>0, <1>1, <1>2, <1>5, OverKept DEF In
<1>10. /\ rx' \in Seq(Datagram) /\ Len(rx') < RingSize /\ Distinct(rx')
       /\ tx' \in Seq(Datagram) /\ Len(tx') < RingSize /\ Distinct(tx')
       /\ poolFree' \in Nat /\ pfcpFree' \in Nat /\ arrived' \in 0 .. MaxRx
       /\ live' \subseteq Datagram /\ ended' \subseteq Datagram
  BY <1>0, <1>1, <1>5, Finite DEF DispatchTypeOK, DispatchInv, Datagram
<1> QED
  BY <1>0, <1>1, <1>2, <1>5, <1>6, <1>7, <1>8, <1>9, <1>10, StepKeeps

(* finish() destroys its transaction.                                      *)
LEMMA FinishEndsKeeps ==
  ASSUME DispatchInv, 
         lcore[Io].at = "destroy", Moves(Io, Idle), pfcpFree' = pfcpFree + 1,
         Destroyed(lcore[Io].msg), UNCHANGED <<poolFree, rx, tx, live, arrived, ended>>
  PROVE  DispatchInv'
<1>a. PICK d, to : d = lcore[Io].msg /\ to = Idle
  OBVIOUS
<1>0. DispatchTypeOK /\ LcoreOK(Io) /\ Io \in Lcore
  BY Finite DEF DispatchInv
<1>1. d \in Datagram /\ d # 0
  BY <1>a, <1>0 DEF LcoreOK, DispatchTypeOK
<1>2. /\ to.at = "idle" /\ to.msg = 0 /\ to \in LcoreRecord
      /\ to.at \in IF Io = Io THEN IoAt ELSE WorkerAt
      /\ (to = Idle <=> to.at = "idle") /\ (lcore[Io] = Idle <=> lcore[Io].at = "idle")
  BY <1>a, <1>0, <1>1, Finite DEF LcoreOK, LcoreRecord, At, Idle, Step, IoAt, WorkerAt
<1>5. /\ Moves(Io, to) /\ lcore[Io].msg = d
      /\ pfcpFree' = pfcpFree + 1 /\ Destroyed(d)
      /\ UNCHANGED <<poolFree, rx, tx, live, arrived, ended>>
  BY <1>a
<1>6. NoDanglingTransaction' /\ txnFree' \in 0 .. TxnCap /\ slots' \in [1 .. TxnCap -> Datagram \cup {0}]
  <2>1. to.at \notin TxnAt(Io) /\ lcore[Io].at \in TxnAt(Io)
    BY <1>0, <1>2 DEF TxnAt
  <2>2. d \notin live /\ \A k \in Lcore : k # Io => ~(lcore[k].at \in TxnAt(k) /\ lcore[k].msg = d)
    <3>1. In(tx, d) \/ d \in ended
      BY <1>5 DEF DispatchInv, DestroyedIsOver
    <3>2. d \notin live /\ \A k \in Lcore : ~Holds(k, d)
      BY <1>1, <3>1, Placed
    <3> QED
      BY <3>2 DEF Holds, TxnAt
  <2> QED
    BY <1>0, <1>1, <1>5, <2>1, <2>2, OverTransaction
<1>7. \A m \in Datagram : InOnePlace(m)'
  <2>1. \A k \in Lcore, m \in Datagram : Holds(k, m)' <=> Holds(k, m)
    BY <1>0, <1>2, <1>5, HoldsAfter, Finite DEF Holds
  <2> QED
    BY <1>5, <2>1 DEF DispatchInv, InOnePlace, In
<1>8. PoolStep(Io, to) /\ PfcpStep(Io, to)
  <2>1. Uses(Io, to) = 0 /\ Uses(Io, lcore[Io]) = 0
    BY <1>0, <1>2 DEF Uses, Ind, InPool
  <2>2. Ind(to.at \in InPfcp) = 0 /\ Ind(lcore[Io].at \in InPfcp) = 1
    BY <1>2 DEF Ind, InPfcp
  <2>3. live' = live /\ Cardinality(live) \in Nat
    BY <1>0, <1>5, LiveFinite
  <2>4. PoolStep(Io, to)
    BY <1>0, <1>1, <1>5, <2>1 DEF PoolStep, DispatchTypeOK
  <2>5. PfcpStep(Io, to)
    BY <1>0, <1>5, <2>2, <2>3 DEF PfcpStep, DispatchTypeOK
  <2> QED
    BY <2>4, <2>5
<1>9. DestroyedIsOver'
  BY <1>0, <1>1, <1>2, <1>5, OverKept DEF In
<1>10. /\ rx' \in Seq(Datagram) /\ Len(rx') < RingSize /\ Distinct(rx')
       /\ tx' \in Seq(Datagram) /\ Len(tx') < RingSize /\ Distinct(tx')
       /\ poolFree' \in Nat /\ pfcpFree' \in Nat /\ arrived' \in 0 .. MaxRx
       /\ live' \subseteq Datagram /\ ended' \subseteq Datagram
  BY <1>0, <1>1, <1>5, Finite DEF DispatchTypeOK, DispatchInv, Datagram
<1> QED
  BY <1>0, <1>1, <1>2, <1>5, <1>6, <1>7, <1>8, <1>9, <1>10, StepKeeps

(* v_dispatch_io_drain_tx() takes a reply off the ring,                    *)
LEMMA DrainKeeps ==
  ASSUME DispatchInv, 
         lcore[Io].at = "idle", tx # << >>, Moves(Io, At("send", Head(tx), 0)), tx' = Tail(tx),
         UNCHANGED <<poolFree, rx, pfcpFree, txnFree, slots, live, arrived, ended>>
  PROVE  DispatchInv'
<1>a. PICK d, to : d = Head(tx) /\ to = At("send", Head(tx), 0)
  OBVIOUS
<1>0. DispatchTypeOK /\ LcoreOK(Io) /\ Io \in Lcore
  BY Finite DEF DispatchInv
<1>1. /\ d \in Datagram /\ d # 0 /\ lcore[Io].msg = 0 /\ In(tx, d)
      /\ tx' \in Seq(Datagram) /\ Len(tx') = Len(tx) - 1 /\ Len(tx) # 0 /\ Distinct(tx')
      /\ \A m : In(tx, m)' <=> In(tx, m) /\ m # d
  BY <1>a, <1>0, TakenFromTx, Finite DEF LcoreOK
<1>2. /\ to.at = "send" /\ to.msg = d /\ to \in LcoreRecord
      /\ to.at \in IF Io = Io THEN IoAt ELSE WorkerAt
      /\ (to = Idle <=> to.at = "idle") /\ (lcore[Io] = Idle <=> lcore[Io].at = "idle")
  BY <1>a, <1>0, <1>1, Finite DEF LcoreOK, LcoreRecord, At, Idle, Step, IoAt, WorkerAt
<1>3. /\ ~In(rx, d) /\ d \notin live /\ d \notin ended /\ d <= arrived
      /\ \A k \in Lcore : k # Io => ~Holds(k, d)
  BY <1>0, <1>1, Placed
<1>5. /\ Moves(Io, to)
      /\ tx' = Tail(tx)
      /\ UNCHANGED <<poolFree, rx, pfcpFree, txnFree, slots, live, arrived, ended>>
  BY <1>a
<1>6. NoDanglingTransaction' /\ txnFree' \in 0 .. TxnCap /\ slots' \in [1 .. TxnCap -> Datagram \cup {0}]
  <2>1. \A m : (m \in live' \/ (to.at \in TxnAt(Io) /\ to.msg = m))
             <=> (m \in live \/ (lcore[Io].at \in TxnAt(Io) /\ lcore[Io].msg = m))
    BY <1>0, <1>1, <1>2, <1>5 DEF TxnAt
  <2> QED
    BY <1>0, <1>5, <2>1, SameTransactions
<1>7. \A m \in Datagram : InOnePlace(m)'
  <2>1. \A m : (In(rx, m)' <=> In(rx, m))
    BY <1>5 DEF In
  <2>2. ASSUME NEW m \in Datagram, m # d PROVE Elsewhere(m)
    BY <1>1, <1>5, <2>1, <2>2 DEF Elsewhere
  <2>3. NowAt(to, d)
    BY <1>1, <1>2, <1>3, <1>5, <2>1 DEF NowAt
  <2> QED
    BY <1>0, <1>1, <1>2, <1>3, <1>5, <2>2, <2>3, Relocated
<1>8. PoolStep(Io, to) /\ PfcpStep(Io, to)
  <2>1. Uses(Io, to) = 1 /\ Uses(Io, lcore[Io]) = 0
    BY <1>0, <1>2 DEF Uses, Ind, InPool
  <2>2. Ind(to.at \in InPfcp) = 0 /\ Ind(lcore[Io].at \in InPfcp) = 0
    BY <1>2 DEF Ind, InPfcp
  <2>3. live' = live /\ Cardinality(live) \in Nat
    BY <1>0, <1>5, LiveFinite
  <2>4. PoolStep(Io, to)
    BY <1>0, <1>1, <1>5, <2>1 DEF PoolStep, DispatchTypeOK
  <2>5. PfcpStep(Io, to)
    BY <1>0, <1>5, <2>2, <2>3 DEF PfcpStep, DispatchTypeOK
  <2> QED
    BY <2>4, <2>5
<1>9. DestroyedIsOver'
  BY <1>0, <1>1, <1>2, <1>5, OverKept
<1>10. /\ rx' \in Seq(Datagram) /\ Len(rx') < RingSize /\ Distinct(rx')
       /\ tx' \in Seq(Datagram) /\ Len(tx') < RingSize /\ Distinct(tx')
       /\ poolFree' \in Nat /\ pfcpFree' \in Nat /\ arrived' \in 0 .. MaxRx
       /\ live' \subseteq Datagram /\ ended' \subseteq Datagram
  BY <1>0, <1>1, <1>5, Finite DEF DispatchTypeOK, DispatchInv, Datagram
<1> QED
  BY <1>0, <1>1, <1>2, <1>5, <1>6, <1>7, <1>8, <1>9, <1>10, StepKeeps

(* and sends it.                                                           *)
LEMMA SendKeeps ==
  ASSUME DispatchInv, 
         lcore[Io].at = "send", Moves(Io, Idle), poolFree' = poolFree + 1,
         ended' = ended \cup {lcore[Io].msg},
         UNCHANGED <<rx, tx, pfcpFree, txnFree, slots, live, arrived>>
  PROVE  DispatchInv'
<1>a. PICK d, to : d = lcore[Io].msg /\ to = Idle
  OBVIOUS
<1>0. DispatchTypeOK /\ LcoreOK(Io) /\ Io \in Lcore
  BY Finite DEF DispatchInv
<1>1. d \in Datagram /\ d # 0
  BY <1>a, <1>0 DEF LcoreOK, DispatchTypeOK
<1>2. /\ to.at = "idle" /\ to.msg = 0 /\ to \in LcoreRecord
      /\ to.at \in IF Io = Io THEN IoAt ELSE WorkerAt
      /\ (to = Idle <=> to.at = "idle") /\ (lcore[Io] = Idle <=> lcore[Io].at = "idle")
  BY <1>a, <1>0, <1>1, Finite DEF LcoreOK, LcoreRecord, At, Idle, Step, IoAt, WorkerAt
<1>3. /\ ~In(rx, d) /\ ~In(tx, d) /\ d \notin live /\ d \notin ended /\ d <= arrived
      /\ \A k \in Lcore : k # Io => ~Holds(k, d)
  <2>1. Holds(Io, d)
    BY <1>a DEF Holds
  <2> QED
    BY <1>0, <1>1, <2>1, Placed
<1>5. /\ Moves(Io, to) /\ lcore[Io].msg = d
      /\ poolFree' = poolFree + 1 /\ ended' = ended \cup {d}
      /\ UNCHANGED <<rx, tx, pfcpFree, txnFree, slots, live, arrived>>
  BY <1>a
<1>6. NoDanglingTransaction' /\ txnFree' \in 0 .. TxnCap /\ slots' \in [1 .. TxnCap -> Datagram \cup {0}]
  <2>1. \A m : (m \in live' \/ (to.at \in TxnAt(Io) /\ to.msg = m))
             <=> (m \in live \/ (lcore[Io].at \in TxnAt(Io) /\ lcore[Io].msg = m))
    BY <1>0, <1>1, <1>2, <1>5 DEF TxnAt
  <2> QED
    BY <1>0, <1>5, <2>1, SameTransactions
<1>7. \A m \in Datagram : InOnePlace(m)'
  <2>1. \A m : (In(rx, m)' <=> In(rx, m)) /\ (In(tx, m)' <=> In(tx, m))
    BY <1>5 DEF In
  <2>2. ASSUME NEW m \in Datagram, m # d PROVE Elsewhere(m)
    BY <1>1, <1>5, <2>1, <2>2 DEF Elsewhere
  <2>3. NowAt(to, d)
    BY <1>1, <1>2, <1>3, <1>5, <2>1 DEF NowAt
  <2> QED
    BY <1>0, <1>1, <1>2, <1>3, <1>5, <2>2, <2>3, Relocated
<1>8. PoolStep(Io, to) /\ PfcpStep(Io, to)
  <2>1. Uses(Io, to) = 0 /\ Uses(Io, lcore[Io]) = 1
    BY <1>0, <1>2 DEF Uses, Ind, InPool
  <2>2. Ind(to.at \in InPfcp) = 0 /\ Ind(lcore[Io].at \in InPfcp) = 0
    BY <1>2 DEF Ind, InPfcp
  <2>3. live' = live /\ Cardinality(live) \in Nat
    BY <1>0, <1>5, LiveFinite
  <2>4. PoolStep(Io, to)
    BY <1>0, <1>1, <1>5, <2>1 DEF PoolStep, DispatchTypeOK
  <2>5. PfcpStep(Io, to)
    BY <1>0, <1>5, <2>2, <2>3 DEF PfcpStep, DispatchTypeOK
  <2> QED
    BY <2>4, <2>5
<1>9. DestroyedIsOver'
  BY <1>0, <1>1, <1>2, <1>5, OverKept DEF In
<1>10. /\ rx' \in Seq(Datagram) /\ Len(rx') < RingSize /\ Distinct(rx')
       /\ tx' \in Seq(Datagram) /\ Len(tx') < RingSize /\ Distinct(tx')
       /\ poolFree' \in Nat /\ pfcpFree' \in Nat /\ arrived' \in 0 .. MaxRx
       /\ live' \subseteq Datagram /\ ended' \subseteq Datagram
  BY <1>0, <1>1, <1>5, Finite DEF DispatchTypeOK, DispatchInv, Datagram
<1> QED
  BY <1>0, <1>1, <1>2, <1>5, <1>6, <1>7, <1>8, <1>9, <1>10, StepKeeps

(* v_dispatch_worker_poll() puts the message back.                         *)
LEMMA ReleaseKeeps ==
  ASSUME DispatchInv, NEW w \in Worker, Release(w)
  PROVE  DispatchInv'
<1>0. DispatchTypeOK /\ LcoreOK(w) /\ w \in Lcore /\ w # Io
  BY Finite DEF DispatchInv
<1>1. /\ lcore[w].at = "release" /\ lcore[w].msg = 0 /\ lcore[w] # Idle
      /\ Idle.at = "idle" /\ Idle.msg = 0 /\ Idle \in LcoreRecord /\ Idle.at \in WorkerAt
  BY <1>0, Finite DEF Release, LcoreOK, Idle, At, LcoreRecord, Step, WorkerAt
<1>2. /\ Moves(w, Idle) /\ poolFree' = poolFree + 1
      /\ UNCHANGED <<rx, tx, pfcpFree, txnFree, slots, live, arrived, ended>>
  BY DEF Release, rings, txns
<1>3. NoDanglingTransaction' /\ txnFree' \in 0 .. TxnCap /\ slots' \in [1 .. TxnCap -> Datagram \cup {0}]
  <2>1. Idle.at \notin TxnAt(w) /\ lcore[w].at \notin TxnAt(w)
    BY <1>0, <1>1 DEF TxnAt
  <2> QED
    BY <1>0, <1>2, <2>1, SameTransactions
<1>4. \A m \in Datagram : InOnePlace(m)'
  <2>1. \A k \in Lcore, m \in Datagram : Holds(k, m)' <=> Holds(k, m)
    BY <1>0, <1>1, <1>2, HoldsAfter, Finite DEF Holds
  <2> QED
    BY <1>2, <2>1 DEF DispatchInv, InOnePlace, In
<1>5. PoolStep(w, Idle) /\ PfcpStep(w, Idle)
  <2>1. Uses(w, Idle) = 0 /\ Uses(w, lcore[w]) = 1
    BY <1>0, <1>1 DEF Uses, Ind, InPool
  <2>2. Ind(Idle.at \in InPfcp) = Ind(lcore[w].at \in InPfcp)
    BY <1>1 DEF Ind, InPfcp
  <2> QED
    BY <1>0, <1>2, <2>1, <2>2 DEF PoolStep, PfcpStep, DispatchTypeOK
<1>6. DestroyedIsOver'
  BY <1>0, <1>2, OverKept DEF In
<1>7. /\ rx' \in Seq(Datagram) /\ Len(rx') < RingSize /\ Distinct(rx')
      /\ tx' \in Seq(Datagram) /\ Len(tx') < RingSize /\ Distinct(tx')
      /\ poolFree' \in Nat /\ pfcpFree' \in Nat /\ arrived' \in 0 .. MaxRx
      /\ live' \subseteq Datagram /\ ended' \subseteq Datagram
  BY <1>0, <1>2 DEF DispatchTypeOK, DispatchInv
<1> QED
  BY <1>0, <1>1, <1>2, <1>3, <1>4, <1>5, <1>6, <1>7, StepKeeps

-----------------------------------------------------------------------------
(* The actions.                                                            *)

(* The scan of v_port_txn_create() stops at a slot of the table.           *)
LEMMA FirstFreeIsSlot ==
  ASSUME FreeSlots # {}
  PROVE  FirstFree \in 1 .. TxnCap
<1> DEFINE S == FreeSlots
           R == {ss \in Nat \X Nat : ss[1] < ss[2]}
<1>1. S \subseteq Nat /\ S # {} /\ S \subseteq 1 .. TxnCap
  BY Finite DEF FreeSlots
<1>2. IsWellFoundedOn(R, Nat)
  BY NatLessThanWellFounded DEF OpToRel
<1>3. PICK x \in S : \A y \in S : ~(<<y, x>> \in R)
  <2> HIDE DEF R, S
  <2> QED
    BY <1>1, <1>2, WFMin
<1>4. \A y \in S : x <= y
  <2>1. ASSUME NEW y \in S, y < x PROVE FALSE
    BY <1>1, <1>3, <2>1
  <2> QED
    BY <1>1, <2>1
<1>5. Min(S) \in S
  BY <1>4 DEF Min
<1> QED
  BY <1>1, <1>5 DEF FirstFree

(* Receiving.                                                              *)
LEMMA ReceiveKeeps ==
  ASSUME DispatchInv, v_dispatch_rx \/ RxEnqueue
  PROVE  DispatchInv'
<1>0. DispatchTypeOK /\ Idle.at = "idle" /\ poolFree \in Nat
  BY DEF DispatchInv, DispatchTypeOK, Idle, At
<1>1. CASE v_dispatch_rx
  <2>1. /\ lcore[Io].at = "idle" /\ arrived < MaxRx /\ arrived' = arrived + 1
        /\ UNCHANGED <<rx, tx, pfcpFree, txnFree, slots, live>>
        /\ \/ /\ poolFree > 0 /\ poolFree' = poolFree - 1
              /\ Moves(Io, At("rxput", arrived', 0)) /\ UNCHANGED ended
           \/ Ends(arrived') /\ UNCHANGED <<poolFree, lcore>> /\ lcore[Io] = Idle
    BY <1>0, <1>1 DEF v_dispatch_rx, rings, txns
  <2>2. CASE poolFree > 0 /\ poolFree' = poolFree - 1 /\ Moves(Io, At("rxput", arrived', 0)) /\ UNCHANGED ended
    BY <2>1, <2>2, RxTakesKeeps
  <2>3. CASE Ends(arrived') /\ UNCHANGED <<poolFree, lcore>> /\ lcore[Io] = Idle
    <3>1. Moves(Io, Idle)
      BY <1>0, <2>3, Finite DEF Moves, DispatchTypeOK
    <3> QED
      BY <2>1, <2>3, <3>1, RxDropsKeeps DEF Ends
  <2> QED
    BY <2>1, <2>2, <2>3
<1>2. CASE RxEnqueue
  <2>1. /\ lcore[Io].at = "rxput" /\ Moves(Io, Idle)
        /\ UNCHANGED <<tx, pfcpFree, txnFree, slots, live, arrived>>
    BY <1>2 DEF RxEnqueue, txns
  <2>2. CASE Full(rx)
    BY <1>2, <2>1, <2>2, RxFullKeeps DEF RxEnqueue, Ends
  <2>3. CASE ~Full(rx)
    BY <1>2, <2>1, <2>3, RxQueuesKeeps DEF RxEnqueue
  <2> QED
    BY <2>2, <2>3
<1> QED
  BY <1>1, <1>2

(* Handling a datagram, up to the start of its flow.                       *)
LEMMA HandleKeeps ==
  ASSUME DispatchInv, NEW w \in Worker,
         Dequeue(w) \/ v_flow_handle_msg(w) \/ v_port_txn_create(w) \/ Start(w)
  PROVE  DispatchInv'
<1>0. DispatchTypeOK /\ Idle.at = "idle" /\ w \in Lcore /\ w # Io
  BY Finite DEF DispatchInv, Idle, At
<1>1. CASE Dequeue(w)
  BY <1>0, <1>1, DequeueKeeps DEF Dequeue, Taken, txns
<1>2. CASE v_flow_handle_msg(w)
  <2>1. /\ lcore[w].at = "handle"
        /\ UNCHANGED <<poolFree, rx, tx, txnFree, slots, live, arrived>>
    BY <1>2 DEF v_flow_handle_msg, rings
  <2>2. CASE Ends(lcore[w].msg) /\ Moves(w, At("release", 0, 0)) /\ UNCHANGED pfcpFree
    BY <2>1, <2>2, HandleDropsKeeps DEF Ends
  <2>3. CASE /\ pfcpFree > 0 /\ pfcpFree' = pfcpFree - 1
             /\ Moves(w, At("tx", lcore[w].msg, 0)) /\ UNCHANGED ended
    BY <2>1, <2>3, HandleRepliesKeeps
  <2>4. CASE /\ pfcpFree > 0 /\ pfcpFree' = pfcpFree - 1 /\ FreeSlots # {}
             /\ Moves(w, At("claim", lcore[w].msg, FirstFree)) /\ UNCHANGED ended
    BY <2>1, <2>4, FirstFreeIsSlot, HandleClaimsKeeps
  <2> QED
    BY <1>2, <2>2, <2>3, <2>4 DEF v_flow_handle_msg
<1>3. CASE v_port_txn_create(w)
  <2>1. lcore[w].at = "claim" /\ UNCHANGED <<poolFree, rx, tx, live, arrived>>
    BY <1>3 DEF v_port_txn_create, rings
  <2>2. CASE txnFree > 0
    BY <1>3, <2>1, <2>2, CreateFillsKeeps DEF v_port_txn_create
  <2>3. CASE ~(txnFree > 0)
    BY <1>3, <2>1, <2>3, CreateFailsKeeps DEF v_port_txn_create, Ends
  <2> QED
    BY <2>2, <2>3
<1>4. CASE Start(w)
  <2>1. /\ lcore[w].at = "start" /\ Moves(w, At("release", 0, 0))
        /\ UNCHANGED <<poolFree, rx, tx, arrived>>
    BY <1>4 DEF Start, rings
  <2>2. CASE /\ live' = live \cup {lcore[w].msg} /\ UNCHANGED <<pfcpFree, txnFree, slots, ended>>
    BY <2>1, <2>2, StartWaitsKeeps
  <2>3. CASE /\ pfcpFree' = pfcpFree + 1 /\ Destroyed(lcore[w].msg)
             /\ Ends(lcore[w].msg) /\ UNCHANGED live
    BY <2>1, <2>3, StartFailsKeeps DEF Ends
  <2> QED
    BY <1>4, <2>2, <2>3 DEF Start
<1> QED
  BY <1>1, <1>2, <1>3, <1>4

(* Replying.                                                               *)
LEMMA ReplyKeeps ==
  ASSUME DispatchInv, NEW l \in Lcore, v_dispatch_tx_enqueue(l) \/ TxEnqueue(l)
  PROVE  DispatchInv'
<1>0. l # Io => l \in Worker
  BY Finite
<1>1. CASE v_dispatch_tx_enqueue(l)
  <2>1. lcore[l].at = "tx" /\ UNCHANGED <<rx, tx, txnFree, slots, live, arrived>>
    BY <1>1 DEF v_dispatch_tx_enqueue, rings
  <2>2. CASE poolFree > 0
    BY <1>1, <2>1, <2>2, TxTakesKeeps DEF v_dispatch_tx_enqueue
  <2>3. CASE ~(poolFree > 0) /\ l = Io
    BY <1>1, <2>1, <2>3, TxEmptyIoKeeps DEF v_dispatch_tx_enqueue, AfterTx, Ends
  <2>4. CASE ~(poolFree > 0) /\ l # Io
    BY <1>0, <1>1, <2>1, <2>4, TxEmptyWorkerKeeps DEF v_dispatch_tx_enqueue, AfterTx, Ends
  <2> QED
    BY <2>2, <2>3, <2>4
<1>2. CASE TxEnqueue(l)
  <2>1. lcore[l].at = "txput" /\ AfterTx(l) /\ UNCHANGED <<rx, txnFree, slots, live, arrived>>
    BY <1>2 DEF TxEnqueue
  <2>2. CASE Full(tx) /\ l = Io
    BY <1>2, <2>1, <2>2, TxFullIoKeeps DEF TxEnqueue, AfterTx, Ends
  <2>3. CASE Full(tx) /\ l # Io
    BY <1>0, <1>2, <2>1, <2>3, TxFullWorkerKeeps DEF TxEnqueue, AfterTx, Ends
  <2>4. CASE ~Full(tx) /\ l = Io
    BY <1>2, <2>1, <2>4, TxQueuesIoKeeps DEF TxEnqueue, AfterTx
  <2>5. CASE ~Full(tx) /\ l # Io
    BY <1>0, <1>2, <2>1, <2>5, TxQueuesWorkerKeeps DEF TxEnqueue, AfterTx
  <2> QED
    BY <2>2, <2>3, <2>4, <2>5
<1> QED
  BY <1>1, <1>2

(* The I/O lcore finishes a request, drains the ring and sends.            *)
LEMMA IoKeeps ==
  ASSUME DispatchInv,
         FinishEnds \/ v_dispatch_io_drain_tx \/ Send \/ \E m \in Datagram : Finish(m)
  PROVE  DispatchInv'
<1>0. Idle.at = "idle"
  BY DEF Idle, At
<1>1. CASE FinishEnds
  BY <1>1, FinishEndsKeeps DEF FinishEnds, rings
<1>2. CASE v_dispatch_io_drain_tx
  BY <1>0, <1>2, DrainKeeps DEF v_dispatch_io_drain_tx, txns
<1>3. CASE Send
  BY <1>3, SendKeeps DEF Send, Ends, rings, txns
<1>4. ASSUME NEW m \in Datagram, Finish(m) PROVE DispatchInv'
  <2>1. /\ lcore[Io].at = "idle" /\ m \in live /\ live' = live \ {m}
        /\ UNCHANGED <<poolFree, rx, tx, pfcpFree, txnFree, slots, arrived>>
    BY <1>0, <1>4 DEF Finish, rings
  <2>2. CASE Moves(Io, At("tx", m, 0)) /\ UNCHANGED ended
    BY <2>1, <2>2, FinishRepliesKeeps
  <2>3. CASE Moves(Io, At("destroy", m, 0)) /\ Ends(m)
    BY <2>1, <2>3, FinishSilentKeeps DEF Ends
  <2> QED
    BY <1>4, <2>2, <2>3 DEF Finish
<1> QED
  BY <1>1, <1>2, <1>3, <1>4

(* v_dispatch_init(): everything is in its pool.                           *)
LEMMA DispatchInvInit == Init => DispatchInv
<1> SUFFICES ASSUME Init PROVE DispatchInv
  OBVIOUS
<1>1. /\ \A l \in Lcore : lcore[l] = Idle
      /\ Idle.at = "idle" /\ Idle.msg = 0 /\ Idle \in LcoreRecord
  BY Finite DEF Init, Idle, At, LcoreRecord, Step
<1>2. DispatchTypeOK
  BY <1>1, Finite DEF Init, DispatchTypeOK, LcoreRecord, PoolCap
<1>3. \A steps : "idle" \notin steps => Doing(steps) = {}
  BY <1>1 DEF Doing
<1>4. MessagesBaseline
  <2>1. /\ Doing({"txput", "send"}) = {} /\ Doing({"rxput"}) = {}
        /\ Doing({"claim", "start", "tx", "txput", "destroy"}) = {}
        /\ {w \in Worker : lcore[w] # Idle} = {} /\ live = {}
    BY <1>1, <1>3, Finite DEF Init
  <2>2. /\ Cardinality(Doing({"txput", "send"})) = 0 /\ Cardinality(Doing({"rxput"})) = 0
        /\ Cardinality(Doing({"claim", "start", "tx", "txput", "destroy"})) = 0
        /\ Cardinality({w \in Worker : lcore[w] # Idle}) = 0 /\ Cardinality(live) = 0
    BY <2>1, FS_EmptySet
  <2>3. Len(rx) = 0 /\ Replies = 0 /\ poolFree = 2 * RingSize /\ pfcpFree = PfcpCap
    BY <2>2 DEF Init, Replies, PoolCap
  <2> QED
    BY <2>2, <2>3, Finite DEF MessagesBaseline
<1>5. NoDanglingTransaction
  <2>1. ASSUME NEW m, m \in InProgress PROVE FALSE
    <3>1. m \in live \/ \E l \in Lcore : lcore[l].at \in TxnAt(l) /\ lcore[l].msg = m
      BY <2>1, InProgressIs
    <3>2. live = {} /\ \A l \in Lcore : "idle" \notin TxnAt(l)
      BY DEF Init, TxnAt
    <3> QED
      BY <1>1, <3>1, <3>2
  <2>2. Cardinality({}) = 0
    BY FS_EmptySet
  <2> QED
    <3>1. InProgress = {}
      BY <2>1
    <3> QED
      BY <2>2, <3>1, Finite DEF Init, NoDanglingTransaction
<1>6. \A l \in Lcore : LcoreOK(l)
  BY <1>1 DEF LcoreOK, IoAt, WorkerAt
<1>7. Distinct(rx) /\ Distinct(tx) /\ \A m : ~In(rx, m) /\ ~In(tx, m)
  BY DEF Init, Distinct, In
<1>8. \A m \in Datagram : InOnePlace(m)
  BY <1>1, <1>7, Finite DEF Init, InOnePlace, Holds, Datagram
<1>9. DestroyedIsOver
  BY <1>1, Finite DEF DestroyedIsOver
<1> QED
  BY <1>2, <1>4, <1>5, <1>6, <1>7, <1>8, <1>9 DEF DispatchInv

(* A step that changes nothing keeps the invariant.                        *)
LEMMA DispatchStutters ==
  ASSUME DispatchInv, UNCHANGED vars
  PROVE  DispatchInv'
BY DEF DispatchInv, vars, rings, txns, DispatchTypeOK, MessagesBaseline, Replies, Doing,
       NoDanglingTransaction, InProgress, LcoreOK, Distinct, InOnePlace, In, Holds,
       DestroyedIsOver

(* Every step of every lcore keeps the invariant.                          *)
LEMMA DispatchInvNext == DispatchInv /\ [Next]_vars => DispatchInv'
<1> SUFFICES ASSUME DispatchInv, [Next]_vars PROVE DispatchInv'
  OBVIOUS
<1>1. CASE UNCHANGED vars
  BY <1>1, DispatchStutters
<1>2. CASE v_dispatch_rx \/ RxEnqueue
  BY <1>2, ReceiveKeeps
<1>3. CASE v_dispatch_tx_enqueue(Io) \/ TxEnqueue(Io)
  BY <1>3, ReplyKeeps, Finite
<1>4. CASE FinishEnds \/ v_dispatch_io_drain_tx \/ Send \/ \E m \in Datagram : Finish(m)
  BY <1>4, IoKeeps
<1>5. ASSUME NEW w \in Worker, WorkerStep(w) PROVE DispatchInv'
  <2>1. CASE Release(w)
    BY <2>1, ReleaseKeeps
  <2>2. CASE Dequeue(w) \/ v_flow_handle_msg(w) \/ v_port_txn_create(w) \/ Start(w)
    BY <2>2, HandleKeeps
  <2>3. CASE v_dispatch_tx_enqueue(w) \/ TxEnqueue(w)
    BY <2>3, ReplyKeeps, Finite
  <2> QED
    BY <1>5, <2>1, <2>2, <2>3 DEF WorkerStep
<1> QED
  BY <1>1, <1>2, <1>3, <1>4, <1>5 DEF Next, IoStep

-----------------------------------------------------------------------------
(* Theorems.                                                               *)

(* The invariant holds in every state of the lcores, rings and pools.      *)
THEOREM DispatchInvariant == Spec => []DispatchInv
BY DispatchInvInit, DispatchInvNext, PTL DEF Spec

(* Every variable keeps its type, and every ring and pool its size, for    *)
(* any number of workers and datagrams.                                    *)
THEOREM DispatchTypeCorrect == Spec => []DispatchTypeOK
<1>1. DispatchInv => DispatchTypeOK
  BY DEF DispatchInv
<1> QED
  BY <1>1, DispatchInvariant, PTL

(* No path of v_dispatch.c, v_flow.c or finish() loses a message object or *)
(* puts one back twice.                                                    *)
THEOREM MessagesAccounted == Spec => []MessagesBaseline
<1>1. DispatchInv => MessagesBaseline
  BY DEF DispatchInv
<1> QED
  BY <1>1, DispatchInvariant, PTL

(* The slot table never points to a transaction that is over, and no       *)
(* transaction object in use is in its pool, although v_port_txn_create()  *)
(* finds its slot in one step and fills it in another.                     *)
THEOREM TransactionsHeld == Spec => []NoDanglingTransaction
<1>1. DispatchInv => NoDanglingTransaction
  BY DEF DispatchInv
<1> QED
  BY <1>1, DispatchInvariant, PTL

(* When the message pool is empty, replies have all but a few of the       *)
(* objects of one ring: V_DISPATCH_POOL_CAP is large enough.               *)
THEOREM PoolLargeEnough == Spec => []RepliesHaveRoom
<1>1. ASSUME DispatchInv PROVE RepliesHaveRoom
  <2> DEFINE a == Len(tx) + Cardinality(Doing({"txput", "send"}))
             b == Cardinality(Doing({"rxput"}))
             c == Cardinality(Busy)
             n == Cardinality(Worker)
             p == Len(rx)
  <2>1. DispatchTypeOK /\ MessagesBaseline /\ \A l \in Lcore : LcoreOK(l)
    BY <1>1 DEF DispatchInv
  <2>2. p \in Nat /\ p <= RingSize - 1 /\ RingSize \in Nat
    BY <2>1, Finite DEF DispatchTypeOK
  <2>3. a \in Int /\ poolFree = 2 * RingSize - p - a - b - c
    <3>1. IsFiniteSet(Doing({"txput", "send"}))
      BY Finite, FS_Subset DEF Doing
    <3>2. Cardinality(Doing({"txput", "send"})) \in Nat /\ Len(tx) \in Nat
      BY <2>1, <3>1, FS_CardinalityType DEF DispatchTypeOK
    <3> QED
      BY <2>1, <3>2 DEF MessagesBaseline, Replies, Busy
  <2>4. b \in Nat /\ b <= 1
    <3>1. Doing({"rxput"}) \subseteq {Io} /\ IsFiniteSet({Io}) /\ Cardinality({Io}) = 1
      BY <2>1, FS_Singleton DEF Doing, LcoreOK, WorkerAt
    <3> QED
      BY <3>1, FS_Subset, FS_CardinalityType
  <2>5. c \in Nat /\ n \in Nat /\ c <= n
    <3>1. Busy \subseteq Worker /\ IsFiniteSet(Worker)
      BY Finite DEF Busy
    <3> QED
      BY <3>1, FS_Subset, FS_CardinalityType
  <2>6. RepliesHaveRoom <=> (poolFree = 0 => a >= RingSize - n)
    BY DEF RepliesHaveRoom, Replies
  <2> HIDE DEF a, b, c, n, p
  <2>7. poolFree = 0 => a >= RingSize - n
    BY <2>2, <2>3, <2>4, <2>5
  <2> QED
    BY <2>6, <2>7
<1> QED
  BY <1>1, DispatchInvariant, PTL

(* A set with at most one member has as many members as say whether it has *)
(* one.                                                                    *)
LEMMA CardinalityIs ==
  ASSUME NEW S, \A x, y \in S : x = y
  PROVE  Cardinality(S) = IF S = {} THEN 0 ELSE 1
<1>1. CASE S = {}
  BY <1>1, FS_EmptySet
<1>2. CASE S # {}
  <2>1. PICK x : S = {x}
    BY <1>2
  <2> QED
    BY <1>2, <2>1, FS_Singleton
<1> QED
  BY <1>1, <1>2

(* A datagram that has arrived is in one place, and once: it is handled by *)
(* one worker and has one reply at most.                                   *)
THEOREM NothingHandledTwice == Spec => []HandledOnce
<1>1. ASSUME DispatchInv PROVE HandledOnce
  <2> SUFFICES ASSUME NEW m \in Datagram
               PROVE  Cardinality({i \in DOMAIN rx : rx[i] = m})
                        + Cardinality({i \in DOMAIN tx : tx[i] = m})
                        + Cardinality({l \in Lcore : lcore[l].msg = m /\ lcore[l].at # "destroy"})
                        + Cardinality(live \cap {m}) + Cardinality(ended \cap {m})
                      = IF m <= arrived THEN 1 ELSE 0
    BY DEF HandledOnce
  <2> DEFINE A == {i \in DOMAIN rx : rx[i] = m}
             B == {i \in DOMAIN tx : tx[i] = m}
             C == {l \in Lcore : lcore[l].msg = m /\ lcore[l].at # "destroy"}
             D == live \cap {m}
             E == ended \cap {m}
  <2>1. InOnePlace(m) /\ Distinct(rx) /\ Distinct(tx) /\ DispatchTypeOK
    BY <1>1 DEF DispatchInv
  <2>2. /\ DOMAIN rx = 1 .. Len(rx) /\ DOMAIN tx = 1 .. Len(tx)
    BY <2>1 DEF DispatchTypeOK
  <2>3. \A x, y \in A : x = y
    BY <2>1, <2>2 DEF Distinct
  <2>4. \A x, y \in B : x = y
    BY <2>1, <2>2 DEF Distinct
  <2>5. \A x, y \in C : x = y
    BY <2>1 DEF InOnePlace, Holds
  <2>6. (\A x, y \in D : x = y) /\ (\A x, y \in E : x = y)
    OBVIOUS
  <2>7. /\ A = {} <=> ~In(rx, m)
        /\ B = {} <=> ~In(tx, m)
        /\ C = {} <=> ~\E l \in Lcore : Holds(l, m)
        /\ D = {} <=> m \notin live
        /\ E = {} <=> m \notin ended
    <3>1. A = {} <=> ~In(rx, m)
      BY <2>2 DEF In
    <3>2. B = {} <=> ~In(tx, m)
      BY <2>2 DEF In
    <3>3. C = {} <=> ~\E l \in Lcore : Holds(l, m)
      BY DEF Holds
    <3> QED
      BY <3>1, <3>2, <3>3
  <2>8. /\ Cardinality(A) = IF A = {} THEN 0 ELSE 1
        /\ Cardinality(B) = IF B = {} THEN 0 ELSE 1
        /\ Cardinality(C) = IF C = {} THEN 0 ELSE 1
        /\ Cardinality(D) = IF D = {} THEN 0 ELSE 1
        /\ Cardinality(E) = IF E = {} THEN 0 ELSE 1
    <3> HIDE DEF A, B, C, D, E
    <3> QED
      BY <2>3, <2>4, <2>5, <2>6, CardinalityIs
  <2> HIDE DEF A, B, C, D, E
  <2>9. /\ m <= arrived <=> ~(A = {} /\ B = {} /\ C = {} /\ D = {} /\ E = {})
        /\ A # {} => B = {} /\ C = {} /\ D = {} /\ E = {}
        /\ B # {} => C = {} /\ D = {} /\ E = {}
        /\ D # {} => C = {} /\ E = {}
        /\ E # {} => C = {}
    BY <2>1, <2>7 DEF InOnePlace
  <2>10. Cardinality(A) + Cardinality(B) + Cardinality(C) + Cardinality(D) + Cardinality(E)
           = IF m <= arrived THEN 1 ELSE 0
    BY <2>8, <2>9
  <2> QED
    BY <2>10 DEF A, B, C, D, E
<1> QED
  BY <1>1, DispatchInvariant, PTL
=============================================================================
