--------------------------- MODULE IdAllocProofs ---------------------------
(***************************************************************************)
(* Theorems about IdAlloc, for any number of pods and lcores, any block,   *)
(* watermark, floor and ring size, and every combination of failures:      *)
(* types and ring capacity, the validity of every identifier a pod can     *)
(* hand out, the uniqueness of identifiers, and the quarantine of TEIDs.   *)
(* For pods with one lcore: room in the rings for every block on its way,  *)
(* and, where no command is lost, an account of every identifier leased.   *)
(***************************************************************************)
EXTENDS IdAlloc, SeidLayoutProofs, SequenceTheorems, FiniteSetTheorems, TLAPS

-----------------------------------------------------------------------------
(* Constants and small facts.                                              *)

(* The sizes of v_id_alloc.h are numbers.                                  *)
LEMMA IdSizes ==
  /\ V_ID_BLK_SIZE \in Nat /\ V_ID_BLK_SIZE > 0
  /\ V_ID_WATERMARK \in Nat /\ V_ID_WATERMARK > 0
  /\ RingCap \in Nat /\ RingCap > 0
  /\ V_TEID_FREE_FLOOR \in Nat /\ MaxNext \in Nat
  /\ Part \in Parts
  /\ V_ID_WATERMARK - 1 + V_ID_BLK_SIZE <= RingCap
  BY SizeAssumption

(* A block of identifiers is a sequence of consecutive numbers.            *)
LEMMA BlockIds ==
  ASSUME NEW base \in Nat
  PROVE  /\ Block(base) \in Seq(Nat)
         /\ Len(Block(base)) = V_ID_BLK_SIZE
         /\ \A i \in 1 .. V_ID_BLK_SIZE : Block(base)[i] = base + i - 1
<1>1. V_ID_BLK_SIZE \in Nat
  BY IdSizes
<1>2. \A i \in 1 .. V_ID_BLK_SIZE : base + i - 1 \in Nat
  BY <1>1
<1> QED
  BY <1>1, <1>2 DEF Block

(* A sequence of one element.                                              *)
LEMMA OneElement ==
  ASSUME NEW S, NEW e \in S
  PROVE  /\ << e >> \in Seq(S) /\ Len(<< e >>) = 1 /\ DOMAIN << e >> = 1 .. 1
         /\ << e >>[1] = e
  OBVIOUS

(* A sequence of two elements.                                             *)
LEMMA TwoElements ==
  ASSUME NEW S, NEW e \in S, NEW f \in S
  PROVE  /\ << e, f >> \in Seq(S) /\ Len(<< e, f >>) = 2 /\ DOMAIN << e, f >> = 1 .. 2
         /\ << e, f >>[1] = e /\ << e, f >>[2] = f
  OBVIOUS

(* What v_id_alloc_init() can send for its two refills.                    *)
LEMMA Joined ==
  ASSUME NEW S, NEW e \in S, NEW f \in S
  PROVE  /\ << >> \o << >> = << >>
         /\ << >> \o << f >> = << f >>
         /\ << e >> \o << >> = << e >>
         /\ << e >> \o << f >> = << e, f >>
<1>1. << e >> \in Seq(S) /\ << f >> \in Seq(S) /\ << e, f >> \in Seq(S)
  OBVIOUS
<1>2. << e >> \o << f >> \in Seq(S) /\ Len(<< e >> \o << f >>) = 2
      /\ (<< e >> \o << f >>)[1] = e /\ (<< e >> \o << f >>)[2] = f
  <2>1. Len(<< e >>) = 1 /\ Len(<< f >>) = 1 /\ << e >>[1] = e /\ << f >>[1] = f
    OBVIOUS
  <2>2. PICK a \in Seq(S), b \in Seq(S) : a = << e >> /\ b = << f >>
    BY <1>1
  <2>3. /\ a \o b \in Seq(S) /\ Len(a \o b) = Len(a) + Len(b)
        /\ \A i \in 1 .. Len(a) + Len(b) : (a \o b)[i] = IF i <= Len(a) THEN a[i] ELSE b[i - Len(a)]
    BY ConcatProperties
  <2>4. Len(a) = 1 /\ Len(b) = 1 /\ a[1] = e /\ b[1] = f
    BY <2>1, <2>2
  <2>5. a \o b \in Seq(S) /\ Len(a \o b) = 2 /\ (a \o b)[1] = e /\ (a \o b)[2] = f
    BY <2>3, <2>4
  <2> QED
    BY <2>2, <2>5
<1>3. << e >> \o << f >> = << e, f >>
  <2>1. PICK u \in Seq(S) : u = << e >> \o << f >> /\ Len(u) = 2 /\ u[1] = e /\ u[2] = f
    BY <1>2
  <2>2. PICK v \in Seq(S) : v = << e, f >> /\ Len(v) = 2 /\ v[1] = e /\ v[2] = f
    BY <1>1
  <2>3. Len(u) = Len(v) /\ \A i \in 1 .. Len(u) : u[i] = v[i]
    <3>1. Len(u) = 2 /\ u[1] = e /\ u[2] = f
      BY <2>1, Zenon
    <3>2. Len(v) = 2 /\ v[1] = e /\ v[2] = f
      BY <2>2, Zenon
    <3> QED
      BY <3>1, <3>2
  <2>4. u \in [1 .. 2 -> S] /\ v \in [1 .. 2 -> S]
    <3>1. u \in [1 .. Len(u) -> S]
      BY LenProperties
    <3>2. v \in [1 .. Len(v) -> S]
      BY LenProperties
    <3> QED
      BY <3>1, <3>2, <2>1, <2>2
  <2>5. u = v
    <3>1. \A i \in 1 .. 2 : u[i] = v[i]
      BY <2>1, <2>3
    <3> QED
      BY <2>4, <3>1
  <2> QED
    BY <2>1, <2>2, <2>5, Zenon
<1>4. << >> \o << >> = << >>
  OBVIOUS
<1>5. \A q \in Seq(S) : q \o << >> = q /\ << >> \o q = q
  BY ConcatEmptySeq
<1> QED
  BY <1>1, <1>3, <1>4, <1>5, Zenon

(* What is put on the connection by a command that may fail to be sent.    *)
LEMMA Attempts ==
  ASSUME NEW op, NEW id, NEW s \in Attempt(op, id)
  PROVE  s = << Cmd(op, id) >> \/ s = << >>
  BY DEF Attempt

(* A refill puts at most a SETNX and one refill command on the connection. *)
LEMMA Sends ==
  ASSUME NEW p \in Pod, NEW k \in Kind, NEW s \in RefillSends(p, k)
  PROVE  \/ s = << >>
         \/ s = << Cmd(IF k = "SEID" THEN "INCRBY" ELSE "REFILL", 0) >>
         \/ k = "TEID" /\ s = << Cmd("SETNX", 0) >>
         \/ k = "TEID" /\ s = << Cmd("SETNX", 0), Cmd("REFILL", 0) >>
<1>1. CASE k = "SEID"
  BY <1>1, Attempts DEF RefillSends
<1>2. CASE k = "TEID"
  <2> DEFINE First == IF seeded[p] THEN {<< >>} ELSE Attempt("SETNX", 0)
  <2>0. s \in {a \o b : a \in First, b \in Attempt("REFILL", 0)}
    <3>1. k # "SEID"
      BY <1>2
    <3>2. RefillSends(p, k) = {a \o b : a \in First, b \in Attempt("REFILL", 0)}
      BY <3>1 DEF RefillSends
    <3> QED
      BY <3>2
  <2>1. PICK a \in First, b \in Attempt("REFILL", 0) : s = a \o b
    BY <2>0
  <2>2. a = << >> \/ a = << Cmd("SETNX", 0) >>
    BY Attempts
  <2>3. b = << >> \/ b = << Cmd("REFILL", 0) >>
    BY Attempts
  <2>4. << >> \o << >> = << >>
        /\ << >> \o << Cmd("REFILL", 0) >> = << Cmd("REFILL", 0) >>
        /\ << Cmd("SETNX", 0) >> \o << >> = << Cmd("SETNX", 0) >>
        /\ << Cmd("SETNX", 0) >> \o << Cmd("REFILL", 0) >> = << Cmd("SETNX", 0), Cmd("REFILL", 0) >>
    BY Joined, Cmd("SETNX", 0) \in {Cmd("SETNX", 0), Cmd("REFILL", 0)},
       Cmd("REFILL", 0) \in {Cmd("SETNX", 0), Cmd("REFILL", 0)}, Zenon
  <2> QED
    BY <1>2, <2>1, <2>2, <2>3, <2>4
<1> QED
  BY <1>1, <1>2 DEF Kind

(* What a refill sends are commands.                                       *)
LEMMA SendsType ==
  ASSUME NEW p \in Pod, NEW k \in Kind, NEW s \in RefillSends(p, k)
  PROVE  /\ s \in Seq(Command)
         /\ \A i \in DOMAIN s : s[i].op # "RPUSH"
<1>1. Cmd("INCRBY", 0) \in Command /\ Cmd("REFILL", 0) \in Command /\ Cmd("SETNX", 0) \in Command
  BY DEF Cmd, Command, Local
<1>2. Cmd("INCRBY", 0).op = "INCRBY" /\ Cmd("REFILL", 0).op = "REFILL" /\ Cmd("SETNX", 0).op = "SETNX"
  BY DEF Cmd
<1>3. CASE s = << >>
  BY <1>3
<1>4. CASE s = << Cmd("INCRBY", 0) >> \/ s = << Cmd("REFILL", 0) >> \/ s = << Cmd("SETNX", 0) >>
  <2>1. PICK c \in Command : s = << c >> /\ c.op # "RPUSH"
    BY <1>1, <1>2, <1>4
  <2> QED
    BY <2>1, OneElement
<1>5. CASE s = << Cmd("SETNX", 0), Cmd("REFILL", 0) >>
  <2>1. PICK c \in Command, e \in Command : s = << c, e >> /\ c.op # "RPUSH" /\ e.op # "RPUSH"
    BY <1>1, <1>2, <1>5
  <2> QED
    BY <2>1, TwoElements
<1> QED
  BY <1>3, <1>4, <1>5, Sends

(* The reply of a pod that Redis or refill_reply_cb() handles.             *)
LEMMA ReplyHead ==
  ASSUME IdTypeOK, NEW p \in Pod, replies[p] # << >>
  PROVE  /\ Head(replies[p]) \in Refill
         /\ Head(replies[p]).kind \in Kind
         /\ Head(replies[p]).ids \in Seq(Nat)
         /\ Head(replies[p]) = replies[p][1] /\ 1 \in DOMAIN replies[p]
         /\ Tail(replies[p]) \in Seq(Refill)
         /\ Len(replies[p]) \in Nat /\ Len(Tail(replies[p])) = Len(replies[p]) - 1
         /\ \A n \in 1 .. Len(replies[p]) - 1 : Tail(replies[p])[n] = replies[p][n + 1]
<1>1. replies[p] \in Seq(Refill)
  BY DEF IdTypeOK
<1>2. Head(replies[p]) \in Refill /\ Tail(replies[p]) \in Seq(Refill)
      /\ Len(Tail(replies[p])) = Len(replies[p]) - 1
      /\ \A n \in 1 .. Len(Tail(replies[p])) : Tail(replies[p])[n] = replies[p][n + 1]
  BY <1>1, HeadTailProperties
<1>3. Head(replies[p]) = replies[p][1] /\ 1 \in DOMAIN replies[p] /\ Len(replies[p]) \in Nat
  BY <1>1
<1> QED
  BY <1>2, <1>3 DEF Refill, Local

(* The command of a pod that Redis handles.                                *)
LEMMA ConnHead ==
  ASSUME IdTypeOK, NEW p \in Pod, conn[p] # << >>
  PROVE  /\ Head(conn[p]) \in Command
         /\ Head(conn[p]).op \in {"SETNX", "INCRBY", "REFILL", "RPUSH"}
         /\ Head(conn[p]).id \in Nat
         /\ Head(conn[p]) = conn[p][1] /\ 1 \in DOMAIN conn[p]
         /\ Tail(conn[p]) \in Seq(Command)
         /\ Len(conn[p]) \in Nat /\ Len(Tail(conn[p])) = Len(conn[p]) - 1
         /\ \A n \in 1 .. Len(conn[p]) - 1 : Tail(conn[p])[n] = conn[p][n + 1]
<1>1. conn[p] \in Seq(Command)
  BY DEF IdTypeOK
<1>2. Head(conn[p]) \in Command /\ Tail(conn[p]) \in Seq(Command)
      /\ Len(Tail(conn[p])) = Len(conn[p]) - 1
      /\ \A n \in 1 .. Len(Tail(conn[p])) : Tail(conn[p])[n] = conn[p][n + 1]
  BY <1>1, HeadTailProperties
<1>3. Head(conn[p]) = conn[p][1] /\ 1 \in DOMAIN conn[p] /\ Len(conn[p]) \in Nat
  BY <1>1
<1> QED
  BY <1>2, <1>3 DEF Command, Local

-----------------------------------------------------------------------------
(* The identifiers in the rings.                                           *)

(* A word that v_seid_validate() or v_teid_validate() accepts as one of    *)
(* the partition.                                                          *)
Accepted(k, w) ==
  IF k = "SEID" THEN v_seid_validate(w) = Part ELSE v_teid_validate(w) = Part

(* 32 bits hold some number of words.                                      *)
LEMMA Width == TeidWidth \in Nat \ {0} /\ TeidLocalSize \in Nat /\ TeidLocalSize <= TeidWidth
<1>1. PartSize \in Nat \ {0} /\ TeidLocalSize \in Nat \ {0}
  BY Sizes
<1>2. PICK u \in Nat \ {0} : u = PartSize * TeidLocalSize /\ TeidLocalSize <= u
  BY <1>1, Product
<1> QED
  BY <1>1, <1>2 DEF TeidWidth, TeidRsvUnit

(* A remainder is no larger than the number, and the number itself when    *)
(* that is small.                                                          *)
LEMMA Remainder ==
  ASSUME NEW a \in Nat, NEW b \in Nat \ {0}
  PROVE  /\ a % b \in Nat /\ a % b < b /\ a % b <= a
         /\ a < b => a % b = a
<1>1. a % b \in 0 .. b - 1 /\ a \div b \in Nat /\ a = (a \div b) * b + (a % b)
  BY Rejoin
<1>2. PICK q \in Nat, r \in 0 .. b - 1 : q = a \div b /\ r = a % b /\ a = q * b + r
  BY <1>1
<1>3. q * b \in Nat
  OBVIOUS
<1>4. a < b => a % b = a
  OBVIOUS
<1> QED
  BY <1>1, <1>2, <1>3, <1>4

(* What v_seid_encode() and enqueue_teid() make of a leased index: a valid *)
(* word of the partition whose local index was leased too, and is the one  *)
(* given unless the cast to 32 bits changed it.                            *)
LEMMA EncodedWord ==
  ASSUME NEW k \in Kind, NEW i \in Nat, Encoded(k, i) # Err
  PROVE  /\ Encoded(k, i) \in Nat
         /\ Accepted(k, Encoded(k, i))
         /\ LocalOf(k, Encoded(k, i)) \in Nat
         /\ LocalOf(k, Encoded(k, i)) <= i
         /\ (k = "SEID" \/ i < TeidWidth) => LocalOf(k, Encoded(k, i)) = i
<1>1. CASE k = "SEID"
  <2>1. Encoded(k, i) = v_seid_encode(Part, i)
    BY <1>1 DEF Encoded
  <2>2. i \in 0 .. SeidLocalSize - 1 /\ Part \in Parts
    BY <2>1, IdSizes, Sizes DEF v_seid_encode
  <2>3. /\ v_seid_encode(Part, i) \in Nat
        /\ v_seid_validate(v_seid_encode(Part, i)) = Part
        /\ v_seid_local(v_seid_encode(Part, i)) = i
    BY <2>2, SeidRoundTrip
  <2> QED
    BY <1>1, <2>1, <2>3 DEF Accepted, LocalOf
<1>2. CASE k = "TEID"
  <2>1. Encoded(k, i) = v_teid_encode(Part, i % TeidWidth)
    BY <1>2 DEF Encoded
  <2>2. PICK j \in Nat : j = i % TeidWidth /\ j <= i /\ (i < TeidWidth => j = i)
    BY Width, Remainder
  <2>3. j \in 1 .. TeidLocalSize - 1 /\ Part \in Parts
    BY <2>1, <2>2, IdSizes, Sizes DEF v_teid_encode
  <2>4. /\ v_teid_encode(Part, j) \in Nat \ {0}
        /\ v_teid_validate(v_teid_encode(Part, j)) = Part
        /\ v_teid_local(v_teid_encode(Part, j)) = j
    BY <2>3, TeidRoundTrip
  <2>5. k # "SEID"
    BY <1>2
  <2> QED
    BY <2>5, <2>1, <2>2, <2>4 DEF Accepted, LocalOf
<1> QED
  BY <1>1, <1>2 DEF Kind

(* A word that fits in two fields is its upper field's multiple of the     *)
(* lower one's size, and the lower field.                                  *)
LEMMA TwoFieldWord ==
  ASSUME NEW a \in Nat \ {0}, NEW b \in Nat \ {0}, NEW w \in Nat, w \div (a * b) = 0
  PROVE  w = ((w \div b) % a) * b + (w % b)
<1>1. PICK m \in Nat \ {0} : m = a * b
  BY Product
<1>2. w \div m = 0 /\ w % m \in 0 .. m - 1 /\ w = (w \div m) * m + (w % m)
  BY <1>1, Rejoin
<1>3. w < m
  BY <1>2
<1>4. PICK q \in Nat, r \in 0 .. b - 1 : q = w \div b /\ r = w % b /\ w = q * b + r
  BY Rejoin
<1>5. q < a
  <2>1. SUFFICES ASSUME q >= a PROVE FALSE
    OBVIOUS
  <2>2. q * b >= a * b
    BY <2>1
  <2>3. PICK x \in Nat : x = q * b
    OBVIOUS
  <2> QED
    BY <1>1, <1>3, <1>4, <2>2, <2>3
<1>6. q % a = q
  BY <1>5, Remainder
<1> QED
  BY <1>4, <1>6

(* v_teid_validate() accepts only what v_teid_encode() makes of the two    *)
(* fields.                                                                 *)
LEMMA TeidAccepted ==
  ASSUME NEW teid \in Nat, v_teid_validate(teid) = Part
  PROVE  teid = Part * TeidLocalSize + v_teid_local(teid)
<1>0. Part \in Nat /\ Part # Err
  BY IdSizes, Sizes DEF Parts, Err
<1>1. teid \div TeidRsvUnit = 0 /\ v_teid_part(teid) = Part
  BY <1>0 DEF v_teid_validate
<1>2. PartSize \in Nat \ {0} /\ TeidLocalSize \in Nat \ {0}
  BY Sizes
<1>3. teid = ((teid \div TeidLocalSize) % PartSize) * TeidLocalSize + (teid % TeidLocalSize)
  BY <1>1, <1>2, TwoFieldWord DEF TeidRsvUnit
<1> QED
  BY <1>1, <1>3 DEF v_teid_part, v_teid_local

(* A word of the partition is determined by its local index.               *)
LEMMA WordOfLocal ==
  ASSUME NEW k \in Kind, NEW v \in Nat, NEW w \in Nat, Accepted(k, v), Accepted(k, w),
         LocalOf(k, v) = LocalOf(k, w)
  PROVE  v = w
<1>0. Part \in Nat /\ Part # Err
  BY IdSizes, Sizes DEF Parts, Err
<1>1. CASE k = "SEID"
  <2>1. v_seid_validate(v) = Part /\ v_seid_validate(w) = Part /\ v_seid_local(v) = v_seid_local(w)
    BY <1>1 DEF Accepted, LocalOf
  <2>2. v_seid_encode(v_seid_validate(v), v_seid_local(v)) = v
        /\ v_seid_encode(v_seid_validate(w), v_seid_local(w)) = w
    BY <1>0, <2>1, SeidAccepted
  <2> QED
    BY <2>1, <2>2
<1>2. CASE k = "TEID"
  <2>0. k # "SEID"
    BY <1>2
  <2>1. v_teid_validate(v) = Part /\ v_teid_validate(w) = Part /\ v_teid_local(v) = v_teid_local(w)
    BY <2>0 DEF Accepted, LocalOf
  <2>2. v = Part * TeidLocalSize + v_teid_local(v) /\ w = Part * TeidLocalSize + v_teid_local(w)
    BY <1>0, <2>1, TeidAccepted
  <2> QED
    BY <2>1, <2>2
<1> QED
  BY <1>1, <1>2 DEF Kind

(* The loops of seid_refill_reply_cb() and teid_refill_reply_cb(): what    *)
(* they add are encodings of different entries of the reply, and the ring  *)
(* never holds more than it can.                                           *)
LEMMA EncodableFinite ==
  ASSUME NEW k \in Kind, NEW ids \in Seq(Nat)
  PROVE  /\ IsFiniteSet(Encodable(k, ids))
         /\ Cardinality(Encodable(k, ids)) \in Nat
         /\ Cardinality(Encodable(k, ids)) <= Len(ids)
<1>1. Len(ids) \in Nat /\ Encodable(k, ids) \in SUBSET (1 .. Len(ids))
  BY DEF Encodable
<1>2. IsFiniteSet(1 .. Len(ids)) /\ Cardinality(1 .. Len(ids)) = Len(ids)
  <2>1. PICK n \in Nat : n = Len(ids)
    BY <1>1
  <2>2. IsFiniteSet(1 .. n) /\ Cardinality(1 .. n) = IF 1 > n THEN 0 ELSE n - 1 + 1
    BY FS_Interval
  <2>3. (IF 1 > n THEN 0 ELSE n - 1 + 1) = n
    OBVIOUS
  <2> QED
    BY <2>1, <2>2, <2>3
<1>3. IsFiniteSet(Encodable(k, ids)) /\ Cardinality(Encodable(k, ids)) <= Cardinality(1 .. Len(ids))
  BY <1>1, <1>2, FS_Subset
<1> QED
  BY <1>2, <1>3, FS_CardinalityType

(* The ring q is r with m encodings of different entries of ids behind it. *)
EnqueuedBy(k, r, ids, f, q, m) ==
  /\ m = Min2(Cardinality(Encodable(k, ids)), RingCap - Len(r))
  /\ Len(r) + m <= RingCap
  /\ q \in Seq(Nat) /\ Len(q) = Len(r) + m
  /\ \A i \in 1 .. Len(r) : q[i] = r[i]
  /\ \A j \in 1 .. m : /\ f[j] \in DOMAIN ids
                       /\ Encoded(k, ids[f[j]]) # Err
                       /\ q[Len(r) + j] = Encoded(k, ids[f[j]])
  /\ \A i, j \in 1 .. m : f[i] = f[j] => i = j

(* The enqueue loop of the refill callback appends the words of the first m*)
(* identifiers that encode, and stops at the capacity of the ring.         *)
LEMMA EnqueuedRing ==
  ASSUME NEW k \in Kind, NEW r \in Seq(Nat), Len(r) <= RingCap, NEW ids \in Seq(Nat),
         NEW f \in InOrder(Encodable(k, ids))
  PROVE  \E m \in Nat : EnqueuedBy(k, r, ids, f, Enqueued(k, r, ids, f), m)
<1>1. PICK c \in Nat : c = Cardinality(Encodable(k, ids))
  BY EncodableFinite
<1>2. RingCap \in Nat /\ Len(r) \in Nat
  BY IdSizes
<1>3. PICK m \in Nat : m = Min2(c, RingCap - Len(r)) /\ m <= c /\ Len(r) + m <= RingCap
  <2>0. RingCap - Len(r) \in Nat
    BY <1>2
  <2>1. PICK d \in Nat : d = RingCap - Len(r)
    BY <2>0
  <2>2. Min2(c, d) \in Nat /\ Min2(c, d) <= c /\ Min2(c, d) <= d
    BY DEF Min2
  <2> QED
    BY <1>2, <2>1, <2>2
<1>4. f \in [1 .. c -> Encodable(k, ids)] /\ \A i, j \in 1 .. c : i < j => f[i] < f[j]
  BY <1>1 DEF InOrder
<1>5. \A j \in 1 .. m : f[j] \in DOMAIN ids /\ Encoded(k, ids[f[j]]) # Err /\ ids[f[j]] \in Nat
  <2>1. SUFFICES ASSUME NEW j \in 1 .. m
                 PROVE  f[j] \in DOMAIN ids /\ Encoded(k, ids[f[j]]) # Err /\ ids[f[j]] \in Nat
    OBVIOUS
  <2>2. f[j] \in Encodable(k, ids)
    BY <1>3, <1>4
  <2>3. f[j] \in DOMAIN ids /\ Encoded(k, ids[f[j]]) # Err
    BY <2>2 DEF Encodable
  <2> QED
    BY <2>3
<1>6. \A i, j \in 1 .. m : f[i] = f[j] => i = j
  <2>1. SUFFICES ASSUME NEW i \in 1 .. m, NEW j \in 1 .. m, f[i] = f[j], i < j
                 PROVE  FALSE
    <3>1. \A i, j \in 1 .. m : i = j \/ i < j \/ j < i
      OBVIOUS
    <3> QED
      BY <3>1
  <2>2. f[i] < f[j] /\ i \in 1 .. c
    BY <1>3, <1>4, <2>1
  <2>3. f[i] \in Nat
    BY <1>5
  <2> QED
    BY <2>1, <2>2, <2>3
<1> DEFINE e == [j \in 1 .. m |-> Encoded(k, ids[f[j]])]
<1>7. \A j \in 1 .. m : Encoded(k, ids[f[j]]) \in Nat
  BY <1>5, EncodedWord
<1>8. e \in Seq(Nat) /\ Len(e) = m /\ \A j \in 1 .. m : e[j] = Encoded(k, ids[f[j]])
  BY <1>7
<1>9. Enqueued(k, r, ids, f) = r \o e
  BY <1>1, <1>3 DEF Enqueued
<1>10. /\ r \o e \in Seq(Nat) /\ Len(r \o e) = Len(r) + m
       /\ \A i \in 1 .. Len(r) + m : (r \o e)[i] = IF i <= Len(r) THEN r[i] ELSE e[i - Len(r)]
  <2> HIDE DEF e
  <2>1. /\ r \o e \in Seq(Nat) /\ Len(r \o e) = Len(r) + Len(e)
        /\ \A i \in 1 .. Len(r) + Len(e) : (r \o e)[i] = IF i <= Len(r) THEN r[i] ELSE e[i - Len(r)]
    BY <1>8, ConcatProperties
  <2> QED
    BY <1>8, <2>1
<1> HIDE DEF e
<1>11. \A i \in 1 .. Len(r) : (r \o e)[i] = r[i]
  BY <1>2, <1>10
<1>12. \A j \in 1 .. m : (r \o e)[Len(r) + j] = Encoded(k, ids[f[j]])
  <2>1. SUFFICES ASSUME NEW j \in 1 .. m PROVE (r \o e)[Len(r) + j] = Encoded(k, ids[f[j]])
    OBVIOUS
  <2>2. Len(r) + j \in 1 .. Len(r) + m /\ ~(Len(r) + j <= Len(r)) /\ Len(r) + j - Len(r) = j
    BY <1>2
  <2>3. (r \o e)[Len(r) + j] = e[j]
    BY <2>2, <1>10
  <2> QED
    BY <2>3, <1>8
<1>13. \A j \in 1 .. m : /\ f[j] \in DOMAIN ids
                         /\ Encoded(k, ids[f[j]]) # Err
                         /\ Enqueued(k, r, ids, f)[Len(r) + j] = Encoded(k, ids[f[j]])
  BY <1>5, <1>9, <1>12
<1>14. m = Min2(Cardinality(Encodable(k, ids)), RingCap - Len(r)) /\ Len(r) + m <= RingCap
  BY <1>1, <1>3
<1>15. /\ Enqueued(k, r, ids, f) \in Seq(Nat)
       /\ Len(Enqueued(k, r, ids, f)) = Len(r) + m
       /\ \A i \in 1 .. Len(r) : Enqueued(k, r, ids, f)[i] = r[i]
  BY <1>9, <1>10, <1>11
<1> QED
  BY <1>6, <1>13, <1>14, <1>15, Zenon DEF EnqueuedBy

-----------------------------------------------------------------------------
(* Types.                                                                  *)

(* Any change of one pod's queue keeps the type of the queues.             *)
LEMMA QueueType ==
  ASSUME NEW S, NEW q \in [Pod -> Seq(S)], NEW p \in Pod, NEW t \in Seq(S)
  PROVE  [q EXCEPT ![p] = t] \in [Pod -> Seq(S)]
  OBVIOUS

(* Any change of one pod's ring that keeps the ring's bounds keeps all.    *)
LEMMA RingType ==
  ASSUME IdTypeOK, NEW p \in Pod, NEW k \in Kind, NEW t \in Seq(Word), Len(t) <= RingCap,
         ring' = [ring EXCEPT ![k][p] = t]
  PROVE  /\ ring' \in [Kind -> [Pod -> Seq(Word)]]
         /\ \A l \in Kind, q \in Pod : Len(ring'[l][q]) <= RingCap
         /\ ring'[k][p] = t
         /\ \A l \in Kind, q \in Pod : l # k \/ q # p => ring'[l][q] = ring[l][q]
  BY DEF IdTypeOK

(* Initially nothing is leased.                                            *)
LEMMA InitType == Init => IdTypeOK
<1>1. << >> \in Seq(Local) /\ << >> \in Seq(Word) /\ << >> \in Seq(Command) /\ << >> \in Seq(Refill)
      /\ Len(<< >>) = 0
  OBVIOUS
<1>2. 0 <= RingCap
  BY IdSizes
<1> SUFFICES ASSUME Init PROVE IdTypeOK
  OBVIOUS
<1>3. /\ seidNext \in Nat /\ teidNext \in Nat /\ teidFree \in Seq(Local)
      /\ phase \in [Pod -> {"down", "refill", "up"}]
      /\ ring \in [Kind -> [Pod -> Seq(Word)]]
      /\ conn \in [Pod -> Seq(Command)]
      /\ replies \in [Pod -> Seq(Refill)]
  BY <1>1 DEF Init
<1>4. \A k \in Kind, p \in Pod : Len(ring[k][p]) <= RingCap
  BY <1>1, <1>2 DEF Init
<1>5. /\ inflight \in [Kind -> [Pod -> BOOLEAN]] /\ seeded \in [Pod -> BOOLEAN]
      /\ pc \in [Pod \X Lcore -> {Resting} \cup ({"claim", "take"} \X Kind)]
      /\ held \in [Kind -> SUBSET Word]
  BY DEF Init
<1> QED
  BY <1>3, <1>4, <1>5 DEF IdTypeOK

(* v_id_alloc_init() and AllocClaim put commands at the end of a pod's     *)
(* connection that free nothing.                                           *)
LEMMA InitSends ==
  ASSUME IdTypeOK, NEW p \in Pod, v_id_alloc_init(p)
  PROVE  \E c \in Seq(Command) :
           /\ conn' = [conn EXCEPT ![p] = @ \o c]
           /\ \A i \in DOMAIN c : c[i].op # "RPUSH"
<1>1. PICK s \in RefillSends(p, "SEID"), t \in RefillSends(p, "TEID") :
        conn' = [conn EXCEPT ![p] = @ \o s \o t]
  BY DEF v_id_alloc_init
<1>2. s \in Seq(Command) /\ t \in Seq(Command) /\ conn[p] \in Seq(Command)
      /\ (\A i \in DOMAIN s : s[i].op # "RPUSH") /\ (\A i \in DOMAIN t : t[i].op # "RPUSH")
  <2>1. "SEID" \in Kind /\ "TEID" \in Kind
    BY DEF Kind
  <2>2. s \in Seq(Command) /\ \A i \in DOMAIN s : s[i].op # "RPUSH"
    BY <2>1, SendsType
  <2>3. t \in Seq(Command) /\ \A i \in DOMAIN t : t[i].op # "RPUSH"
    BY <2>1, SendsType
  <2> QED
    BY <2>2, <2>3 DEF IdTypeOK
<1>3. (conn[p] \o s) \o t = conn[p] \o (s \o t)
  <2>1. \A a, b, c \in Seq(Command) : (a \o b) \o c = a \o (b \o c)
    BY ConcatAssociative, SMTT(20)
  <2> QED
    BY <1>2, <2>1, Zenon
<1>4. s \o t \in Seq(Command) /\ Len(s \o t) = Len(s) + Len(t)
      /\ \A i \in 1 .. Len(s) + Len(t) : (s \o t)[i] = IF i <= Len(s) THEN s[i] ELSE t[i - Len(s)]
  BY <1>2, ConcatProperties
<1>5. DOMAIN (s \o t) = 1 .. Len(s) + Len(t) /\ Len(s) \in Nat /\ Len(t) \in Nat
      /\ DOMAIN s = 1 .. Len(s) /\ DOMAIN t = 1 .. Len(t)
  BY <1>2, <1>4, LenProperties
<1>6. \A i \in DOMAIN (s \o t) : (s \o t)[i].op # "RPUSH"
  <2>1. SUFFICES ASSUME NEW i \in 1 .. Len(s) + Len(t) PROVE (s \o t)[i].op # "RPUSH"
    BY <1>5
  <2>2. CASE i <= Len(s)
    BY <2>2, <1>2, <1>4, <1>5
  <2>3. CASE ~(i <= Len(s))
    <3>1. i - Len(s) \in DOMAIN t /\ (s \o t)[i] = t[i - Len(s)]
      BY <2>3, <1>4, <1>5
    <3> QED
      BY <3>1, <1>2
  <2> QED
    BY <2>2, <2>3
<1>7. conn' = [conn EXCEPT ![p] = @ \o (s \o t)]
  BY <1>1, <1>3
<1> QED
  BY <1>4, <1>6, <1>7

(* A claimed refill appends commands that free nothing.                    *)
LEMMA ClaimSends ==
  ASSUME IdTypeOK, NEW p \in Pod, NEW l \in Lcore, NEW k \in Kind, AllocClaim(p, l, k)
  PROVE  \E c \in Seq(Command) :
           /\ conn' = [conn EXCEPT ![p] = @ \o c]
           /\ \A i \in DOMAIN c : c[i].op # "RPUSH"
<1>1. PICK s \in RefillSends(p, k) : conn' = [conn EXCEPT ![p] = @ \o s]
  BY DEF AllocClaim
<1> QED
  BY <1>1, SendsType

(* Appending to a pod's connection keeps its type.                         *)
LEMMA SentType ==
  ASSUME IdTypeOK, NEW p \in Pod, NEW c \in Seq(Command), conn' = [conn EXCEPT ![p] = @ \o c]
  PROVE  /\ conn' \in [Pod -> Seq(Command)]
         /\ conn'[p] = conn[p] \o c
         /\ \A q \in Pod : q # p => conn'[q] = conn[q]
         /\ conn[p] \in Seq(Command)
<1>1. conn \in [Pod -> Seq(Command)] /\ conn[p] \in Seq(Command)
  BY DEF IdTypeOK
<1>2. conn[p] \o c \in Seq(Command)
  BY <1>1, ConcatProperties
<1> QED
  BY <1>1, <1>2

(* The flags stay Boolean whatever a step writes into them.                *)
LEMMA RefillingType ==
  ASSUME NEW s
  PROVE  Refilling(s) \in BOOLEAN
  BY DEF Refilling

(* v_id_alloc_init() keeps the types: it sends two refills and sets the    *)
(* flags of those that went out.                                           *)
LEMMA InitCallType ==
  ASSUME IdTypeOK, NEW p \in Pod, v_id_alloc_init(p)
  PROVE  IdTypeOK'
<1>1. conn' \in [Pod -> Seq(Command)]
  BY InitSends, SentType
<1>2. PICK a \in BOOLEAN, b \in BOOLEAN :
        inflight' = [inflight EXCEPT !["SEID"][p] = a, !["TEID"][p] = b]
  <2>1. PICK s \in RefillSends(p, "SEID"), t \in RefillSends(p, "TEID") :
          /\ conn' = [conn EXCEPT ![p] = @ \o s \o t]
          /\ inflight' = [inflight EXCEPT !["SEID"][p] = Refilling(s), !["TEID"][p] = Refilling(t)]
    BY Zenon DEF v_id_alloc_init
  <2>2. Refilling(s) \in BOOLEAN /\ Refilling(t) \in BOOLEAN
    BY RefillingType
  <2> QED
    BY <2>1, <2>2, Zenon
<1>3. inflight' \in [Kind -> [Pod -> BOOLEAN]]
  BY <1>2 DEF IdTypeOK, Kind
<1>4. /\ phase' \in [Pod -> {"down", "refill", "up"}] /\ seeded' \in [Pod -> BOOLEAN]
      /\ UNCHANGED <<seidNext, teidNext, teidFree, ring, pc, replies, held>>
  BY DEF v_id_alloc_init, IdTypeOK, redis
<1> QED
  BY <1>1, <1>3, <1>4 DEF IdTypeOK

(* v_id_alloc_ready() changes the phase of the pod only.                   *)
LEMMA ReadyType ==
  ASSUME IdTypeOK, NEW p \in Pod, v_id_alloc_ready(p)
  PROVE  IdTypeOK'
  BY DEF v_id_alloc_ready, IdTypeOK, redis

(* A pod that crashes or gives up at start-up empties its rings,           *)
(* connection and replies.                                                 *)
LEMMA ExitType ==
  ASSUME IdTypeOK, NEW p \in Pod, Exit(p)
  PROVE  IdTypeOK'
<1>1. << >> \in Seq(Word) /\ << >> \in Seq(Command) /\ << >> \in Seq(Refill) /\ Len(<< >>) = 0
      /\ 0 <= RingCap
  BY IdSizes
<1>2. ring' \in [Kind -> [Pod -> Seq(Word)]]
      /\ \A k \in Kind, q \in Pod : ring'[k][q] = IF q = p THEN << >> ELSE ring[k][q]
  BY <1>1 DEF Exit, IdTypeOK
<1>3. \A k \in Kind, q \in Pod : Len(ring'[k][q]) <= RingCap
  BY <1>1, <1>2 DEF IdTypeOK
<1>4. inflight' \in [Kind -> [Pod -> BOOLEAN]] /\ phase' \in [Pod -> {"down", "refill", "up"}]
      /\ seeded' \in [Pod -> BOOLEAN]
  BY DEF Exit, IdTypeOK
<1>5. conn' \in [Pod -> Seq(Command)] /\ replies' \in [Pod -> Seq(Refill)]
  BY <1>1 DEF Exit, IdTypeOK
<1>6. pc' \in [Pod \X Lcore -> {Resting} \cup ({"claim", "take"} \X Kind)]
  BY DEF Exit, IdTypeOK
<1>7. UNCHANGED <<seidNext, teidNext, teidFree, held>>
  BY DEF Exit, redis
<1> QED
  BY <1>2, <1>3, <1>4, <1>5, <1>6, <1>7 DEF IdTypeOK

(* The watermark test changes the caller's program counter only.           *)
LEMMA CheckType ==
  ASSUME IdTypeOK, NEW p \in Pod, NEW l \in Lcore, NEW k \in Kind, AllocCheck(p, l, k)
  PROVE  IdTypeOK'
<1>1. PICK a \in {"claim", "take"} : pc' = [pc EXCEPT ![<<p, l>>] = <<a, k>>]
  BY DEF AllocCheck
<1>2. pc' \in [Pod \X Lcore -> {Resting} \cup ({"claim", "take"} \X Kind)]
  BY <1>1 DEF IdTypeOK
<1>3. UNCHANGED <<seidNext, teidNext, teidFree, phase, ring, inflight, seeded, conn, replies, held>>
  BY DEF AllocCheck, redis
<1> QED
  BY <1>2, <1>3 DEF IdTypeOK

(* The claim of a refill keeps the types.                                  *)
LEMMA ClaimType ==
  ASSUME IdTypeOK, NEW p \in Pod, NEW l \in Lcore, NEW k \in Kind, AllocClaim(p, l, k)
  PROVE  IdTypeOK'
<1>1. conn' \in [Pod -> Seq(Command)]
  BY ClaimSends, SentType
<1>2. pc' = [pc EXCEPT ![<<p, l>>] = <<"take", k>>]
  BY DEF AllocClaim
<1>3. pc' \in [Pod \X Lcore -> {Resting} \cup ({"claim", "take"} \X Kind)]
  BY <1>2 DEF IdTypeOK
<1>4. PICK a \in BOOLEAN : inflight' = [inflight EXCEPT ![k][p] = a]
  BY RefillingType DEF AllocClaim
<1>5. inflight' \in [Kind -> [Pod -> BOOLEAN]]
  BY <1>4 DEF IdTypeOK
<1>6. seeded' \in [Pod -> BOOLEAN]
  BY DEF AllocClaim, IdTypeOK
<1>7. UNCHANGED <<seidNext, teidNext, teidFree, phase, ring, replies, held>>
  BY DEF AllocClaim, redis
<1> QED
  BY <1>1, <1>3, <1>5, <1>6, <1>7 DEF IdTypeOK

(* The dequeue takes the first word of a ring, if there is one.            *)
LEMMA TakeFacts ==
  ASSUME IdTypeOK, NEW p \in Pod, NEW l \in Lcore, NEW k \in Kind, AllocTake(p, l, k),
         ring[k][p] # << >>
  PROVE  /\ ring[k][p] \in Seq(Nat) /\ Len(ring[k][p]) \in Nat /\ 1 \in DOMAIN ring[k][p]
         /\ Len(ring[k][p]) <= RingCap
         /\ ring' = [ring EXCEPT ![k][p] = Tail(ring[k][p])]
         /\ Tail(ring[k][p]) \in Seq(Nat)
         /\ Len(Tail(ring[k][p])) = Len(ring[k][p]) - 1
         /\ \A i \in 1 .. Len(ring[k][p]) - 1 : Tail(ring[k][p])[i] = ring[k][p][i + 1]
         /\ held' = [held EXCEPT ![k] = held[k] \cup {ring[k][p][1]}]
         /\ ring[k][p][1] \in Nat
<1>1. ring[k][p] \in Seq(Nat) /\ Len(ring[k][p]) <= RingCap
  BY DEF IdTypeOK, Word
<1>2. Len(ring[k][p]) \in Nat /\ 1 \in DOMAIN ring[k][p] /\ Head(ring[k][p]) = ring[k][p][1]
  BY <1>1
<1>3. /\ Head(ring[k][p]) \in Nat /\ Tail(ring[k][p]) \in Seq(Nat)
      /\ Len(Tail(ring[k][p])) = Len(ring[k][p]) - 1
      /\ \A i \in 1 .. Len(Tail(ring[k][p])) : Tail(ring[k][p])[i] = ring[k][p][i + 1]
  BY <1>1, HeadTailProperties
<1>4. ring' = [ring EXCEPT ![k][p] = Tail(@)]
      /\ held' = [held EXCEPT ![k] = @ \cup {Head(ring[k][p])}]
  BY DEF AllocTake
<1>5. ring' = [ring EXCEPT ![k][p] = Tail(ring[k][p])]
  BY <1>4 DEF IdTypeOK
<1>6. held' = [held EXCEPT ![k] = held[k] \cup {ring[k][p][1]}]
  BY <1>2, <1>4
<1> QED
  BY <1>1, <1>2, <1>3, <1>5, <1>6

(* The dequeue keeps the types: a ring gets shorter and the word it held is*)
(* held by a session.                                                      *)
LEMMA TakeType ==
  ASSUME IdTypeOK, NEW p \in Pod, NEW l \in Lcore, NEW k \in Kind, AllocTake(p, l, k)
  PROVE  IdTypeOK'
<1>1. pc' \in [Pod \X Lcore -> {Resting} \cup ({"claim", "take"} \X Kind)]
  BY DEF AllocTake, IdTypeOK
<1>2. UNCHANGED <<seidNext, teidNext, teidFree, phase, inflight, seeded, conn, replies>>
  BY DEF AllocTake, redis
<1>3. CASE ring[k][p] = << >>
  <2>1. UNCHANGED <<ring, held>>
    BY <1>3 DEF AllocTake
  <2> QED
    BY <1>1, <1>2, <2>1 DEF IdTypeOK
<1>4. CASE ring[k][p] # << >>
  <2>0. /\ Tail(ring[k][p]) \in Seq(Word) /\ Len(Tail(ring[k][p])) <= RingCap
        /\ ring' = [ring EXCEPT ![k][p] = Tail(ring[k][p])]
        /\ held' = [held EXCEPT ![k] = held[k] \cup {ring[k][p][1]}]
        /\ ring[k][p][1] \in Word
    <3>1. /\ Len(ring[k][p]) \in Nat /\ Len(ring[k][p]) <= RingCap
          /\ Len(Tail(ring[k][p])) = Len(ring[k][p]) - 1
      BY <1>4, TakeFacts
    <3>2. Len(Tail(ring[k][p])) <= RingCap
      BY <3>1, IdSizes
    <3> QED
      BY <1>4, <3>2, TakeFacts, Zenon DEF Word
  <2>1. PICK t \in Seq(Word) : t = Tail(ring[k][p]) /\ Len(t) <= RingCap
          /\ ring' = [ring EXCEPT ![k][p] = t]
    BY <2>0, Zenon
  <2>2. ring' \in [Kind -> [Pod -> Seq(Word)]] /\ \A j \in Kind, q \in Pod : Len(ring'[j][q]) <= RingCap
    BY <2>1, RingType
  <2>3. held' \in [Kind -> SUBSET Word]
    <3>1. PICK w \in Word : held' = [held EXCEPT ![k] = held[k] \cup {w}]
      BY <2>0, Zenon
    <3> QED
      BY <3>1 DEF IdTypeOK
  <2> QED
    BY <1>1, <1>2, <2>2, <2>3 DEF IdTypeOK
<1> QED
  BY <1>3, <1>4

(* A TEID's local index is a number.                                       *)
LEMMA TeidLocalType ==
  ASSUME NEW teid \in Nat
  PROVE  v_teid_local(teid) \in Nat
<1>1. TeidLocalSize \in Nat \ {0}
  BY Sizes
<1> QED
  BY <1>1, Remainder DEF v_teid_local

(* v_teid_free() sends one RPUSH, or nothing when it cannot be dispatched. *)
LEMMA FreeSends ==
  ASSUME IdTypeOK, NEW p \in Pod, NEW teid \in held["TEID"], v_teid_free(p, teid)
  PROVE  /\ teid \in Nat /\ v_teid_local(teid) \in Nat
         /\ Cmd("RPUSH", v_teid_local(teid)) \in Command
         /\ \E c \in Seq(Command) :
              /\ conn' = [conn EXCEPT ![p] = @ \o c]
              /\ c = << >> \/ c = << Cmd("RPUSH", v_teid_local(teid)) >>
<1>1. teid \in Nat
  BY DEF IdTypeOK, Kind, Word
<1>2. v_teid_local(teid) \in Nat
  BY <1>1, TeidLocalType
<1>3. Cmd("RPUSH", v_teid_local(teid)) \in Command
  BY <1>2 DEF Cmd, Command, Local
<1>4. PICK c \in Attempt("RPUSH", v_teid_local(teid)) : conn' = [conn EXCEPT ![p] = @ \o c]
  BY DEF v_teid_free
<1>5. c = << >> \/ c = << Cmd("RPUSH", v_teid_local(teid)) >>
  BY Attempts
<1>6. << >> \in Seq(Command) /\ << Cmd("RPUSH", v_teid_local(teid)) >> \in Seq(Command)
  BY <1>3, OneElement, EmptySeq
<1>7. c \in Seq(Command)
  BY <1>5, <1>6, Zenon
<1> QED
  BY <1>1, <1>2, <1>3, <1>4, <1>5, <1>7

(* v_teid_free() keeps the types: an RPUSH of a number joins the           *)
(* connection.                                                             *)
LEMMA FreeType ==
  ASSUME IdTypeOK, NEW p \in Pod, NEW teid \in held["TEID"], v_teid_free(p, teid)
  PROVE  IdTypeOK'
<1>1. conn' \in [Pod -> Seq(Command)]
  BY FreeSends, SentType
<1>2. held' \in [Kind -> SUBSET Word]
  BY DEF v_teid_free, IdTypeOK, Kind
<1>3. UNCHANGED <<seidNext, teidNext, teidFree, phase, ring, inflight, seeded, pc, replies>>
  BY DEF v_teid_free, redis
<1> QED
  BY <1>1, <1>2, <1>3 DEF IdTypeOK

(* A lost connection keeps the types: what it carried is gone.             *)
LEMMA DisconnectType ==
  ASSUME IdTypeOK, NEW p \in Pod, Disconnect(p)
  PROVE  IdTypeOK'
<1>1. << >> \in Seq(Command) /\ << >> \in Seq(Refill)
  OBVIOUS
<1>2. conn' \in [Pod -> Seq(Command)] /\ replies' \in [Pod -> Seq(Refill)]
  BY <1>1 DEF Disconnect, IdTypeOK
<1>3. inflight' \in [Kind -> [Pod -> BOOLEAN]]
  BY DEF Disconnect, IdTypeOK
<1>4. UNCHANGED <<seidNext, teidNext, teidFree, phase, ring, seeded, pc, held>>
  BY DEF Disconnect, redis
<1> QED
  BY <1>2, <1>3, <1>4 DEF IdTypeOK

(* A reply is queued behind the earlier ones.                              *)
LEMMA Replied ==
  ASSUME IdTypeOK, NEW p \in Pod, NEW x \in Refill, replies' = [replies EXCEPT ![p] = Append(@, x)]
  PROVE  /\ replies' \in [Pod -> Seq(Refill)]
         /\ Len(replies[p]) \in Nat /\ Len(replies'[p]) = Len(replies[p]) + 1
         /\ \A n \in 1 .. Len(replies[p]) : replies'[p][n] = replies[p][n]
         /\ replies'[p][Len(replies[p]) + 1] = x
         /\ \A q \in Pod : q # p => replies'[q] = replies[q]
<1>1. replies \in [Pod -> Seq(Refill)] /\ replies[p] \in Seq(Refill)
  BY DEF IdTypeOK
<1>2. /\ Append(replies[p], x) \in Seq(Refill)
      /\ Len(Append(replies[p], x)) = Len(replies[p]) + 1
      /\ \A n \in 1 .. Len(replies[p]) : Append(replies[p], x)[n] = replies[p][n]
      /\ Append(replies[p], x)[Len(replies[p]) + 1] = x
  BY <1>1, AppendProperties
<1>3. replies' = [replies EXCEPT ![p] = Append(replies[p], x)]
  OBVIOUS
<1>4. replies' \in [Pod -> Seq(Refill)] /\ replies'[p] = Append(replies[p], x)
      /\ \A q \in Pod : q # p => replies'[q] = replies[q]
  BY <1>1, <1>2, <1>3
<1> QED
  BY <1>1, <1>2, <1>4, LenProperties

(* INCRBY leases the next block of SEIDs.                                  *)
LEMMA IncrByFacts ==
  ASSUME IdTypeOK, NEW p \in Pod, IncrBy(p)
  PROVE  /\ seidNext' = seidNext + V_ID_BLK_SIZE
         /\ UNCHANGED <<teidNext, teidFree>>
         /\ [kind |-> "SEID", ids |-> Block(seidNext)] \in Refill
         /\ replies' = [replies EXCEPT ![p] = Append(@, [kind |-> "SEID", ids |-> Block(seidNext)])]
<1>1. seidNext \in Nat /\ V_ID_BLK_SIZE \in Nat
  BY IdSizes DEF IdTypeOK
<1>2. seidNext' = seidNext + V_ID_BLK_SIZE /\ UNCHANGED <<teidNext, teidFree>>
      /\ replies' = [replies EXCEPT ![p] =
                       Append(@, [kind |-> "SEID", ids |-> Block(seidNext' - V_ID_BLK_SIZE)])]
  BY DEF IncrBy
<1>3. seidNext' - V_ID_BLK_SIZE = seidNext
  BY <1>1, <1>2
<1>4. Block(seidNext) \in Seq(Nat)
  BY <1>1, BlockIds
<1> QED
  BY <1>2, <1>3, <1>4 DEF Refill, Kind, Local

(* V_LUA_TEID_REFILL when the free list is deep enough: its first entries  *)
(* move into the reply.                                                    *)
LEMMA PopFacts ==
  ASSUME IdTypeOK, NEW p \in Pod, TeidRefill(p), Len(teidFree) > V_TEID_FREE_FLOOR
  PROVE  \E n \in Nat, x \in Refill :
           /\ n <= Len(teidFree) /\ n <= V_ID_BLK_SIZE /\ n > 0 /\ x.kind = "TEID"
           /\ Len(x.ids) = n /\ \A i \in 1 .. n : x.ids[i] = teidFree[i]
           /\ replies' = [replies EXCEPT ![p] = Append(@, x)]
           /\ teidFree' \in Seq(Nat) /\ Len(teidFree') = Len(teidFree) - n
           /\ \A i \in 1 .. Len(teidFree) - n : teidFree'[i] = teidFree[n + i]
           /\ UNCHANGED <<seidNext, teidNext>>
<1>1. teidFree \in Seq(Nat) /\ V_ID_BLK_SIZE \in Nat /\ V_ID_BLK_SIZE > 0 /\ V_TEID_FREE_FLOOR \in Nat
  BY IdSizes DEF IdTypeOK, Local
<1>2. PICK len \in Nat : len = Len(teidFree) /\ \A i \in 1 .. len : teidFree[i] \in Nat
  BY <1>1
<1>3. PICK n \in Nat : n = Min2(Len(teidFree), V_ID_BLK_SIZE) /\ n <= len /\ n <= V_ID_BLK_SIZE /\ n > 0
  BY <1>1, <1>2 DEF Min2
<1>4. /\ SubSeq(teidFree, 1, n) \in Seq(Nat)
      /\ Len(SubSeq(teidFree, 1, n)) = IF 1 <= n THEN n - 1 + 1 ELSE 0
      /\ \A i \in 1 .. n - 1 + 1 : SubSeq(teidFree, 1, n)[i] = teidFree[1 + i - 1]
  BY <1>2, <1>3, SubSeqProperties
<1>5. Len(SubSeq(teidFree, 1, n)) = n /\ \A i \in 1 .. n : SubSeq(teidFree, 1, n)[i] = teidFree[i]
  <2>1. \A i \in 1 .. n : 1 + i - 1 = i /\ i \in 1 .. n - 1 + 1
    BY <1>3
  <2> QED
    BY <1>3, <1>4, <2>1
<1>6. /\ SubSeq(teidFree, n + 1, len) \in Seq(Nat)
      /\ Len(SubSeq(teidFree, n + 1, len)) = IF n + 1 <= len THEN len - (n + 1) + 1 ELSE 0
      /\ \A i \in 1 .. len - (n + 1) + 1 : SubSeq(teidFree, n + 1, len)[i] = teidFree[n + 1 + i - 1]
  <2>1. n + 1 \in Int /\ len \in Int /\ \A i \in n + 1 .. len : teidFree[i] \in Nat
    BY <1>2, <1>3
  <2> QED
    BY <2>1, SubSeqProperties
<1>7. Len(SubSeq(teidFree, n + 1, len)) = len - n
      /\ \A i \in 1 .. len - n : SubSeq(teidFree, n + 1, len)[i] = teidFree[n + i]
  <2>1. \A i \in 1 .. len - n : n + 1 + i - 1 = n + i /\ i \in 1 .. len - (n + 1) + 1
    BY <1>2, <1>3
  <2>2. (IF n + 1 <= len THEN len - (n + 1) + 1 ELSE 0) = len - n
    BY <1>2, <1>3
  <2> QED
    BY <1>6, <2>1, <2>2
<1>8. /\ teidFree' = SubSeq(teidFree, n + 1, Len(teidFree))
      /\ replies' = [replies EXCEPT ![p] = Append(@, [kind |-> "TEID", ids |-> SubSeq(teidFree, 1, n)])]
      /\ UNCHANGED <<seidNext, teidNext>>
  BY <1>3 DEF TeidRefill
<1>9. PICK x \in Refill : x = [kind |-> "TEID", ids |-> SubSeq(teidFree, 1, n)]
  BY <1>4 DEF Refill, Kind, Local
<1>10. x.kind = "TEID" /\ x.ids = SubSeq(teidFree, 1, n)
  BY <1>9
<1>11. Len(x.ids) = n /\ \A i \in 1 .. n : x.ids[i] = teidFree[i]
  BY <1>5, <1>10, Zenon
<1>12. teidFree' \in Seq(Nat) /\ Len(teidFree') = Len(teidFree) - n
       /\ \A i \in 1 .. Len(teidFree) - n : teidFree'[i] = teidFree[n + i]
  BY <1>2, <1>6, <1>7, <1>8, Zenon
<1>13. replies' = [replies EXCEPT ![p] = Append(@, x)]
  BY <1>8, <1>9, Zenon
<1> QED
  BY <1>2, <1>3, <1>8, <1>10, <1>11, <1>12, <1>13, Zenon

(* V_LUA_TEID_REFILL otherwise: the next block of TEIDs is leased.         *)
LEMMA BumpFacts ==
  ASSUME IdTypeOK, NEW p \in Pod, TeidRefill(p), ~(Len(teidFree) > V_TEID_FREE_FLOOR)
  PROVE  /\ teidNext' = teidNext + V_ID_BLK_SIZE
         /\ UNCHANGED <<seidNext, teidFree>>
         /\ [kind |-> "TEID", ids |-> Block(teidNext)] \in Refill
         /\ replies' = [replies EXCEPT ![p] = Append(@, [kind |-> "TEID", ids |-> Block(teidNext)])]
<1>1. Block(teidNext) \in Seq(Nat)
  BY BlockIds DEF IdTypeOK
<1> QED
  BY <1>1 DEF TeidRefill, Refill, Kind, Local

(* Redis takes the oldest command off the connection.                      *)
LEMMA ExecTakes ==
  ASSUME IdTypeOK, NEW p \in Pod, RedisExec(p)
  PROVE  /\ conn[p] # << >>
         /\ conn' \in [Pod -> Seq(Command)]
         /\ Len(conn[p]) \in Nat /\ 1 \in DOMAIN conn[p] /\ conn[p][1] \in Command
         /\ DOMAIN conn[p] = 1 .. Len(conn[p])
         /\ conn'[p] = Tail(conn[p]) /\ Len(conn'[p]) = Len(conn[p]) - 1
         /\ \A n \in 1 .. Len(conn[p]) - 1 : conn'[p][n] = conn[p][n + 1]
         /\ \A q \in Pod : q # p => conn'[q] = conn[q]
         /\ UNCHANGED <<phase, ring, inflight, seeded, pc, held>>
         /\ \/ conn[p][1].op = "INCRBY" /\ IncrBy(p)
            \/ conn[p][1].op = "SETNX" /\ SetNx
            \/ conn[p][1].op = "REFILL" /\ TeidRefill(p)
            \/ conn[p][1].op = "RPUSH" /\ RPush(conn[p][1].id)
<1>1. conn[p] # << >> /\ conn' = [conn EXCEPT ![p] = Tail(@)]
      /\ UNCHANGED <<phase, ring, inflight, seeded, pc, held>>
  BY DEF RedisExec
<1>2. /\ Head(conn[p]) = conn[p][1] /\ 1 \in DOMAIN conn[p] /\ conn[p][1] \in Command
      /\ Tail(conn[p]) \in Seq(Command)
      /\ Len(conn[p]) \in Nat /\ Len(Tail(conn[p])) = Len(conn[p]) - 1
      /\ \A n \in 1 .. Len(conn[p]) - 1 : Tail(conn[p])[n] = conn[p][n + 1]
  BY <1>1, ConnHead
<1>3. conn \in [Pod -> Seq(Command)] /\ conn[p] \in Seq(Command)
  BY DEF IdTypeOK
<1>4. conn' \in [Pod -> Seq(Command)] /\ conn'[p] = Tail(conn[p])
      /\ \A q \in Pod : q # p => conn'[q] = conn[q]
  BY <1>1, <1>2, <1>3
<1>5. \/ Head(conn[p]).op = "INCRBY" /\ IncrBy(p)
      \/ Head(conn[p]).op = "SETNX" /\ SetNx
      \/ Head(conn[p]).op = "REFILL" /\ TeidRefill(p)
      \/ Head(conn[p]).op = "RPUSH" /\ RPush(Head(conn[p]).id)
  BY DEF RedisExec
<1>6. DOMAIN conn[p] = 1 .. Len(conn[p])
  BY <1>3
<1> QED
  BY <1>1, <1>2, <1>4, <1>5, <1>6

(* Redis keeps the types, whichever command it runs.                       *)
LEMMA ExecType ==
  ASSUME IdTypeOK, NEW p \in Pod, RedisExec(p)
  PROVE  IdTypeOK'
<1>1. conn' \in [Pod -> Seq(Command)] /\ UNCHANGED <<phase, ring, inflight, seeded, pc, held>>
      /\ conn[p][1].id \in Nat
  BY ExecTakes DEF Command, Local
<1>2. ASSUME seidNext' \in Nat, teidNext' \in Nat, teidFree' \in Seq(Nat), replies' \in [Pod -> Seq(Refill)]
      PROVE  IdTypeOK'
  BY <1>1, <1>2 DEF IdTypeOK, Local
<1>3. seidNext \in Nat /\ teidNext \in Nat /\ teidFree \in Seq(Nat) /\ replies \in [Pod -> Seq(Refill)]
      /\ V_ID_BLK_SIZE \in Nat
  BY IdSizes DEF IdTypeOK, Local
<1>4. CASE IncrBy(p)
  <2>1. replies' \in [Pod -> Seq(Refill)]
    BY <1>4, IncrByFacts, Replied
  <2>2. seidNext' \in Nat /\ UNCHANGED <<teidNext, teidFree>>
    BY <1>3, <1>4, IncrByFacts
  <2> QED
    BY <1>2, <1>3, <2>1, <2>2
<1>5. CASE SetNx
  BY <1>2, <1>3, <1>5 DEF SetNx
<1>6. CASE TeidRefill(p)
  <2>1. CASE Len(teidFree) > V_TEID_FREE_FLOOR
    <3>1. PICK x \in Refill : /\ replies' = [replies EXCEPT ![p] = Append(@, x)]
                              /\ teidFree' \in Seq(Nat) /\ UNCHANGED <<seidNext, teidNext>>
      BY <1>6, <2>1, PopFacts
    <3>2. replies' \in [Pod -> Seq(Refill)]
      BY <3>1, Replied
    <3> QED
      BY <1>2, <1>3, <3>1, <3>2
  <2>2. CASE ~(Len(teidFree) > V_TEID_FREE_FLOOR)
    <3>1. replies' \in [Pod -> Seq(Refill)]
      BY <1>6, <2>2, BumpFacts, Replied
    <3>2. teidNext' \in Nat /\ UNCHANGED <<seidNext, teidFree>>
      BY <1>3, <1>6, <2>2, BumpFacts
    <3> QED
      BY <1>2, <1>3, <3>1, <3>2
  <2> QED
    BY <2>1, <2>2
<1>7. CASE RPush(conn[p][1].id)
  <2>1. teidFree' = Append(teidFree, conn[p][1].id) /\ UNCHANGED <<seidNext, teidNext, replies>>
    BY <1>7 DEF RPush
  <2>2. Append(teidFree, conn[p][1].id) \in Seq(Nat)
    BY <1>1, <1>3, AppendProperties
  <2> QED
    BY <1>2, <1>3, <2>1, <2>2
<1> QED
  BY <1>4, <1>5, <1>6, <1>7, ExecTakes

(* seid_refill_reply_cb() and teid_refill_reply_cb() handle the oldest     *)
(* reply.                                                                  *)
LEMMA CbFacts ==
  ASSUME IdTypeOK, NEW p \in Pod, refill_reply_cb(p)
  PROVE  /\ UNCHANGED <<seidNext, teidNext, teidFree, phase, seeded, pc, conn, held>>
         /\ replies' \in [Pod -> Seq(Refill)]
         /\ Len(replies[p]) \in Nat /\ Len(replies[p]) > 0 /\ Len(replies'[p]) = Len(replies[p]) - 1
         /\ \A n \in 1 .. Len(replies[p]) - 1 : replies'[p][n] = replies[p][n + 1]
         /\ \A q \in Pod : q # p => replies'[q] = replies[q]
         /\ replies[p][1].kind \in Kind /\ replies[p][1].ids \in Seq(Nat)
         /\ inflight' = [inflight EXCEPT ![replies[p][1].kind][p] = FALSE]
         /\ \E f \in InOrder(Encodable(replies[p][1].kind, replies[p][1].ids)) :
              ring' = [ring EXCEPT ![replies[p][1].kind][p] =
                         Enqueued(replies[p][1].kind, ring[replies[p][1].kind][p], replies[p][1].ids, f)]
<1>1. replies[p] # << >> /\ replies' = [replies EXCEPT ![p] = Tail(@)]
      /\ UNCHANGED <<seidNext, teidNext, teidFree, phase, seeded, pc, conn, held>>
  BY DEF refill_reply_cb, redis
<1>2. /\ Head(replies[p]) = replies[p][1] /\ 1 \in DOMAIN replies[p]
      /\ Head(replies[p]).kind \in Kind /\ Head(replies[p]).ids \in Seq(Nat)
      /\ Tail(replies[p]) \in Seq(Refill)
      /\ Len(replies[p]) \in Nat /\ Len(Tail(replies[p])) = Len(replies[p]) - 1
      /\ \A n \in 1 .. Len(replies[p]) - 1 : Tail(replies[p])[n] = replies[p][n + 1]
  BY <1>1, ReplyHead
<1>3. replies \in [Pod -> Seq(Refill)] /\ replies[p] \in Seq(Refill)
  BY DEF IdTypeOK
<1>4. replies' \in [Pod -> Seq(Refill)] /\ replies'[p] = Tail(replies[p])
      /\ \A q \in Pod : q # p => replies'[q] = replies[q]
  BY <1>1, <1>2, <1>3
<1>5. Len(replies[p]) > 0
  BY <1>1, <1>3
<1>6. inflight' = [inflight EXCEPT ![Head(replies[p]).kind][p] = FALSE]
  BY DEF refill_reply_cb
<1>7. PICK f \in InOrder(Encodable(Head(replies[p]).kind, Head(replies[p]).ids)) :
        ring' = [ring EXCEPT ![Head(replies[p]).kind][p] =
                   Enqueued(Head(replies[p]).kind, @, Head(replies[p]).ids, f)]
  BY DEF refill_reply_cb
<1>8. ring' = [ring EXCEPT ![replies[p][1].kind][p] =
                 Enqueued(replies[p][1].kind, ring[replies[p][1].kind][p], replies[p][1].ids, f)]
  <2>1. PICK k \in Kind : k = replies[p][1].kind
    BY <1>2
  <2>2. ring' = [ring EXCEPT ![k][p] = Enqueued(k, @, replies[p][1].ids, f)]
    BY <1>2, <1>7, <2>1
  <2>3. ring' = [ring EXCEPT ![k][p] = Enqueued(k, ring[k][p], replies[p][1].ids, f)]
    BY <2>2 DEF IdTypeOK
  <2> QED
    BY <2>1, <2>3
<1> QED
  BY <1>1, <1>2, <1>4, <1>5, <1>6, <1>7, <1>8

(* The refill callback keeps the types, and in particular the capacity of  *)
(* the rings.                                                              *)
LEMMA CbType ==
  ASSUME IdTypeOK, NEW p \in Pod, refill_reply_cb(p)
  PROVE  IdTypeOK'
<1>1. PICK k \in Kind, ids \in Seq(Nat) : k = replies[p][1].kind /\ ids = replies[p][1].ids
  BY CbFacts
<1>2. PICK f \in InOrder(Encodable(k, ids)) : ring' = [ring EXCEPT ![k][p] = Enqueued(k, ring[k][p], ids, f)]
  BY <1>1, CbFacts
<1>3. ring[k][p] \in Seq(Nat) /\ Len(ring[k][p]) <= RingCap
  BY DEF IdTypeOK, Word
<1>4. Enqueued(k, ring[k][p], ids, f) \in Seq(Word) /\ Len(Enqueued(k, ring[k][p], ids, f)) <= RingCap
  <2>1. PICK m \in Nat : EnqueuedBy(k, ring[k][p], ids, f, Enqueued(k, ring[k][p], ids, f), m)
    BY <1>3, EnqueuedRing
  <2> QED
    BY <2>1 DEF Word, EnqueuedBy
<1>5. ring' \in [Kind -> [Pod -> Seq(Word)]] /\ \A j \in Kind, q \in Pod : Len(ring'[j][q]) <= RingCap
  BY <1>2, <1>4, RingType
<1>6. inflight' = [inflight EXCEPT ![k][p] = FALSE]
  BY <1>1, CbFacts
<1>7. inflight' \in [Kind -> [Pod -> BOOLEAN]]
  BY <1>6 DEF IdTypeOK
<1>8. replies' \in [Pod -> Seq(Refill)]
      /\ UNCHANGED <<seidNext, teidNext, teidFree, phase, seeded, pc, conn, held>>
  BY CbFacts
<1> QED
  BY <1>5, <1>7, <1>8 DEF IdTypeOK

(* Every step keeps the types and the rings within their capacity.         *)
LEMMA NextType ==
  ASSUME IdTypeOK, [Next]_vars
  PROVE  IdTypeOK'
<1>1. CASE UNCHANGED vars
  BY <1>1 DEF vars, IdTypeOK
<1>2. ASSUME NEW p \in Pod, v_id_alloc_init(p) PROVE IdTypeOK'
  BY <1>2, InitCallType
<1>3. ASSUME NEW p \in Pod, v_id_alloc_ready(p) PROVE IdTypeOK'
  BY <1>3, ReadyType
<1>4. ASSUME NEW p \in Pod, Exit(p) PROVE IdTypeOK'
  BY <1>4, ExitType
<1>5. ASSUME NEW p \in Pod, RedisExec(p) PROVE IdTypeOK'
  BY <1>5, ExecType
<1>6. ASSUME NEW p \in Pod, refill_reply_cb(p) PROVE IdTypeOK'
  BY <1>6, CbType
<1>7. ASSUME NEW p \in Pod, Disconnect(p) PROVE IdTypeOK'
  BY <1>7, DisconnectType
<1>8. ASSUME NEW p \in Pod, NEW teid \in held["TEID"], v_teid_free(p, teid) PROVE IdTypeOK'
  BY <1>8, FreeType
<1>9. ASSUME NEW p \in Pod, NEW l \in Lcore, NEW k \in Kind, AllocCheck(p, l, k) PROVE IdTypeOK'
  BY <1>9, CheckType
<1>10. ASSUME NEW p \in Pod, NEW l \in Lcore, NEW k \in Kind, AllocClaim(p, l, k) PROVE IdTypeOK'
  BY <1>10, ClaimType
<1>11. ASSUME NEW p \in Pod, NEW l \in Lcore, NEW k \in Kind, AllocTake(p, l, k) PROVE IdTypeOK'
  BY <1>11, TakeType
<1> QED
  BY <1>1, <1>2, <1>3, <1>4, <1>5, <1>6, <1>7, <1>8, <1>9, <1>10, <1>11 DEF Next

(* The state of v_id_alloc.c keeps its types and no ring ever holds more   *)
(* than rte_ring_enqueue() lets it, whatever the sizes, failures and       *)
(* racing allocations.                                                     *)
THEOREM IdTypesHold == Spec => []IdTypeOK
<1>1. Init => IdTypeOK
  BY InitType
<1>2. IdTypeOK /\ [Next]_vars => IdTypeOK'
  BY NextType
<1> QED
  BY <1>1, <1>2, PTL DEF Spec

-----------------------------------------------------------------------------
(* The quarantine of freed TEIDs.                                          *)

(* Only V_LUA_TEID_REFILL takes entries off the free list.                 *)
LEMMA FreeListSteps ==
  ASSUME IdTypeOK, [Next]_vars
  PROVE  \/ UNCHANGED teidFree
         \/ \E p \in Pod : TeidRefill(p)
         \/ \E d : RPush(d)
<1>1. CASE \E p \in Pod : RedisExec(p)
  <2>1. PICK p \in Pod : RedisExec(p)
    BY <1>1
  <2>2. \/ conn[p][1].op = "INCRBY" /\ IncrBy(p)
        \/ conn[p][1].op = "SETNX" /\ SetNx
        \/ conn[p][1].op = "REFILL" /\ TeidRefill(p)
        \/ conn[p][1].op = "RPUSH" /\ RPush(conn[p][1].id)
    BY <2>1, ExecTakes
  <2>3. IncrBy(p) \/ SetNx => UNCHANGED teidFree
    BY DEF IncrBy, SetNx
  <2> QED
    BY <2>2, <2>3
<1>2. CASE ~ \E p \in Pod : RedisExec(p)
  <2>1. CASE UNCHANGED vars
    BY <2>1 DEF vars
  <2>2. ASSUME NEW p \in Pod,
               \/ v_id_alloc_init(p) \/ v_id_alloc_ready(p) \/ Exit(p)
               \/ refill_reply_cb(p) \/ Disconnect(p)
        PROVE  UNCHANGED teidFree
    BY <2>2 DEF redis, v_id_alloc_init, v_id_alloc_ready, Exit, refill_reply_cb, Disconnect
  <2>3. ASSUME NEW p \in Pod, NEW teid, v_teid_free(p, teid) PROVE UNCHANGED teidFree
    BY <2>3 DEF redis, v_teid_free
  <2>4. ASSUME NEW p \in Pod, NEW l \in Lcore, NEW k \in Kind,
               AllocCheck(p, l, k) \/ AllocClaim(p, l, k) \/ AllocTake(p, l, k)
        PROVE  UNCHANGED teidFree
    BY <2>4 DEF redis, AllocCheck, AllocClaim, AllocTake
  <2> QED
    BY <1>2, <2>1, <2>2, <2>3, <2>4, Zenon DEF Next
<1> QED
  BY <1>1, <1>2

(* TEID quarantine (V_LUA_TEID_REFILL): whatever the block and the floor,  *)
(* a freed TEID is given out again only when so many others were freed     *)
(* after it as the floor less the rest of the block.                       *)
THEOREM QuarantineHolds == Spec => QuarantineLessBlock
<1> DEFINE depth == V_TEID_FREE_FLOOR + 1 - V_ID_BLK_SIZE
<1>1. IdTypeOK /\ [Next]_vars => [Quarantine(depth)]_vars
  <2>0. SUFFICES ASSUME IdTypeOK, [Next]_vars PROVE Quarantine(depth)
    OBVIOUS
  <2>1. SUFFICES ASSUME NEW i \in DOMAIN teidFree, \A j \in DOMAIN teidFree' : teidFree'[j] # teidFree[i]
                 PROVE  Len(teidFree) - i >= depth
    BY DEF Quarantine
  <2>2. teidFree \in Seq(Nat) /\ V_ID_BLK_SIZE \in Nat /\ V_TEID_FREE_FLOOR \in Nat
    BY <2>0, IdSizes DEF IdTypeOK, Local
  <2>3. PICK len \in Nat : len = Len(teidFree) /\ i \in 1 .. len
    BY <2>2
  <2>4. CASE UNCHANGED teidFree
    BY <2>1, <2>4
  <2>5. ASSUME NEW d, RPush(d) PROVE FALSE
    <3>1. teidFree' = Append(teidFree, d)
      BY <2>5 DEF RPush
    <3>2. IdTypeOK'
      BY <2>0, NextType
    <3>3. i \in DOMAIN teidFree' /\ teidFree'[i] = teidFree[i]
      BY <2>2, <2>3, <3>1, <3>2 DEF IdTypeOK
    <3> QED
      BY <2>1, <3>3
  <2>6. ASSUME NEW p \in Pod, TeidRefill(p) PROVE Len(teidFree) - i >= depth
    <3>1. CASE Len(teidFree) > V_TEID_FREE_FLOOR
      <4>1. PICK n \in Nat : /\ n <= Len(teidFree) /\ n <= V_ID_BLK_SIZE
                             /\ teidFree' \in Seq(Nat) /\ Len(teidFree') = Len(teidFree) - n
                             /\ \A j \in 1 .. Len(teidFree) - n : teidFree'[j] = teidFree[n + j]
        BY <2>0, <2>6, <3>1, PopFacts
      <4>2. CASE i <= n
        BY <2>2, <2>3, <3>1, <4>1, <4>2
      <4>3. CASE ~(i <= n)
        <5>1. i - n \in 1 .. len - n /\ n + (i - n) = i
          BY <2>3, <4>3
        <5>2. i - n \in DOMAIN teidFree'
          BY <2>3, <4>1, <5>1
        <5>3. teidFree'[i - n] = teidFree[i]
          BY <2>3, <4>1, <5>1
        <5> QED
          BY <2>1, <5>2, <5>3
      <4> QED
        BY <4>2, <4>3
    <3>2. CASE ~(Len(teidFree) > V_TEID_FREE_FLOOR)
      BY <2>0, <2>1, <2>6, <3>2, BumpFacts
    <3> QED
      BY <3>1, <3>2
  <2> QED
    BY <2>0, <2>4, <2>5, <2>6, FreeListSteps
<1>2. QED
  BY <1>1, IdTypesHold, PTL DEF Spec, QuarantineLessBlock

-----------------------------------------------------------------------------
(* Where an identifier can be.                                             *)

(* The identifier with local index d is in a ring, in a reply, with a      *)
(* caller, in the free list, or on its way to the free list.               *)
InRing(k, d) == \E p \in Pod : \E i \in DOMAIN ring[k][p] : LocalOf(k, ring[k][p][i]) = d

InReply(k, d) ==
  \E p \in Pod : \E n \in DOMAIN replies[p] :
    replies[p][n].kind = k /\ \E i \in DOMAIN replies[p][n].ids : replies[p][n].ids[i] = d

InHeld(k, d) == \E w \in held[k] : LocalOf(k, w) = d

InFree(k, d) == k = "TEID" /\ \E i \in DOMAIN teidFree : teidFree[i] = d

InConn(k, d) ==
  k = "TEID" /\ \E p \in Pod : \E i \in DOMAIN conn[p] : conn[p][i].op = "RPUSH" /\ conn[p][i].id = d

Somewhere(k, d) ==
  InRing(k, d) \/ InReply(k, d) \/ InHeld(k, d) \/ InFree(k, d) \/ InConn(k, d)

(* Every identifier anywhere was leased, and every word is one of the      *)
(* partition.                                                              *)
BelowCounter == \A k \in Kind, d \in Nat : Somewhere(k, d) => d < Leased(k)

WordsAccepted ==
  \A k \in Kind :
    /\ \A p \in Pod : \A i \in DOMAIN ring[k][p] : Accepted(k, ring[k][p][i])
    /\ \A w \in held[k] : Accepted(k, w)

LeaseInv == IdTypeOK /\ BelowCounter /\ WordsAccepted

(* No container holds an identifier twice; of callers this follows from    *)
(* WordsAccepted.                                                          *)
RingOnce(k) ==
  \A p, q \in Pod : \A i \in DOMAIN ring[k][p], j \in DOMAIN ring[k][q] :
    LocalOf(k, ring[k][p][i]) = LocalOf(k, ring[k][q][j]) => p = q /\ i = j

ReplyOnce(k) ==
  \A p, q \in Pod : \A n \in DOMAIN replies[p], m \in DOMAIN replies[q] :
    replies[p][n].kind = k /\ replies[q][m].kind = k =>
      \A i \in DOMAIN replies[p][n].ids, j \in DOMAIN replies[q][m].ids :
        replies[p][n].ids[i] = replies[q][m].ids[j] => p = q /\ n = m /\ i = j

FreeOnce == \A i, j \in DOMAIN teidFree : teidFree[i] = teidFree[j] => i = j

ConnOnce ==
  \A p, q \in Pod : \A i \in DOMAIN conn[p], j \in DOMAIN conn[q] :
    conn[p][i].op = "RPUSH" /\ conn[q][j].op = "RPUSH" /\ conn[p][i].id = conn[q][j].id
      => p = q /\ i = j

(* No identifier is in two containers.                                     *)
Apart(k, d) ==
  /\ InRing(k, d)  => ~InReply(k, d) /\ ~InHeld(k, d) /\ ~InFree(k, d) /\ ~InConn(k, d)
  /\ InReply(k, d) => ~InHeld(k, d) /\ ~InFree(k, d) /\ ~InConn(k, d)
  /\ InHeld(k, d)  => ~InFree(k, d) /\ ~InConn(k, d)
  /\ InFree(k, d)  => ~InConn(k, d)

AllApart(k) == \A d \in Nat : Apart(k, d)

(* A counter that the cast to 32 bits in enqueue_teid() has not wrapped.   *)
Unwrapped(k) == k = "SEID" \/ teidNext <= TeidWidth

(* Uniqueness, of each kind until its counter outruns the cast.            *)
Single(k) ==
  /\ RingOnce(k) /\ ReplyOnce(k) /\ AllApart(k)
  /\ k = "TEID" => FreeOnce /\ ConnOnce

UniqueInv == \A k \in Kind : Unwrapped(k) => Single(k)

(* The queue new is old without some of its first entries: all of them     *)
(* when it was cleared, one when it was taken from, none when it did not   *)
(* change.                                                                 *)
Dropped(old, new) ==
  \E s \in 0 .. Len(old) :
    Len(new) = Len(old) - s /\ \A i \in 1 .. Len(old) - s : new[i] = old[i + s]

(* A sequence that stays as it was dropped nothing.                        *)
LEMMA SameDropped ==
  ASSUME NEW S, NEW q \in Seq(S)
  PROVE  Dropped(q, q)
<1>1. Len(q) \in Nat /\ 0 \in 0 .. Len(q) /\ Len(q) = Len(q) - 0
      /\ \A i \in 1 .. Len(q) - 0 : q[i] = q[i + 0]
  OBVIOUS
<1> QED
  BY <1>1 DEF Dropped

(* A sequence that is emptied dropped everything.                          *)
LEMMA ClearDropped ==
  ASSUME NEW S, NEW q \in Seq(S)
  PROVE  Dropped(q, << >>)
<1>1. PICK n \in Nat : n = Len(q)
  OBVIOUS
<1>2. Len(<< >>) = n - n /\ n \in 0 .. n /\ \A i \in 1 .. n - n : << >>[i] = q[i + n]
  OBVIOUS
<1> QED
  BY <1>1, <1>2 DEF Dropped

(* A sequence that loses its head dropped one entry.                       *)
LEMMA TailDropped ==
  ASSUME NEW old, NEW new, Len(old) \in Nat, Len(old) > 0, Len(new) = Len(old) - 1,
         \A i \in 1 .. Len(old) - 1 : new[i] = old[i + 1]
  PROVE  Dropped(old, new)
<1>1. 1 \in 0 .. Len(old)
  OBVIOUS
<1> QED
  BY <1>1 DEF Dropped

(* What is left of a queue was in it, and different entries come from      *)
(* different ones.                                                         *)
Shifted(old, new) ==
  \E s \in Nat : \A i \in DOMAIN new : i + s \in DOMAIN old /\ new[i] = old[i + s]

(* What is left of a sequence that dropped a prefix is the old sequence,   *)
(* shifted.                                                                *)
LEMMA FromOld ==
  ASSUME NEW S, NEW old \in Seq(S), NEW new \in Seq(S), Dropped(old, new)
  PROVE  Shifted(old, new)
<1>1. PICK s \in 0 .. Len(old) :
        Len(new) = Len(old) - s /\ \A i \in 1 .. Len(old) - s : new[i] = old[i + s]
  BY DEF Dropped
<1>2. Len(old) \in Nat /\ Len(new) \in Nat /\ DOMAIN old = 1 .. Len(old) /\ DOMAIN new = 1 .. Len(new)
  OBVIOUS
<1>3. s \in Nat /\ \A i \in 1 .. Len(new) : i \in 1 .. Len(old) - s /\ i + s \in 1 .. Len(old)
  BY <1>1, <1>2
<1> QED
  BY <1>1, <1>2, <1>3 DEF Shifted

(* A connection that loses commands frees nothing more.                    *)
LEMMA ConnDropped ==
  ASSUME IdTypeOK, IdTypeOK', \A p \in Pod : Dropped(conn[p], conn'[p])
  PROVE  /\ \A k \in Kind, d \in Nat : InConn(k, d)' => InConn(k, d)
         /\ ConnOnce => ConnOnce'
<1>1. \A p \in Pod : \E s \in Nat :
        \A i \in DOMAIN conn'[p] : i + s \in DOMAIN conn[p] /\ conn'[p][i] = conn[p][i + s]
  <2>1. TAKE p \in Pod
  <2>2. PICK old \in Seq(Command), new \in Seq(Command) :
          old = conn[p] /\ new = conn'[p] /\ Dropped(old, new)
    BY DEF IdTypeOK
  <2>3. Shifted(old, new)
    BY <2>2, FromOld
  <2> QED
    BY <2>2, <2>3 DEF Shifted
<1>2. ASSUME NEW k \in Kind, NEW d \in Nat, InConn(k, d)' PROVE InConn(k, d)
  BY <1>1, <1>2 DEF InConn
<1>3. ASSUME ConnOnce PROVE ConnOnce'
  <2>1. SUFFICES ASSUME NEW p \in Pod, NEW q \in Pod, NEW i \in DOMAIN conn'[p], NEW j \in DOMAIN conn'[q],
                        conn'[p][i].op = "RPUSH", conn'[q][j].op = "RPUSH",
                        conn'[p][i].id = conn'[q][j].id
                 PROVE  p = q /\ i = j
    BY DEF ConnOnce
  <2>2. PICK s \in Nat : \A x \in DOMAIN conn'[p] : x + s \in DOMAIN conn[p] /\ conn'[p][x] = conn[p][x + s]
    BY <1>1
  <2>3. PICK t \in Nat : \A x \in DOMAIN conn'[q] : x + t \in DOMAIN conn[q] /\ conn'[q][x] = conn[q][x + t]
    BY <1>1
  <2>4. p = q /\ i + s = j + t
    BY <1>3, <2>1, <2>2, <2>3 DEF ConnOnce
  <2>5. DOMAIN conn'[p] \subseteq Nat
    BY DEF IdTypeOK
  <2>6. i + s \in DOMAIN conn[p] /\ j + s \in DOMAIN conn[p] /\ conn'[p][j] = conn[p][j + s]
    BY <2>1, <2>2, <2>4
  <2>7. i + s = j + s
    BY <1>3, <2>1, <2>2, <2>4, <2>6 DEF ConnOnce
  <2> QED
    BY <2>4, <2>5, <2>7
<1> QED
  BY <1>2, <1>3

(* Replies that are lost or handled bring nothing more.                    *)
LEMMA ReplyDropped ==
  ASSUME IdTypeOK, IdTypeOK', \A p \in Pod : Dropped(replies[p], replies'[p])
  PROVE  /\ \A k \in Kind, d \in Nat : InReply(k, d)' => InReply(k, d)
         /\ \A k \in Kind : ReplyOnce(k) => ReplyOnce(k)'
<1>1. \A p \in Pod : \E s \in Nat :
        \A i \in DOMAIN replies'[p] : i + s \in DOMAIN replies[p] /\ replies'[p][i] = replies[p][i + s]
  <2>1. TAKE p \in Pod
  <2>2. PICK old \in Seq(Refill), new \in Seq(Refill) :
          old = replies[p] /\ new = replies'[p] /\ Dropped(old, new)
    BY DEF IdTypeOK
  <2>3. Shifted(old, new)
    BY <2>2, FromOld
  <2> QED
    BY <2>2, <2>3 DEF Shifted
<1>2. ASSUME NEW k \in Kind, NEW d \in Nat, InReply(k, d)' PROVE InReply(k, d)
  <2>1. PICK p \in Pod : \E n \in DOMAIN replies'[p] :
          replies'[p][n].kind = k /\ \E i \in DOMAIN replies'[p][n].ids : replies'[p][n].ids[i] = d
    BY <1>2 DEF InReply
  <2>2. PICK n \in DOMAIN replies'[p] :
          replies'[p][n].kind = k /\ \E i \in DOMAIN replies'[p][n].ids : replies'[p][n].ids[i] = d
    BY <2>1
  <2>3. PICK m \in DOMAIN replies[p] : replies'[p][n] = replies[p][m]
    BY <1>1
  <2> QED
    BY <2>2, <2>3 DEF InReply
<1>3. ASSUME NEW k \in Kind, ReplyOnce(k) PROVE ReplyOnce(k)'
  <2>1. SUFFICES ASSUME NEW p \in Pod, NEW q \in Pod, NEW n \in DOMAIN replies'[p], NEW m \in DOMAIN replies'[q],
                        replies'[p][n].kind = k, replies'[q][m].kind = k,
                        NEW i \in DOMAIN replies'[p][n].ids, NEW j \in DOMAIN replies'[q][m].ids,
                        replies'[p][n].ids[i] = replies'[q][m].ids[j]
                 PROVE  p = q /\ n = m /\ i = j
    BY DEF ReplyOnce
  <2>2. PICK s \in Nat : \A x \in DOMAIN replies'[p] : x + s \in DOMAIN replies[p] /\ replies'[p][x] = replies[p][x + s]
    BY <1>1
  <2>3. PICK t \in Nat : \A x \in DOMAIN replies'[q] : x + t \in DOMAIN replies[q] /\ replies'[q][x] = replies[q][x + t]
    BY <1>1
  <2>4. p = q /\ i = j
    BY <1>3, <2>1, <2>2, <2>3 DEF ReplyOnce
  <2>5. DOMAIN replies'[p] \subseteq Nat
    <3>1. replies'[p] \in Seq(Refill)
      BY DEF IdTypeOK
    <3>2. DOMAIN replies'[p] = 1 .. Len(replies'[p]) /\ Len(replies'[p]) \in Nat
      BY <3>1, LenProperties, Zenon
    <3> QED
      BY <3>2
  <2>6. m + s \in DOMAIN replies[p] /\ n + s \in DOMAIN replies[p]
        /\ replies'[p][m] = replies[p][m + s] /\ replies'[p][n] = replies[p][n + s]
    BY <2>2, <2>4
  <2>7. n + s = m + s
    BY <1>3, <2>1, <2>4, <2>6 DEF ReplyOnce
  <2> QED
    BY <2>4, <2>5, <2>7
<1> QED
  BY <1>2, <1>3

(* Rings that lose words hold nothing more.                                *)
LEMMA RingDropped ==
  ASSUME IdTypeOK, IdTypeOK', \A k \in Kind, p \in Pod : Dropped(ring[k][p], ring'[k][p])
  PROVE  /\ \A k \in Kind, d \in Nat : InRing(k, d)' => InRing(k, d)
         /\ \A k \in Kind : RingOnce(k) => RingOnce(k)'
         /\ \A k \in Kind, p \in Pod : \A i \in DOMAIN ring'[k][p] :
              \E j \in DOMAIN ring[k][p] : ring'[k][p][i] = ring[k][p][j]
<1>1. \A k \in Kind, p \in Pod : \E s \in Nat :
        \A i \in DOMAIN ring'[k][p] : i + s \in DOMAIN ring[k][p] /\ ring'[k][p][i] = ring[k][p][i + s]
  <2>1. TAKE k \in Kind, p \in Pod
  <2>2. PICK old \in Seq(Word), new \in Seq(Word) :
          old = ring[k][p] /\ new = ring'[k][p] /\ Dropped(old, new)
    BY DEF IdTypeOK
  <2>3. Shifted(old, new)
    BY <2>2, FromOld
  <2> QED
    BY <2>2, <2>3 DEF Shifted
<1>2. ASSUME NEW k \in Kind, NEW d \in Nat, InRing(k, d)' PROVE InRing(k, d)
  <2>1. PICK p \in Pod : \E i \in DOMAIN ring'[k][p] : LocalOf(k, ring'[k][p][i]) = d
    BY <1>2 DEF InRing, LocalOf
  <2> QED
    BY <1>1, <2>1 DEF InRing
<1>3. ASSUME NEW k \in Kind, RingOnce(k) PROVE RingOnce(k)'
  <2>1. SUFFICES ASSUME NEW p \in Pod, NEW q \in Pod, NEW i \in DOMAIN ring'[k][p], NEW j \in DOMAIN ring'[k][q],
                        LocalOf(k, ring'[k][p][i]) = LocalOf(k, ring'[k][q][j])
                 PROVE  p = q /\ i = j
    BY DEF RingOnce, LocalOf
  <2>2. PICK s \in Nat : \A x \in DOMAIN ring'[k][p] : x + s \in DOMAIN ring[k][p] /\ ring'[k][p][x] = ring[k][p][x + s]
    BY <1>1
  <2>3. PICK t \in Nat : \A x \in DOMAIN ring'[k][q] : x + t \in DOMAIN ring[k][q] /\ ring'[k][q][x] = ring[k][q][x + t]
    BY <1>1
  <2>4. p = q /\ i + s = j + t
    BY <1>3, <2>1, <2>2, <2>3 DEF RingOnce
  <2>5. DOMAIN ring'[k][p] \subseteq Nat
    <3>1. ring'[k][p] \in Seq(Word)
      BY DEF IdTypeOK
    <3> QED
      BY <3>1
  <2>6. j + s \in DOMAIN ring[k][p] /\ ring'[k][p][j] = ring[k][p][j + s]
    BY <2>2, <2>4
  <2>7. i + s = j + s
    BY <1>3, <2>1, <2>2, <2>4, <2>6 DEF RingOnce
  <2> QED
    BY <2>4, <2>5, <2>7
<1>4. \A k \in Kind, p \in Pod : \A i \in DOMAIN ring'[k][p] :
        \E j \in DOMAIN ring[k][p] : ring'[k][p][i] = ring[k][p][j]
  BY <1>1
<1> QED
  BY <1>2, <1>3, <1>4

(* The entries of a connection after some were appended.                   *)
LEMMA ConnEntries ==
  ASSUME IdTypeOK, NEW p \in Pod, NEW c \in Seq(Command), conn' = [conn EXCEPT ![p] = @ \o c]
  PROVE  \A q \in Pod : \A i \in DOMAIN conn'[q] :
           \/ i \in DOMAIN conn[q] /\ conn'[q][i] = conn[q][i]
           \/ q = p /\ \E j \in DOMAIN c : i = Len(conn[p]) + j /\ conn'[q][i] = c[j]
<1> TAKE q \in Pod
<1> TAKE i \in DOMAIN conn'[q]
<1>1. /\ conn'[p] = conn[p] \o c /\ conn[p] \in Seq(Command)
      /\ \A r \in Pod : r # p => conn'[r] = conn[r]
  BY SentType
<1>2. CASE q # p
  BY <1>1, <1>2
<1>3. CASE q = p
  <2>1. /\ conn[p] \o c \in Seq(Command) /\ Len(conn[p] \o c) = Len(conn[p]) + Len(c)
        /\ \A n \in 1 .. Len(conn[p]) + Len(c) :
             (conn[p] \o c)[n] = IF n <= Len(conn[p]) THEN conn[p][n] ELSE c[n - Len(conn[p])]
    BY <1>1, ConcatProperties
  <2>2. PICK a \in Nat, b \in Nat : a = Len(conn[p]) /\ b = Len(c)
    BY <1>1
  <2>3. DOMAIN conn[p] = 1 .. a /\ DOMAIN c = 1 .. b
    BY <1>1, <2>2
  <2>4. i \in 1 .. a + b
    <3>1. DOMAIN (conn[p] \o c) = 1 .. Len(conn[p] \o c)
      BY <2>1, LenProperties
    <3> QED
      BY <1>1, <1>3, <2>1, <2>2, <3>1
  <2>5. conn'[q][i] = IF i <= a THEN conn[p][i] ELSE c[i - a]
    BY <1>1, <1>3, <2>1, <2>2, <2>4
  <2>6. CASE i <= a
    BY <1>3, <2>3, <2>4, <2>5, <2>6
  <2>7. CASE ~(i <= a)
    <3>1. i - a \in 1 .. b /\ i = a + (i - a)
      BY <2>4, <2>7
    <3> QED
      BY <1>3, <2>2, <2>3, <2>5, <2>7, <3>1
  <2> QED
    BY <2>6, <2>7
<1> QED
  BY <1>2, <1>3

(* Commands that free nothing put nothing on its way to the free list.     *)
LEMMA ConnAppended ==
  ASSUME IdTypeOK, IdTypeOK', NEW p \in Pod, NEW c \in Seq(Command), conn' = [conn EXCEPT ![p] = @ \o c],
         \A i \in DOMAIN c : c[i].op # "RPUSH"
  PROVE  /\ \A k \in Kind, d \in Nat : InConn(k, d)' => InConn(k, d)
         /\ ConnOnce => ConnOnce'
<1>1. \A q \in Pod : \A i \in DOMAIN conn'[q] :
        conn'[q][i].op = "RPUSH" => i \in DOMAIN conn[q] /\ conn'[q][i] = conn[q][i]
  BY ConnEntries
<1> QED
  BY <1>1 DEF InConn, ConnOnce

(* v_teid_free() puts one identifier on its way.                           *)
LEMMA ConnPushed ==
  ASSUME IdTypeOK, IdTypeOK', NEW p \in Pod, NEW e \in Nat, Cmd("RPUSH", e) \in Command,
         conn' = [conn EXCEPT ![p] = @ \o << Cmd("RPUSH", e) >>]
  PROVE  /\ \A k \in Kind, d \in Nat : InConn(k, d)' => InConn(k, d) \/ (k = "TEID" /\ d = e)
         /\ ConnOnce /\ ~InConn("TEID", e) => ConnOnce'
<1>1. PICK x \in Command : x = Cmd("RPUSH", e) /\ x.op = "RPUSH" /\ x.id = e
  BY DEF Cmd
<1>2. PICK c \in Seq(Command) : c = << x >> /\ DOMAIN c = 1 .. 1 /\ c[1] = x
  BY OneElement
<1>3. \A q \in Pod : \A i \in DOMAIN conn'[q] :
        \/ i \in DOMAIN conn[q] /\ conn'[q][i] = conn[q][i]
        \/ q = p /\ i = Len(conn[p]) + 1 /\ conn'[q][i] = x
  <2>1. conn' = [conn EXCEPT ![p] = @ \o c]
    BY <1>1, <1>2, Zenon
  <2>2. \A q \in Pod : \A i \in DOMAIN conn'[q] :
          \/ i \in DOMAIN conn[q] /\ conn'[q][i] = conn[q][i]
          \/ q = p /\ \E j \in DOMAIN c : i = Len(conn[p]) + j /\ conn'[q][i] = c[j]
    BY <2>1, ConnEntries
  <2>3. \A j \in DOMAIN c : j = 1
    BY <1>2
  <2> QED
    BY <1>2, <2>2, <2>3
<1>4. ASSUME NEW k \in Kind, NEW d \in Nat, InConn(k, d)' PROVE InConn(k, d) \/ (k = "TEID" /\ d = e)
  BY <1>1, <1>3, <1>4 DEF InConn
<1>5. ASSUME ConnOnce, ~InConn("TEID", e) PROVE ConnOnce'
  <2>1. \A q \in Pod : \A i \in DOMAIN conn[q] : conn[q][i].op = "RPUSH" => conn[q][i].id # e
    BY <1>5 DEF InConn
  <2>2. SUFFICES ASSUME NEW q \in Pod, NEW r \in Pod, NEW i \in DOMAIN conn'[q], NEW j \in DOMAIN conn'[r],
                        conn'[q][i].op = "RPUSH", conn'[r][j].op = "RPUSH", conn'[q][i].id = conn'[r][j].id
                 PROVE  q = r /\ i = j
    BY DEF ConnOnce
  <2>3. CASE i \in DOMAIN conn[q] /\ conn'[q][i] = conn[q][i] /\ j \in DOMAIN conn[r] /\ conn'[r][j] = conn[r][j]
    BY <1>5, <2>2, <2>3 DEF ConnOnce
  <2>4. CASE i \in DOMAIN conn[q] /\ conn'[q][i] = conn[q][i] /\ conn'[r][j] = x
    BY <1>1, <2>1, <2>2, <2>4, Zenon
  <2>5. CASE conn'[q][i] = x /\ j \in DOMAIN conn[r] /\ conn'[r][j] = conn[r][j]
    BY <1>1, <2>1, <2>2, <2>5, Zenon
  <2>6. CASE q = p /\ i = Len(conn[p]) + 1 /\ r = p /\ j = Len(conn[p]) + 1
    BY <2>6, Zenon
  <2> QED
    BY <1>3, <2>3, <2>4, <2>5, <2>6
<1> QED
  BY <1>4, <1>5

(* A reply brings its identifiers, and nothing twice if they are different *)
(* and new.                                                                *)
LEMMA ReplyAppended ==
  ASSUME IdTypeOK, IdTypeOK', NEW p \in Pod, NEW x \in Refill, replies' = [replies EXCEPT ![p] = Append(@, x)]
  PROVE  /\ \A k \in Kind, d \in Nat :
              InReply(k, d)' => InReply(k, d) \/ (x.kind = k /\ \E i \in DOMAIN x.ids : x.ids[i] = d)
         /\ \A k \in Kind :
              /\ ReplyOnce(k)
              /\ x.kind = k => /\ \A i, j \in DOMAIN x.ids : x.ids[i] = x.ids[j] => i = j
                               /\ \A i \in DOMAIN x.ids : ~InReply(k, x.ids[i])
              => ReplyOnce(k)'
<1>1. /\ Len(replies[p]) \in Nat /\ Len(replies'[p]) = Len(replies[p]) + 1
      /\ \A n \in 1 .. Len(replies[p]) : replies'[p][n] = replies[p][n]
      /\ replies'[p][Len(replies[p]) + 1] = x
      /\ \A q \in Pod : q # p => replies'[q] = replies[q]
  BY Replied
<1>2. DOMAIN replies[p] = 1 .. Len(replies[p]) /\ DOMAIN replies'[p] = 1 .. Len(replies'[p])
  BY DEF IdTypeOK
<1>3. \A q \in Pod : \A n \in DOMAIN replies'[q] :
        \/ n \in DOMAIN replies[q] /\ replies'[q][n] = replies[q][n]
        \/ q = p /\ n = Len(replies[p]) + 1 /\ replies'[q][n] = x
  BY <1>1, <1>2
<1>4. ASSUME NEW k \in Kind, NEW d \in Nat, InReply(k, d)'
      PROVE  InReply(k, d) \/ (x.kind = k /\ \E i \in DOMAIN x.ids : x.ids[i] = d)
  <2>1. PICK q \in Pod : \E n \in DOMAIN replies'[q] :
          replies'[q][n].kind = k /\ \E i \in DOMAIN replies'[q][n].ids : replies'[q][n].ids[i] = d
    BY <1>4 DEF InReply
  <2>2. PICK n \in DOMAIN replies'[q] :
          replies'[q][n].kind = k /\ \E i \in DOMAIN replies'[q][n].ids : replies'[q][n].ids[i] = d
    BY <2>1
  <2>3. CASE n \in DOMAIN replies[q] /\ replies'[q][n] = replies[q][n]
    BY <2>2, <2>3 DEF InReply
  <2>4. CASE replies'[q][n] = x
    BY <2>2, <2>4
  <2> QED
    BY <1>3, <2>3, <2>4
<1>5. ASSUME NEW k \in Kind, ReplyOnce(k),
             x.kind = k => /\ \A i, j \in DOMAIN x.ids : x.ids[i] = x.ids[j] => i = j
                           /\ \A i \in DOMAIN x.ids : ~InReply(k, x.ids[i])
      PROVE  ReplyOnce(k)'
  <2>1. SUFFICES ASSUME NEW q \in Pod, NEW r \in Pod, NEW n \in DOMAIN replies'[q], NEW m \in DOMAIN replies'[r],
                        replies'[q][n].kind = k, replies'[r][m].kind = k,
                        NEW i \in DOMAIN replies'[q][n].ids, NEW j \in DOMAIN replies'[r][m].ids,
                        replies'[q][n].ids[i] = replies'[r][m].ids[j]
                 PROVE  q = r /\ n = m /\ i = j
    BY DEF ReplyOnce
  <2>2. CASE /\ n \in DOMAIN replies[q] /\ replies'[q][n] = replies[q][n]
             /\ m \in DOMAIN replies[r] /\ replies'[r][m] = replies[r][m]
    BY <1>5, <2>1, <2>2 DEF ReplyOnce
  <2>3. CASE /\ q = p /\ n = Len(replies[p]) + 1 /\ replies'[q][n] = x
             /\ r = p /\ m = Len(replies[p]) + 1 /\ replies'[r][m] = x
    BY <1>5, <2>1, <2>3
  <2>4. CASE /\ n \in DOMAIN replies[q] /\ replies'[q][n] = replies[q][n] /\ replies'[r][m] = x
    <3>1. x.kind = k /\ j \in DOMAIN x.ids /\ replies[q][n].kind = k
          /\ i \in DOMAIN replies[q][n].ids /\ replies[q][n].ids[i] = x.ids[j]
      BY <2>1, <2>4
    <3>2. InReply(k, x.ids[j])
      BY <2>4, <3>1 DEF InReply
    <3> QED
      BY <1>5, <3>1, <3>2
  <2>5. CASE /\ m \in DOMAIN replies[r] /\ replies'[r][m] = replies[r][m] /\ replies'[q][n] = x
    <3>1. x.kind = k /\ i \in DOMAIN x.ids /\ replies[r][m].kind = k
          /\ j \in DOMAIN replies[r][m].ids /\ replies[r][m].ids[j] = x.ids[i]
      BY <2>1, <2>5
    <3>2. InReply(k, x.ids[i])
      BY <2>5, <3>1 DEF InReply
    <3> QED
      BY <1>5, <3>1, <3>2
  <2> QED
    BY <1>3, <2>2, <2>3, <2>4, <2>5
<1> QED
  BY <1>4, <1>5

(* RPUSH puts one identifier at the end of the free list.                  *)
LEMMA FreePushed ==
  ASSUME IdTypeOK, IdTypeOK', NEW e \in Nat, teidFree' = Append(teidFree, e)
  PROVE  /\ \A k \in Kind, d \in Nat : InFree(k, d)' => InFree(k, d) \/ (k = "TEID" /\ d = e)
         /\ FreeOnce /\ ~InFree("TEID", e) => FreeOnce'
<1>1. teidFree \in Seq(Nat) /\ teidFree' \in Seq(Nat)
  BY DEF IdTypeOK, Local
<1>2. /\ Len(Append(teidFree, e)) = Len(teidFree) + 1
      /\ \A i \in 1 .. Len(teidFree) : Append(teidFree, e)[i] = teidFree[i]
      /\ Append(teidFree, e)[Len(teidFree) + 1] = e
  BY <1>1, AppendProperties
<1>3. PICK n \in Nat : n = Len(teidFree) /\ DOMAIN teidFree = 1 .. n
  BY <1>1
<1>4. DOMAIN teidFree' = 1 .. n + 1
  BY <1>1, <1>2, <1>3
<1>5. \A i \in DOMAIN teidFree' : \/ i \in DOMAIN teidFree /\ teidFree'[i] = teidFree[i]
                                  \/ i = n + 1 /\ teidFree'[i] = e
  BY <1>2, <1>3, <1>4
<1>6. ASSUME NEW k \in Kind, NEW d \in Nat, InFree(k, d)' PROVE InFree(k, d) \/ (k = "TEID" /\ d = e)
  BY <1>5, <1>6 DEF InFree
<1>7. ASSUME FreeOnce, ~InFree("TEID", e) PROVE FreeOnce'
  <2>1. \A i \in DOMAIN teidFree : teidFree[i] # e
    BY <1>7 DEF InFree
  <2> QED
    BY <1>5, <1>7, <2>1 DEF FreeOnce
<1> QED
  BY <1>6, <1>7

(* The entries that V_LUA_TEID_REFILL pops are no longer in the list.      *)
LEMMA FreePopped ==
  ASSUME IdTypeOK, IdTypeOK', NEW n \in Nat, n <= Len(teidFree), NEW x \in Refill,
         Len(x.ids) = n, \A i \in 1 .. n : x.ids[i] = teidFree[i],
         Len(teidFree') = Len(teidFree) - n,
         \A i \in 1 .. Len(teidFree) - n : teidFree'[i] = teidFree[n + i]
  PROVE  /\ \A k \in Kind, d \in Nat : InFree(k, d)' => InFree(k, d)
         /\ \A i \in DOMAIN x.ids : InFree("TEID", x.ids[i]) /\ x.ids[i] \in Nat
         /\ FreeOnce => /\ FreeOnce'
                        /\ \A i, j \in DOMAIN x.ids : x.ids[i] = x.ids[j] => i = j
                        /\ \A i \in DOMAIN x.ids : ~InFree("TEID", x.ids[i])'
<1>1. teidFree \in Seq(Nat) /\ teidFree' \in Seq(Nat) /\ x.ids \in Seq(Nat)
  BY DEF IdTypeOK, Local, Refill
<1>2. PICK len \in Nat : len = Len(teidFree) /\ DOMAIN teidFree = 1 .. len
  BY <1>1
<1>3. DOMAIN teidFree' = 1 .. len - n /\ DOMAIN x.ids = 1 .. n
  BY <1>1, <1>2
<1>4. \A i \in 1 .. len - n : n + i \in 1 .. len /\ teidFree'[i] = teidFree[n + i] /\ ~(n + i \in 1 .. n)
  BY <1>2
<1>5. \A i \in 1 .. n : i \in 1 .. len /\ x.ids[i] = teidFree[i]
  BY <1>2
<1>6. ASSUME NEW k \in Kind, NEW d \in Nat, InFree(k, d)' PROVE InFree(k, d)
  <2>1. k = "TEID" /\ \E i \in DOMAIN teidFree' : teidFree'[i] = d
    BY <1>6 DEF InFree
  <2>2. PICK i \in 1 .. len - n : teidFree'[i] = d
    BY <1>3, <2>1
  <2>3. PICK j \in DOMAIN teidFree : j = n + i /\ teidFree[j] = d
    BY <1>2, <1>4, <2>2
  <2> QED
    BY <2>1, <2>3 DEF InFree
<1>7. \A i \in DOMAIN x.ids : InFree("TEID", x.ids[i]) /\ x.ids[i] \in Nat
  <2>1. TAKE i \in DOMAIN x.ids
  <2>2. i \in DOMAIN teidFree /\ x.ids[i] = teidFree[i]
    BY <1>2, <1>3, <1>5, Zenon
  <2>3. x.ids[i] \in Nat
    BY <1>1
  <2> QED
    BY <2>2, <2>3, Zenon DEF InFree
<1>8. ASSUME FreeOnce
      PROVE  /\ FreeOnce'
             /\ \A i, j \in DOMAIN x.ids : x.ids[i] = x.ids[j] => i = j
             /\ \A i \in DOMAIN x.ids : ~InFree("TEID", x.ids[i])'
  <2>1. ASSUME NEW i \in 1 .. len - n, NEW j \in 1 .. len - n, teidFree'[i] = teidFree'[j] PROVE i = j
    <3>1. n + i = n + j
      <4>1. PICK a \in DOMAIN teidFree : a = n + i /\ teidFree'[i] = teidFree[a]
        BY <1>2, <1>4
      <4>2. PICK b \in DOMAIN teidFree : b = n + j /\ teidFree'[j] = teidFree[b]
        BY <1>2, <1>4
      <4>3. a = b
        BY <1>8, <2>1, <4>1, <4>2 DEF FreeOnce
      <4> QED
        BY <4>1, <4>2, <4>3
    <3> QED
      BY <3>1
  <2>2. FreeOnce'
    BY <1>3, <2>1 DEF FreeOnce
  <2>3. \A i, j \in DOMAIN x.ids : x.ids[i] = x.ids[j] => i = j
    BY <1>2, <1>3, <1>5, <1>8 DEF FreeOnce
  <2>4. ASSUME NEW i \in DOMAIN x.ids PROVE ~InFree("TEID", x.ids[i])'
    <3>1. SUFFICES ASSUME NEW j \in DOMAIN teidFree', teidFree'[j] = x.ids[i] PROVE FALSE
      <4>1. PICK e \in Nat : e = x.ids[i]
        BY <1>7
      <4>2. InFree("TEID", e)' => \E j \in DOMAIN teidFree' : teidFree'[j] = e
        BY DEF InFree
      <4> QED
        BY <4>1, <4>2
    <3>2. n + j = i
      <4>1. PICK a \in DOMAIN teidFree : a = n + j /\ teidFree'[j] = teidFree[a]
        BY <1>2, <1>3, <1>4
      <4>2. i \in DOMAIN teidFree /\ x.ids[i] = teidFree[i]
        BY <1>2, <1>3, <1>5
      <4>3. a = i
        BY <1>8, <3>1, <4>1, <4>2 DEF FreeOnce
      <4> QED
        BY <4>1, <4>3
    <3> QED
      BY <1>3, <1>4, <3>2
  <2> QED
    BY <2>2, <2>3, <2>4
<1> QED
  BY <1>6, <1>7, <1>8

(* refill_reply_cb() of pod p puts m encodings of entries of ids, which    *)
(* the oldest reply brought, behind the ring of kind k.                    *)
CbRing(p, k, ids, f, m) ==
  /\ k = replies[p][1].kind /\ ids = replies[p][1].ids
  /\ EnqueuedBy(k, ring[k][p], ids, f, ring'[k][p], m)
  /\ \A l \in Kind, q \in Pod : l # k \/ q # p => ring'[l][q] = ring[l][q]

(* The refill callback takes the oldest reply and appends the words of its *)
(* first m identifiers that encode to the ring of the reply's kind.        *)
LEMMA CbEnqueues ==
  ASSUME IdTypeOK, NEW p \in Pod, refill_reply_cb(p)
  PROVE  \E k \in Kind, ids \in Seq(Nat), m \in Nat :
           \E f \in InOrder(Encodable(k, ids)) : CbRing(p, k, ids, f, m)
<1>1. PICK k \in Kind, ids \in Seq(Nat) : k = replies[p][1].kind /\ ids = replies[p][1].ids
  BY CbFacts
<1>2. PICK f \in InOrder(Encodable(k, ids)) : ring' = [ring EXCEPT ![k][p] = Enqueued(k, ring[k][p], ids, f)]
  BY <1>1, CbFacts
<1>3. PICK r \in Seq(Nat) : r = ring[k][p] /\ Len(r) <= RingCap
  BY DEF IdTypeOK, Word
<1>4. PICK m \in Nat : EnqueuedBy(k, r, ids, f, Enqueued(k, r, ids, f), m)
  BY <1>3, EnqueuedRing
<1>5. PICK t \in Seq(Word) : t = Enqueued(k, r, ids, f) /\ Len(t) <= RingCap
  BY <1>4 DEF EnqueuedBy, Word
<1>6. ring' = [ring EXCEPT ![k][p] = t]
  BY <1>2, <1>3, <1>5, Zenon
<1>7. ring'[k][p] = t /\ \A l \in Kind, q \in Pod : l # k \/ q # p => ring'[l][q] = ring[l][q]
  BY <1>5, <1>6, RingType
<1>8. CbRing(p, k, ids, f, m)
  BY <1>1, <1>3, <1>4, <1>5, <1>7, Zenon DEF CbRing
<1> QED
  BY <1>8

(* What refill_reply_cb() leaves in a ring was there or comes from the     *)
(* reply that it handles.                                                  *)
LEMMA RingEntries ==
  ASSUME IdTypeOK, IdTypeOK', NEW p \in Pod, NEW k \in Kind, NEW ids \in Seq(Nat), NEW f, NEW m \in Nat,
         CbRing(p, k, ids, f, m)
  PROVE  \A l \in Kind, q \in Pod : \A i \in DOMAIN ring'[l][q] :
           \/ i \in DOMAIN ring[l][q] /\ ring'[l][q][i] = ring[l][q][i]
           \/ l = k /\ q = p /\ \E j \in 1 .. m : /\ i = Len(ring[k][p]) + j
                                                /\ ring'[l][q][i] = Encoded(k, ids[f[j]])
<1> TAKE l \in Kind, q \in Pod
<1> TAKE i \in DOMAIN ring'[l][q]
<1>1. CASE l # k \/ q # p
  BY <1>1 DEF CbRing
<1>2. CASE l = k /\ q = p
  <2>0. ring[k][p] \in Seq(Nat) /\ ring'[k][p] \in Seq(Nat)
    BY DEF IdTypeOK, Word
  <2>1. PICK r \in Seq(Nat), t \in Seq(Nat) : r = ring[k][p] /\ t = ring'[k][p]
    BY <2>0
  <2>2. EnqueuedBy(k, r, ids, f, t, m)
    BY <2>1 DEF CbRing
  <2>3. PICK a \in Nat : a = Len(r) /\ DOMAIN r = 1 .. a
    OBVIOUS
  <2>4. DOMAIN t = 1 .. a + m /\ (\A n \in 1 .. a : t[n] = r[n])
        /\ \A j \in 1 .. m : t[a + j] = Encoded(k, ids[f[j]])
    BY <2>2, <2>3 DEF EnqueuedBy
  <2>5. i \in 1 .. a + m
    BY <1>2, <2>1, <2>4
  <2>6. CASE i <= a
    <3>1. i \in DOMAIN r /\ t[i] = r[i]
      BY <2>3, <2>4, <2>5, <2>6
    <3> QED
      BY <1>2, <2>1, <3>1, Zenon
  <2>7. CASE ~(i <= a)
    <3>1. i - a \in 1 .. m /\ i = a + (i - a)
      BY <2>5, <2>7
    <3>2. t[i] = Encoded(k, ids[f[i - a]])
      BY <2>4, <3>1
    <3> QED
      BY <1>2, <2>1, <2>3, <3>1, <3>2
  <2> QED
    BY <2>6, <2>7
<1> QED
  BY <1>1, <1>2

(* The entries that were enqueued were in the reply, and are different     *)
(* ones.                                                                   *)
LEMMA FromReply ==
  ASSUME NEW p \in Pod, NEW k \in Kind, NEW ids \in Seq(Nat), NEW f, NEW m \in Nat,
         CbRing(p, k, ids, f, m)
  PROVE  /\ \A j \in 1 .. m : f[j] \in DOMAIN ids /\ ids[f[j]] \in Nat /\ Encoded(k, ids[f[j]]) # Err
         /\ \A i, j \in 1 .. m : f[i] = f[j] => i = j
<1>1. \A j \in 1 .. m : f[j] \in DOMAIN ids /\ Encoded(k, ids[f[j]]) # Err
  BY DEF CbRing, EnqueuedBy
<1>2. \A i, j \in 1 .. m : f[i] = f[j] => i = j
  BY DEF CbRing, EnqueuedBy
<1> QED
  BY <1>1, <1>2

-----------------------------------------------------------------------------
(* Containers that a step leaves alone.                                    *)

(* A container that a step leaves alone holds what it held: the rings,     *)
LEMMA RingFrame ==
  ASSUME UNCHANGED ring
  PROVE  /\ \A k \in Kind, d \in Nat : InRing(k, d)' => InRing(k, d)
         /\ \A k \in Kind : RingOnce(k) => RingOnce(k)'
  BY DEF InRing, RingOnce, LocalOf

(* the replies,                                                            *)
LEMMA ReplyFrame ==
  ASSUME UNCHANGED replies
  PROVE  /\ \A k \in Kind, d \in Nat : InReply(k, d)' => InReply(k, d)
         /\ \A k \in Kind : ReplyOnce(k) => ReplyOnce(k)'
  BY DEF InReply, ReplyOnce

(* the identifiers of sessions,                                            *)
LEMMA HeldFrame ==
  ASSUME UNCHANGED held
  PROVE  \A k \in Kind, d \in Nat : InHeld(k, d)' => InHeld(k, d)
  BY DEF InHeld, LocalOf

(* the list of freed TEIDs,                                                *)
LEMMA FreeFrame ==
  ASSUME UNCHANGED teidFree
  PROVE  /\ \A k \in Kind, d \in Nat : InFree(k, d)' => InFree(k, d)
         /\ FreeOnce => FreeOnce'
  BY DEF InFree, FreeOnce

(* and the RPUSH commands under way.                                       *)
LEMMA ConnFrame ==
  ASSUME UNCHANGED conn
  PROVE  /\ \A k \in Kind, d \in Nat : InConn(k, d)' => InConn(k, d)
         /\ ConnOnce => ConnOnce'
  BY DEF InConn, ConnOnce

(* A step that leaves both counters alone leases nothing.                  *)
LEMMA LeasedFrame ==
  ASSUME UNCHANGED <<seidNext, teidNext>>
  PROVE  \A k \in Kind : Leased(k)' = Leased(k)
  BY DEF Leased

(* The counters are numbers.                                               *)
LEMMA LeasedType ==
  ASSUME IdTypeOK, NEW k \in Kind
  PROVE  Leased(k) \in Nat
  BY DEF IdTypeOK, Leased

(* Words that stay accepted when rings and callers have no new ones.       *)
LEMMA WordsFrame ==
  ASSUME UNCHANGED <<ring, held>>, WordsAccepted
  PROVE  WordsAccepted'
  BY DEF WordsAccepted, Accepted

-----------------------------------------------------------------------------
(* Steps that put nothing anywhere.                                        *)

(* No container has anything new, and no counter goes back.                *)
Shrinks ==
  /\ \A k \in Kind, d \in Nat :
       /\ InRing(k, d)' => InRing(k, d)
       /\ InReply(k, d)' => InReply(k, d)
       /\ InHeld(k, d)' => InHeld(k, d)
       /\ InFree(k, d)' => InFree(k, d)
       /\ InConn(k, d)' => InConn(k, d)
  /\ \A k \in Kind : (RingOnce(k) => RingOnce(k)') /\ (ReplyOnce(k) => ReplyOnce(k)')
  /\ (FreeOnce => FreeOnce') /\ (ConnOnce => ConnOnce')
  /\ \A k \in Kind : Leased(k) <= Leased(k)'
  /\ WordsAccepted => WordsAccepted'

(* A counter that has not wrapped after a step had not wrapped before it.  *)
LEMMA WrappedStays ==
  ASSUME IdTypeOK, IdTypeOK', \A k \in Kind : Leased(k) <= Leased(k)', NEW k \in Kind, Unwrapped(k)'
  PROVE  Unwrapped(k)
<1>1. teidNext <= teidNext' /\ teidNext \in Nat /\ teidNext' \in Nat
  BY DEF Leased, Kind, IdTypeOK
<1>2. TeidWidth \in Nat
  BY Width
<1>3. k = "SEID" \/ teidNext' <= TeidWidth
  BY DEF Unwrapped, TeidWidth, TeidRsvUnit
<1> QED
  BY <1>1, <1>2, <1>3 DEF Unwrapped

(* A step that only drops identifiers keeps the invariants.                *)
LEMMA Shrunk ==
  ASSUME LeaseInv, IdTypeOK', Shrinks
  PROVE  LeaseInv' /\ (UniqueInv => UniqueInv')
<1>1. IdTypeOK
  BY DEF LeaseInv
<1>2. BelowCounter'
  <2>1. SUFFICES ASSUME NEW k \in Kind, NEW d \in Nat, Somewhere(k, d)' PROVE d < Leased(k)'
    BY DEF BelowCounter
  <2>2. Somewhere(k, d)
    BY <2>1 DEF Somewhere, Shrinks
  <2>3. d < Leased(k) /\ Leased(k) <= Leased(k)'
    BY <2>2 DEF LeaseInv, BelowCounter, Shrinks
  <2>4. Leased(k) \in Nat /\ Leased(k)' \in Nat
    BY <1>1, LeasedType DEF IdTypeOK, Leased
  <2> QED
    BY <2>3, <2>4
<1>3. WordsAccepted'
  BY DEF LeaseInv, Shrinks
<1>4. ASSUME UniqueInv PROVE UniqueInv'
  <2>1. SUFFICES ASSUME NEW k \in Kind, Unwrapped(k)'
                 PROVE  /\ RingOnce(k)' /\ ReplyOnce(k)' /\ AllApart(k)'
                        /\ k = "TEID" => FreeOnce' /\ ConnOnce'
    BY DEF UniqueInv, Single
  <2>2. Unwrapped(k)
    BY <1>1, <2>1, WrappedStays DEF Shrinks
  <2>3. RingOnce(k) /\ ReplyOnce(k) /\ AllApart(k) /\ (k = "TEID" => FreeOnce /\ ConnOnce)
    BY <1>4, <2>2 DEF UniqueInv, Single
  <2>4. RingOnce(k)' /\ ReplyOnce(k)' /\ (k = "TEID" => FreeOnce' /\ ConnOnce')
    BY <2>3 DEF Shrinks
  <2>5. ASSUME NEW d \in Nat PROVE Apart(k, d)'
    <3>1. Apart(k, d)
      BY <2>3 DEF AllApart
    <3>2. /\ InRing(k, d)' => InRing(k, d)
          /\ InReply(k, d)' => InReply(k, d)
          /\ InHeld(k, d)' => InHeld(k, d)
          /\ InFree(k, d)' => InFree(k, d)
          /\ InConn(k, d)' => InConn(k, d)
      BY DEF Shrinks
    <3> QED
      BY <3>1, <3>2 DEF Apart
  <2> QED
    BY <2>4, <2>5 DEF AllApart
<1> QED
  BY <1>2, <1>3, <1>4 DEF LeaseInv

(* Steps that change none of the containers: v_id_alloc_ready() and the    *)
(* check that begins an allocation.                                        *)
LEMMA QuietShrinks ==
  ASSUME IdTypeOK, UNCHANGED <<seidNext, teidNext, teidFree, ring, conn, replies, held>>
  PROVE  Shrinks
<1>1. \A k \in Kind : Leased(k) <= Leased(k)'
  BY LeasedFrame, LeasedType
<1> QED
  BY <1>1, RingFrame, ReplyFrame, HeldFrame, FreeFrame, ConnFrame, WordsFrame DEF Shrinks

(* v_id_alloc_init() and a claimed refill only send commands.              *)
LEMMA SendShrinks ==
  ASSUME IdTypeOK, IdTypeOK', NEW p \in Pod,
         UNCHANGED <<seidNext, teidNext, teidFree, ring, replies, held>>,
         \E c \in Seq(Command) : /\ conn' = [conn EXCEPT ![p] = @ \o c]
                                 /\ \A i \in DOMAIN c : c[i].op # "RPUSH"
  PROVE  Shrinks
<1>1. \A k \in Kind : Leased(k) <= Leased(k)'
  BY LeasedFrame, LeasedType
<1>2. (\A k \in Kind, d \in Nat : InConn(k, d)' => InConn(k, d)) /\ (ConnOnce => ConnOnce')
  BY ConnAppended
<1> QED
  BY <1>1, <1>2, RingFrame, ReplyFrame, HeldFrame, FreeFrame, WordsFrame DEF Shrinks

(* A broken connection and an exit lose what the pod had queued.           *)
LEMMA DisconnectShrinks ==
  ASSUME IdTypeOK, IdTypeOK', NEW p \in Pod, Disconnect(p)
  PROVE  Shrinks
<1>1. UNCHANGED <<seidNext, teidNext, teidFree, ring, held>>
  BY DEF Disconnect, redis
<1>2. \A k \in Kind : Leased(k) <= Leased(k)'
  BY <1>1, LeasedFrame, LeasedType
<1>3. \A q \in Pod : Dropped(conn[q], conn'[q])
  <2>1. TAKE q \in Pod
  <2>2. conn[q] \in Seq(Command) /\ (conn'[q] = << >> \/ conn'[q] = conn[q])
    BY DEF Disconnect, IdTypeOK
  <2> QED
    BY <2>2, SameDropped, ClearDropped
<1>4. \A q \in Pod : Dropped(replies[q], replies'[q])
  <2>1. TAKE q \in Pod
  <2>2. replies[q] \in Seq(Refill) /\ (replies'[q] = << >> \/ replies'[q] = replies[q])
    BY DEF Disconnect, IdTypeOK
  <2> QED
    BY <2>2, SameDropped, ClearDropped
<1> QED
  BY <1>1, <1>2, <1>3, <1>4, ConnDropped, ReplyDropped, RingFrame, HeldFrame, FreeFrame, WordsFrame DEF Shrinks

(* A pod that crashes or gives up at start-up only drops identifiers.      *)
LEMMA ExitShrinks ==
  ASSUME IdTypeOK, IdTypeOK', NEW p \in Pod, Exit(p)
  PROVE  Shrinks
<1>1. UNCHANGED <<seidNext, teidNext, teidFree, held>>
  BY DEF Exit, redis
<1>2. \A k \in Kind : Leased(k) <= Leased(k)'
  BY <1>1, LeasedFrame, LeasedType
<1>3. \A q \in Pod : Dropped(conn[q], conn'[q])
  <2>1. TAKE q \in Pod
  <2>2. conn[q] \in Seq(Command) /\ (conn'[q] = << >> \/ conn'[q] = conn[q])
    BY DEF Exit, IdTypeOK
  <2> QED
    BY <2>2, SameDropped, ClearDropped
<1>4. \A q \in Pod : Dropped(replies[q], replies'[q])
  <2>1. TAKE q \in Pod
  <2>2. replies[q] \in Seq(Refill) /\ (replies'[q] = << >> \/ replies'[q] = replies[q])
    BY DEF Exit, IdTypeOK
  <2> QED
    BY <2>2, SameDropped, ClearDropped
<1>5. \A k \in Kind, q \in Pod : Dropped(ring[k][q], ring'[k][q])
  <2>1. TAKE k \in Kind, q \in Pod
  <2>2. ring[k][q] \in Seq(Word) /\ (ring'[k][q] = << >> \/ ring'[k][q] = ring[k][q])
    BY DEF Exit, IdTypeOK
  <2> QED
    BY <2>2, SameDropped, ClearDropped
<1>6. /\ \A k \in Kind, d \in Nat : InRing(k, d)' => InRing(k, d)
      /\ \A k \in Kind : RingOnce(k) => RingOnce(k)'
      /\ \A k \in Kind, q \in Pod : \A i \in DOMAIN ring'[k][q] :
           \E j \in DOMAIN ring[k][q] : ring'[k][q][i] = ring[k][q][j]
  BY <1>5, RingDropped
<1>7. WordsAccepted => WordsAccepted'
  <2>1. SUFFICES ASSUME WordsAccepted PROVE WordsAccepted'
    OBVIOUS
  <2>2. \A k \in Kind, q \in Pod : \A i \in DOMAIN ring'[k][q] : Accepted(k, ring'[k][q][i])
    BY <1>6, <2>1 DEF WordsAccepted
  <2>3. \A k \in Kind : \A w \in held'[k] : Accepted(k, w)
    BY <1>1, <2>1 DEF WordsAccepted
  <2> QED
    BY <2>2, <2>3 DEF WordsAccepted, Accepted
<1> QED
  BY <1>1, <1>2, <1>3, <1>4, <1>6, <1>7, ConnDropped, ReplyDropped, HeldFrame, FreeFrame DEF Shrinks

-----------------------------------------------------------------------------
(* Steps that move or lease identifiers.                                   *)

(* A step keeps identifiers below the counters if what it puts somewhere   *)
(* was somewhere before or was leased.                                     *)
LEMMA LeaseKept ==
  ASSUME LeaseInv, IdTypeOK', WordsAccepted', \A k \in Kind : Leased(k) <= Leased(k)',
         \A k \in Kind, d \in Nat : Somewhere(k, d)' => Somewhere(k, d) \/ d < Leased(k)'
  PROVE  LeaseInv'
<1>1. SUFFICES ASSUME NEW k \in Kind, NEW d \in Nat, Somewhere(k, d)' PROVE d < Leased(k)'
  BY DEF LeaseInv, BelowCounter
<1>2. CASE d < Leased(k)'
  BY <1>2
<1>3. CASE Somewhere(k, d)
  <2>1. d < Leased(k) /\ Leased(k) <= Leased(k)'
    BY <1>3 DEF LeaseInv, BelowCounter
  <2>2. Leased(k) \in Nat /\ Leased(k)' \in Nat
    BY LeasedType DEF LeaseInv, IdTypeOK, Leased
  <2> QED
    BY <2>1, <2>2
<1> QED
  BY <1>1, <1>2, <1>3

(* A step keeps identifiers single if it does so for each kind whose       *)
(* counter has not wrapped.                                                *)
LEMMA SingleKept ==
  ASSUME IdTypeOK, IdTypeOK', \A k \in Kind : Leased(k) <= Leased(k)', UniqueInv,
         \A k \in Kind : Unwrapped(k) /\ Single(k) => Single(k)'
  PROVE  UniqueInv'
<1>1. SUFFICES ASSUME NEW k \in Kind, Unwrapped(k)' PROVE Single(k)'
  BY DEF UniqueInv
<1>2. Unwrapped(k)
  BY <1>1, WrappedStays
<1> QED
  BY <1>2 DEF UniqueInv

(* The dequeue of v_seid_alloc() and v_teid_alloc() moves one word from    *)
(* the pod's ring to the caller.                                           *)
LEMMA TakeMoves ==
  ASSUME LeaseInv, IdTypeOK', NEW p \in Pod, NEW l \in Lcore, NEW k \in Kind, AllocTake(p, l, k),
         ring[k][p] # << >>
  PROVE  LeaseInv' /\ (UniqueInv => UniqueInv')
<1>1. IdTypeOK /\ WordsAccepted
  BY DEF LeaseInv
<1>2. /\ Len(ring[k][p]) \in Nat /\ 1 \in DOMAIN ring[k][p] /\ Len(ring[k][p]) > 0
      /\ ring'[k][p] = Tail(ring[k][p])
      /\ \A j \in Kind, q \in Pod : j # k \/ q # p => ring'[j][q] = ring[j][q]
      /\ Len(ring'[k][p]) = Len(ring[k][p]) - 1
      /\ \A i \in 1 .. Len(ring[k][p]) - 1 : ring'[k][p][i] = ring[k][p][i + 1]
      /\ held' = [held EXCEPT ![k] = held[k] \cup {ring[k][p][1]}]
      /\ ring[k][p][1] \in Nat
  <2>1. /\ ring[k][p] \in Seq(Nat) /\ Len(ring[k][p]) \in Nat /\ 1 \in DOMAIN ring[k][p]
        /\ Len(ring[k][p]) <= RingCap
        /\ ring' = [ring EXCEPT ![k][p] = Tail(ring[k][p])]
        /\ Tail(ring[k][p]) \in Seq(Nat)
        /\ Len(Tail(ring[k][p])) = Len(ring[k][p]) - 1
        /\ \A i \in 1 .. Len(ring[k][p]) - 1 : Tail(ring[k][p])[i] = ring[k][p][i + 1]
        /\ held' = [held EXCEPT ![k] = held[k] \cup {ring[k][p][1]}]
        /\ ring[k][p][1] \in Nat
    BY <1>1, TakeFacts
  <2>2. Len(ring[k][p]) > 0
    BY <2>1
  <2>3. ring'[k][p] = Tail(ring[k][p]) /\ \A j \in Kind, q \in Pod : j # k \/ q # p => ring'[j][q] = ring[j][q]
    BY <1>1, <2>1 DEF IdTypeOK
  <2> QED
    BY <2>1, <2>2, <2>3, Zenon
<1>3. UNCHANGED <<seidNext, teidNext, teidFree, conn, replies>>
  BY DEF AllocTake, redis
<1>4. \A j \in Kind, q \in Pod : Dropped(ring[j][q], ring'[j][q])
  <2>1. TAKE j \in Kind, q \in Pod
  <2>2. CASE j # k \/ q # p
    <3>1. ring[j][q] \in Seq(Word) /\ ring'[j][q] = ring[j][q]
      BY <1>1, <1>2, <2>2 DEF IdTypeOK
    <3> QED
      BY <3>1, SameDropped
  <2>3. CASE j = k /\ q = p
    BY <1>2, <2>3, TailDropped
  <2> QED
    BY <2>2, <2>3
<1>5. /\ \A j \in Kind, d \in Nat : InRing(j, d)' => InRing(j, d)
      /\ \A j \in Kind : RingOnce(j) => RingOnce(j)'
      /\ \A j \in Kind, q \in Pod : \A i \in DOMAIN ring'[j][q] :
           \E n \in DOMAIN ring[j][q] : ring'[j][q][i] = ring[j][q][n]
  BY <1>1, <1>4, RingDropped
<1>6. PICK e \in Nat : e = LocalOf(k, ring[k][p][1])
  BY <1>2, TeidLocalType, Sizes, Remainder DEF LocalOf, v_seid_local
<1>7. InRing(k, e)
  BY <1>2, <1>6 DEF InRing
<1>8. \A j \in Kind, d \in Nat : InHeld(j, d)' => InHeld(j, d) \/ (j = k /\ d = e)
  <2>1. SUFFICES ASSUME NEW j \in Kind, NEW d \in Nat, NEW w \in held'[j], LocalOf(j, w) = d
                 PROVE  InHeld(j, d) \/ (j = k /\ d = e)
    BY DEF InHeld, LocalOf
  <2>2. w \in held[j] \/ (j = k /\ w = ring[k][p][1])
    BY <1>1, <1>2 DEF IdTypeOK
  <2> QED
    BY <1>6, <2>1, <2>2 DEF InHeld
<1>9. WordsAccepted'
  <2>1. \A j \in Kind, q \in Pod : \A i \in DOMAIN ring'[j][q] : Accepted(j, ring'[j][q][i])
    BY <1>1, <1>5 DEF WordsAccepted
  <2>2. ASSUME NEW j \in Kind, NEW w \in held'[j] PROVE Accepted(j, w)
    <3>1. w \in held[j] \/ (j = k /\ w = ring[k][p][1])
      BY <1>1, <1>2 DEF IdTypeOK
    <3> QED
      BY <1>1, <1>2, <3>1 DEF WordsAccepted
  <2> QED
    BY <2>1, <2>2 DEF WordsAccepted, Accepted
<1>10. \A j \in Kind : Leased(j) <= Leased(j)'
  BY <1>1, <1>3, LeasedFrame, LeasedType
<1>11. \A j \in Kind, d \in Nat : /\ InReply(j, d)' => InReply(j, d)
                                  /\ InFree(j, d)' => InFree(j, d)
                                  /\ InConn(j, d)' => InConn(j, d)
  BY <1>3, ReplyFrame, FreeFrame, ConnFrame
<1>12. LeaseInv'
  <2>1. \A j \in Kind, d \in Nat : Somewhere(j, d)' => Somewhere(j, d) \/ d < Leased(j)'
    BY <1>5, <1>7, <1>8, <1>11 DEF Somewhere
  <2> QED
    BY <1>9, <1>10, <2>1, LeaseKept
<1>13. ASSUME NEW j \in Kind, Single(j) PROVE Single(j)'
  <2>1. RingOnce(j)' /\ ReplyOnce(j)' /\ (j = "TEID" => FreeOnce' /\ ConnOnce')
    BY <1>3, <1>5, <1>13, ReplyFrame, FreeFrame, ConnFrame DEF Single
  <2>2. j = k => ~InRing(k, e)'
    <3>1. SUFFICES ASSUME j = k, NEW q \in Pod, NEW i \in DOMAIN ring'[k][q], LocalOf(k, ring'[k][q][i]) = e
                   PROVE  FALSE
      BY DEF InRing, LocalOf
    <3>2. RingOnce(k)
      BY <1>13, <3>1 DEF Single
    <3>3. CASE q # p
      BY <1>2, <1>6, <3>1, <3>2, <3>3 DEF RingOnce
    <3>4. CASE q = p
      <4>1. DOMAIN ring'[k][p] = 1 .. Len(ring'[k][p]) /\ DOMAIN ring[k][p] = 1 .. Len(ring[k][p])
        <5>1. ring'[k][p] \in Seq(Word) /\ ring[k][p] \in Seq(Word)
          BY <1>1 DEF IdTypeOK
        <5> QED
          BY <5>1
      <4>2. PICK n \in DOMAIN ring[k][p] : n = i + 1 /\ n # 1 /\ ring'[k][p][i] = ring[k][p][n]
        <5>1. PICK a \in Nat : a = Len(ring[k][p])
          BY <1>2
        <5>2. i \in 1 .. a - 1
          BY <1>2, <3>1, <3>4, <4>1, <5>1
        <5>3. i + 1 \in 1 .. a /\ i + 1 # 1
          BY <5>2
        <5>4. ring'[k][p][i] = ring[k][p][i + 1]
          BY <1>2, <5>1, <5>2
        <5> QED
          BY <4>1, <5>1, <5>3, <5>4
      <4>3. LocalOf(k, ring[k][p][n]) = LocalOf(k, ring[k][p][1])
        BY <1>6, <3>1, <3>4, <4>2
      <4> QED
        BY <1>2, <3>2, <4>2, <4>3 DEF RingOnce
    <3> QED
      BY <3>3, <3>4
  <2>3. ASSUME NEW d \in Nat PROVE Apart(j, d)'
    <3>1. Apart(j, d) /\ (j = k => Apart(k, e))
      BY <1>13 DEF Single, AllApart
    <3>2. /\ InRing(j, d)' => InRing(j, d)
          /\ InReply(j, d)' => InReply(j, d)
          /\ InHeld(j, d)' => InHeld(j, d) \/ (j = k /\ d = e)
          /\ InFree(j, d)' => InFree(j, d)
          /\ InConn(j, d)' => InConn(j, d)
      BY <1>5, <1>8, <1>11
    <3> QED
      BY <1>7, <2>2, <3>1, <3>2 DEF Apart
  <2> QED
    BY <2>1, <2>3 DEF Single, AllApart
<1>14. UniqueInv => UniqueInv'
  BY <1>1, <1>10, <1>13, SingleKept
<1> QED
  BY <1>12, <1>14

(* v_teid_free() moves a TEID from its caller to the connection, or loses  *)
(* it when the command cannot be dispatched.                               *)
LEMMA FreeMoves ==
  ASSUME LeaseInv, IdTypeOK', NEW p \in Pod, NEW teid \in held["TEID"], v_teid_free(p, teid)
  PROVE  LeaseInv' /\ (UniqueInv => UniqueInv')
<1>1. IdTypeOK /\ WordsAccepted /\ "TEID" \in Kind /\ "TEID" # "SEID"
  BY DEF LeaseInv, Kind
<1>2. UNCHANGED <<seidNext, teidNext, teidFree, ring, replies>>
  BY DEF v_teid_free, redis
<1>3. PICK e \in Nat : e = v_teid_local(teid) /\ teid \in Nat /\ Cmd("RPUSH", e) \in Command
  BY <1>1, FreeSends
<1>4. \A k \in Kind : \A w : w \in held'[k] <=> w \in held[k] /\ ~(k = "TEID" /\ w = teid)
  BY <1>1 DEF v_teid_free, IdTypeOK
<1>5. \A k \in Kind, d \in Nat : InHeld(k, d)' => InHeld(k, d)
  BY <1>4 DEF InHeld, LocalOf
<1>6. InHeld("TEID", e)
  BY <1>1, <1>3 DEF InHeld, LocalOf
<1>7. ~InHeld("TEID", e)'
  <2>1. SUFFICES ASSUME NEW w \in held'["TEID"], LocalOf("TEID", w) = e PROVE FALSE
    BY DEF InHeld, LocalOf
  <2>2. w \in held["TEID"] /\ w # teid
    BY <1>1, <1>4
  <2>3. w \in Nat /\ Accepted("TEID", w) /\ Accepted("TEID", teid)
    BY <1>1, <2>2 DEF WordsAccepted, IdTypeOK, Word
  <2>4. LocalOf("TEID", teid) = e
    BY <1>1, <1>3 DEF LocalOf
  <2> QED
    BY <1>1, <1>3, <2>1, <2>2, <2>3, <2>4, WordOfLocal
<1>8. WordsAccepted'
  <2>1. \A k \in Kind, q \in Pod : \A i \in DOMAIN ring'[k][q] : Accepted(k, ring'[k][q][i])
    BY <1>1, <1>2 DEF WordsAccepted
  <2>2. \A k \in Kind : \A w \in held'[k] : Accepted(k, w)
    BY <1>1, <1>4 DEF WordsAccepted
  <2> QED
    BY <2>1, <2>2 DEF WordsAccepted, Accepted
<1>9. \A k \in Kind : Leased(k) <= Leased(k)'
  BY <1>1, <1>2, LeasedFrame, LeasedType
<1>10. PICK c \in Seq(Command) : /\ conn' = [conn EXCEPT ![p] = @ \o c]
                                 /\ c = << >> \/ c = << Cmd("RPUSH", e) >>
  BY <1>1, <1>3, FreeSends
<1>11. CASE c = << >>
  <2>1. \A i \in DOMAIN c : c[i].op # "RPUSH"
    BY <1>11
  <2>2. (\A k \in Kind, d \in Nat : InConn(k, d)' => InConn(k, d)) /\ (ConnOnce => ConnOnce')
    BY <1>1, <1>10, <2>1, ConnAppended
  <2>3. Shrinks
    BY <1>2, <1>5, <1>8, <1>9, <2>2, RingFrame, ReplyFrame, FreeFrame DEF Shrinks
  <2> QED
    BY <2>3, Shrunk
<1>12. CASE c = << Cmd("RPUSH", e) >>
  <2>1. conn' = [conn EXCEPT ![p] = @ \o << Cmd("RPUSH", e) >>]
    BY <1>10, <1>12, Zenon
  <2>2. /\ \A k \in Kind, d \in Nat : InConn(k, d)' => InConn(k, d) \/ (k = "TEID" /\ d = e)
        /\ ConnOnce /\ ~InConn("TEID", e) => ConnOnce'
    BY <1>1, <1>3, <2>1, ConnPushed
  <2>3. \A k \in Kind, d \in Nat : /\ InRing(k, d)' => InRing(k, d)
                                   /\ InReply(k, d)' => InReply(k, d)
                                   /\ InFree(k, d)' => InFree(k, d)
    BY <1>2, RingFrame, ReplyFrame, FreeFrame
  <2>4. LeaseInv'
    <3>1. \A k \in Kind, d \in Nat : Somewhere(k, d)' => Somewhere(k, d) \/ d < Leased(k)'
      BY <1>5, <1>6, <2>2, <2>3 DEF Somewhere
    <3> QED
      BY <1>8, <1>9, <3>1, LeaseKept
  <2>5. ASSUME NEW k \in Kind, Single(k) PROVE Single(k)'
    <3>1. k = "TEID" => Apart("TEID", e)
      BY <2>5 DEF Single, AllApart
    <3>2. RingOnce(k)' /\ ReplyOnce(k)' /\ (k = "TEID" => FreeOnce')
      BY <1>2, <2>5, RingFrame, ReplyFrame, FreeFrame DEF Single
    <3>3. k = "TEID" => ConnOnce'
      BY <1>6, <2>2, <2>5, <3>1 DEF Single, Apart
    <3>4. ASSUME NEW d \in Nat PROVE Apart(k, d)'
      <4>1. Apart(k, d)
        BY <2>5 DEF Single, AllApart
      <4>2. /\ InRing(k, d)' => InRing(k, d)
            /\ InReply(k, d)' => InReply(k, d)
            /\ InHeld(k, d)' => InHeld(k, d)
            /\ InFree(k, d)' => InFree(k, d)
            /\ InConn(k, d)' => InConn(k, d) \/ (k = "TEID" /\ d = e)
        BY <1>5, <2>2, <2>3
      <4> QED
        BY <1>6, <1>7, <3>1, <4>1, <4>2 DEF Apart
    <3> QED
      BY <3>2, <3>3, <3>4 DEF Single, AllApart
  <2>6. UniqueInv => UniqueInv'
    BY <1>1, <1>9, <2>5, SingleKept
  <2> QED
    BY <2>4, <2>6
<1> QED
  BY <1>10, <1>11, <1>12

(* Redis takes a command off the connection.                               *)
LEMMA ExecDrops ==
  ASSUME IdTypeOK, NEW p \in Pod, RedisExec(p)
  PROVE  \A q \in Pod : Dropped(conn[q], conn'[q])
<1>1. TAKE q \in Pod
<1>2. CASE q # p
  <2>1. conn[q] \in Seq(Command) /\ conn'[q] = conn[q]
    BY <1>2, ExecTakes DEF IdTypeOK
  <2> QED
    BY <2>1, SameDropped
<1>3. CASE q = p
  <2>1. /\ Len(conn[p]) \in Nat /\ 1 \in DOMAIN conn[p] /\ DOMAIN conn[p] = 1 .. Len(conn[p])
        /\ Len(conn'[p]) = Len(conn[p]) - 1
        /\ \A n \in 1 .. Len(conn[p]) - 1 : conn'[p][n] = conn[p][n + 1]
    BY ExecTakes
  <2>2. Len(conn[p]) > 0
    BY <2>1
  <2> QED
    BY <1>3, <2>1, <2>2, TailDropped
<1> QED
  BY <1>2, <1>3

(* A refill that leases a block: INCRBY, and V_LUA_TEID_REFILL when the    *)
(* free list is not deep enough.                                           *)
LEMMA BlockMoves ==
  ASSUME LeaseInv, IdTypeOK', NEW p \in Pod, RedisExec(p), NEW k \in Kind, NEW x \in Refill,
         x.kind = k, x.ids = Block(Leased(k)), replies' = [replies EXCEPT ![p] = Append(@, x)],
         Leased(k)' = Leased(k) + V_ID_BLK_SIZE,
         \A j \in Kind : j # k => Leased(j)' = Leased(j),
         UNCHANGED teidFree
  PROVE  LeaseInv' /\ (UniqueInv => UniqueInv')
<1>1. IdTypeOK /\ WordsAccepted
  BY DEF LeaseInv
<1>2. UNCHANGED <<ring, held>>
  BY <1>1, ExecTakes
<1>3. (\A j \in Kind, d \in Nat : InConn(j, d)' => InConn(j, d)) /\ (ConnOnce => ConnOnce')
  BY <1>1, ExecDrops, ConnDropped
<1>4. PICK n \in Nat : n = Leased(k)
  BY <1>1, LeasedType
<1>5. V_ID_BLK_SIZE \in Nat /\ DOMAIN x.ids = 1 .. V_ID_BLK_SIZE /\ \A i \in DOMAIN x.ids : x.ids[i] = n + i - 1
  <2>1. Block(n) \in Seq(Nat) /\ Len(Block(n)) = V_ID_BLK_SIZE
        /\ \A i \in 1 .. V_ID_BLK_SIZE : Block(n)[i] = n + i - 1
    BY BlockIds
  <2>2. DOMAIN Block(n) = 1 .. V_ID_BLK_SIZE
    BY <2>1, LenProperties
  <2> QED
    BY <1>4, <2>1, <2>2, IdSizes
<1>6. \A i \in DOMAIN x.ids : x.ids[i] \in Nat /\ ~(x.ids[i] < Leased(k)) /\ x.ids[i] < Leased(k)'
  BY <1>4, <1>5
<1>7. \A i, j \in DOMAIN x.ids : x.ids[i] = x.ids[j] => i = j
  BY <1>5
<1>8. \A i \in DOMAIN x.ids : ~Somewhere(k, x.ids[i])
  BY <1>6 DEF LeaseInv, BelowCounter
<1>9. \A j \in Kind : Leased(j) <= Leased(j)'
  <2>1. TAKE j \in Kind
  <2>2. Leased(j) \in Nat
    BY <1>1, LeasedType
  <2> QED
    BY <1>4, <1>5, <2>2
<1>10. WordsAccepted'
  BY <1>1, <1>2, WordsFrame
<1>11. \A j \in Kind, d \in Nat :
         /\ InRing(j, d)' => InRing(j, d)
         /\ InHeld(j, d)' => InHeld(j, d)
         /\ InFree(j, d)' => InFree(j, d)
         /\ InConn(j, d)' => InConn(j, d)
         /\ InReply(j, d)' => InReply(j, d) \/ (x.kind = j /\ \E i \in DOMAIN x.ids : x.ids[i] = d)
  BY <1>1, <1>2, <1>3, RingFrame, HeldFrame, FreeFrame, ReplyAppended
<1>12. LeaseInv'
  <2>1. \A j \in Kind, d \in Nat : Somewhere(j, d)' => Somewhere(j, d) \/ d < Leased(j)'
    BY <1>6, <1>11 DEF Somewhere
  <2> QED
    BY <1>9, <1>10, <2>1, LeaseKept
<1>13. ASSUME NEW j \in Kind, Single(j) PROVE Single(j)'
  <2>1. RingOnce(j)' /\ (j = "TEID" => FreeOnce' /\ ConnOnce')
    BY <1>2, <1>3, <1>13, RingFrame, FreeFrame DEF Single
  <2>2. \A i \in DOMAIN x.ids : ~InReply(k, x.ids[i])
    BY <1>8 DEF Somewhere
  <2>3. ReplyOnce(j)'
    <3>1. /\ ReplyOnce(j)
          /\ x.kind = j => /\ \A i, a \in DOMAIN x.ids : x.ids[i] = x.ids[a] => i = a
                           /\ \A i \in DOMAIN x.ids : ~InReply(j, x.ids[i])
      BY <1>7, <1>13, <2>2 DEF Single
    <3> QED
      BY <1>1, <3>1, ReplyAppended
  <2>4. ASSUME NEW d \in Nat PROVE Apart(j, d)'
    <3>1. Apart(j, d)
      BY <1>13 DEF Single, AllApart
    <3>2. CASE x.kind = j /\ \E i \in DOMAIN x.ids : x.ids[i] = d
      <4>1. ~Somewhere(j, d)
        BY <1>8, <3>2
      <4> QED
        BY <1>11, <4>1 DEF Apart, Somewhere
    <3>3. CASE ~(x.kind = j /\ \E i \in DOMAIN x.ids : x.ids[i] = d)
      BY <1>11, <3>1, <3>3 DEF Apart
    <3> QED
      BY <3>2, <3>3
  <2> QED
    BY <2>1, <2>3, <2>4 DEF Single, AllApart
<1>14. UniqueInv => UniqueInv'
  BY <1>1, <1>9, <1>13, SingleKept
<1> QED
  BY <1>12, <1>14

(* V_LUA_TEID_REFILL when the free list is deep enough: TEIDs move from    *)
(* the list into the reply.                                                *)
LEMMA PopMoves ==
  ASSUME LeaseInv, IdTypeOK', NEW p \in Pod, RedisExec(p), TeidRefill(p), Len(teidFree) > V_TEID_FREE_FLOOR
  PROVE  LeaseInv' /\ (UniqueInv => UniqueInv')
<1>1. IdTypeOK /\ WordsAccepted /\ "TEID" \in Kind
  BY DEF LeaseInv, Kind
<1>2. UNCHANGED <<ring, held>>
  BY <1>1, ExecTakes
<1>3. (\A j \in Kind, d \in Nat : InConn(j, d)' => InConn(j, d)) /\ (ConnOnce => ConnOnce')
  BY <1>1, ExecDrops, ConnDropped
<1>4. PICK n \in Nat, x \in Refill :
        /\ n <= Len(teidFree) /\ n <= V_ID_BLK_SIZE /\ n > 0 /\ x.kind = "TEID"
        /\ Len(x.ids) = n /\ \A i \in 1 .. n : x.ids[i] = teidFree[i]
        /\ replies' = [replies EXCEPT ![p] = Append(@, x)]
        /\ teidFree' \in Seq(Nat) /\ Len(teidFree') = Len(teidFree) - n
        /\ \A i \in 1 .. Len(teidFree) - n : teidFree'[i] = teidFree[n + i]
        /\ UNCHANGED <<seidNext, teidNext>>
  BY <1>1, PopFacts
<1>5. /\ \A k \in Kind, d \in Nat : InFree(k, d)' => InFree(k, d)
      /\ \A i \in DOMAIN x.ids : InFree("TEID", x.ids[i]) /\ x.ids[i] \in Nat
      /\ FreeOnce => /\ FreeOnce'
                     /\ \A i, j \in DOMAIN x.ids : x.ids[i] = x.ids[j] => i = j
                     /\ \A i \in DOMAIN x.ids : ~InFree("TEID", x.ids[i])'
  BY <1>1, <1>4, FreePopped
<1>6. \A j \in Kind : Leased(j) <= Leased(j)'
  BY <1>1, <1>4, LeasedFrame, LeasedType
<1>7. WordsAccepted'
  BY <1>1, <1>2, WordsFrame
<1>8. \A j \in Kind, d \in Nat :
         /\ InRing(j, d)' => InRing(j, d)
         /\ InHeld(j, d)' => InHeld(j, d)
         /\ InConn(j, d)' => InConn(j, d)
         /\ InReply(j, d)' => InReply(j, d) \/ (x.kind = j /\ \E i \in DOMAIN x.ids : x.ids[i] = d)
  BY <1>1, <1>2, <1>3, <1>4, RingFrame, HeldFrame, ReplyAppended
<1>9. LeaseInv'
  <2>1. \A j \in Kind, d \in Nat : Somewhere(j, d)' => Somewhere(j, d) \/ d < Leased(j)'
    BY <1>4, <1>5, <1>8 DEF Somewhere
  <2> QED
    BY <1>6, <1>7, <2>1, LeaseKept
<1>10. ASSUME NEW j \in Kind, Single(j) PROVE Single(j)'
  <2>1. RingOnce(j)' /\ (j = "TEID" => FreeOnce' /\ ConnOnce')
    BY <1>2, <1>3, <1>5, <1>10, RingFrame DEF Single
  <2>2. ASSUME j = "TEID", NEW i \in DOMAIN x.ids
        PROVE  /\ ~InReply(j, x.ids[i]) /\ ~InRing(j, x.ids[i]) /\ ~InHeld(j, x.ids[i])
               /\ ~InConn(j, x.ids[i]) /\ ~InFree(j, x.ids[i])'
    <3>1. PICK e \in Nat : e = x.ids[i] /\ InFree(j, e)
      BY <1>5, <2>2
    <3>2. Apart(j, e)
      BY <1>10 DEF Single, AllApart
    <3>3. ~InReply(j, e) /\ ~InRing(j, e) /\ ~InHeld(j, e) /\ ~InConn(j, e)
      BY <3>1, <3>2 DEF Apart
    <3>4. ~InFree(j, x.ids[i])'
      BY <1>5, <1>10, <2>2 DEF Single
    <3> QED
      BY <3>1, <3>3, <3>4
  <2>3. ReplyOnce(j)'
    <3>1. /\ ReplyOnce(j)
          /\ x.kind = j => /\ \A i, a \in DOMAIN x.ids : x.ids[i] = x.ids[a] => i = a
                           /\ \A i \in DOMAIN x.ids : ~InReply(j, x.ids[i])
      BY <1>4, <1>5, <1>10, <2>2 DEF Single
    <3> QED
      BY <1>1, <1>4, <3>1, ReplyAppended
  <2>4. ASSUME NEW d \in Nat PROVE Apart(j, d)'
    <3>1. Apart(j, d)
      BY <1>10 DEF Single, AllApart
    <3>2. CASE x.kind = j /\ \E i \in DOMAIN x.ids : x.ids[i] = d
      <4>1. PICK i \in DOMAIN x.ids : x.ids[i] = d
        BY <3>2
      <4>2. j = "TEID" /\ ~InRing(j, d) /\ ~InHeld(j, d) /\ ~InConn(j, d)
        BY <1>4, <2>2, <3>2, <4>1
      <4>3. ~InFree(j, d)'
        <5>1. ~InFree(j, x.ids[i])'
          BY <2>2, <4>2
        <5> QED
          BY <4>1, <5>1 DEF InFree
      <4> QED
        BY <1>8, <4>2, <4>3 DEF Apart
    <3>3. CASE ~(x.kind = j /\ \E i \in DOMAIN x.ids : x.ids[i] = d)
      BY <1>5, <1>8, <3>1, <3>3 DEF Apart
    <3> QED
      BY <3>2, <3>3
  <2> QED
    BY <2>1, <2>3, <2>4 DEF Single, AllApart
<1>11. UniqueInv => UniqueInv'
  BY <1>1, <1>6, <1>10, SingleKept
<1> QED
  BY <1>9, <1>11

(* RPUSH moves a TEID from the connection to the free list.                *)
LEMMA PushMoves ==
  ASSUME LeaseInv, IdTypeOK', NEW p \in Pod, RedisExec(p), conn[p][1].op = "RPUSH", RPush(conn[p][1].id)
  PROVE  LeaseInv' /\ (UniqueInv => UniqueInv')
<1>1. IdTypeOK /\ WordsAccepted /\ "TEID" \in Kind
  BY DEF LeaseInv, Kind
<1>2. UNCHANGED <<ring, held>>
  BY <1>1, ExecTakes
<1>3. (\A j \in Kind, d \in Nat : InConn(j, d)' => InConn(j, d)) /\ (ConnOnce => ConnOnce')
  BY <1>1, ExecDrops, ConnDropped
<1>4. PICK e \in Nat : e = conn[p][1].id
  BY <1>1, ExecTakes DEF Command, Local
<1>5. teidFree' = Append(teidFree, e) /\ UNCHANGED <<seidNext, teidNext, replies>>
  BY <1>4 DEF RPush
<1>6. /\ \A k \in Kind, d \in Nat : InFree(k, d)' => InFree(k, d) \/ (k = "TEID" /\ d = e)
      /\ FreeOnce /\ ~InFree("TEID", e) => FreeOnce'
  BY <1>1, <1>5, FreePushed
<1>7. 1 \in DOMAIN conn[p] /\ InConn("TEID", e)
  <2>1. 1 \in DOMAIN conn[p]
    BY <1>1, ExecTakes
  <2> QED
    BY <1>4, <2>1 DEF InConn
<1>8. ASSUME ConnOnce PROVE ~InConn("TEID", e)'
  <2>1. SUFFICES ASSUME NEW q \in Pod, NEW i \in DOMAIN conn'[q], conn'[q][i].op = "RPUSH", conn'[q][i].id = e
                 PROVE  FALSE
    BY DEF InConn
  <2>2. CASE q # p
    <3>1. conn'[q] = conn[q]
      BY <1>1, <2>2, ExecTakes
    <3> QED
      BY <1>4, <1>7, <1>8, <2>1, <2>2, <3>1 DEF ConnOnce
  <2>3. CASE q = p
    <3>1. PICK a \in Nat : /\ a = Len(conn[p]) /\ DOMAIN conn[p] = 1 .. a /\ Len(conn'[p]) = a - 1
                           /\ \A n \in 1 .. a - 1 : conn'[p][n] = conn[p][n + 1]
      BY <1>1, ExecTakes
    <3>2. DOMAIN conn'[p] = 1 .. a - 1
      BY <1>1, <3>1 DEF IdTypeOK
    <3>3. i \in 1 .. a - 1
      BY <2>1, <2>3, <3>2
    <3>4. PICK n \in DOMAIN conn[p] : n # 1 /\ conn'[p][i] = conn[p][n]
      <4>1. i + 1 \in 1 .. a /\ i + 1 # 1
        BY <3>3
      <4>2. conn'[p][i] = conn[p][i + 1]
        BY <3>1, <3>3
      <4> QED
        BY <3>1, <4>1, <4>2
    <3> QED
      BY <1>4, <1>7, <1>8, <2>1, <2>3, <3>4 DEF ConnOnce
  <2> QED
    BY <2>2, <2>3
<1>9. \A j \in Kind : Leased(j) <= Leased(j)'
  BY <1>1, <1>5, LeasedFrame, LeasedType
<1>10. WordsAccepted'
  BY <1>1, <1>2, WordsFrame
<1>11. \A j \in Kind, d \in Nat : /\ InRing(j, d)' => InRing(j, d)
                                  /\ InHeld(j, d)' => InHeld(j, d)
                                  /\ InReply(j, d)' => InReply(j, d)
  BY <1>2, <1>5, RingFrame, HeldFrame, ReplyFrame
<1>12. LeaseInv'
  <2>1. \A j \in Kind, d \in Nat : Somewhere(j, d)' => Somewhere(j, d) \/ d < Leased(j)'
    BY <1>3, <1>6, <1>7, <1>11 DEF Somewhere
  <2> QED
    BY <1>9, <1>10, <2>1, LeaseKept
<1>13. ASSUME NEW j \in Kind, Single(j) PROVE Single(j)'
  <2>1. j = "TEID" => Apart("TEID", e) /\ ~InConn("TEID", e)'
    BY <1>8, <1>13 DEF Single, AllApart
  <2>2. RingOnce(j)' /\ ReplyOnce(j)' /\ (j = "TEID" => ConnOnce')
    BY <1>2, <1>3, <1>5, <1>13, RingFrame, ReplyFrame DEF Single
  <2>3. j = "TEID" => FreeOnce'
    BY <1>6, <1>7, <1>13, <2>1 DEF Single, Apart
  <2>4. ASSUME NEW d \in Nat PROVE Apart(j, d)'
    <3>1. Apart(j, d)
      BY <1>13 DEF Single, AllApart
    <3>2. /\ InRing(j, d)' => InRing(j, d)
          /\ InReply(j, d)' => InReply(j, d)
          /\ InHeld(j, d)' => InHeld(j, d)
          /\ InFree(j, d)' => InFree(j, d) \/ (j = "TEID" /\ d = e)
          /\ InConn(j, d)' => InConn(j, d)
      BY <1>3, <1>6, <1>11
    <3> QED
      BY <1>7, <2>1, <3>1, <3>2 DEF Apart
  <2> QED
    BY <2>2, <2>3, <2>4 DEF Single, AllApart
<1>14. UniqueInv => UniqueInv'
  BY <1>1, <1>9, <1>13, SingleKept
<1> QED
  BY <1>12, <1>14

(* SETNX only seeds the counter.                                           *)
LEMMA SeedShrinks ==
  ASSUME IdTypeOK, IdTypeOK', NEW p \in Pod, RedisExec(p), SetNx
  PROVE  Shrinks
<1>1. UNCHANGED <<seidNext, teidFree, replies>> /\ teidNext' = IF teidNext = 0 THEN 1 ELSE teidNext
  BY DEF SetNx
<1>2. UNCHANGED <<ring, held>>
  BY ExecTakes
<1>3. \A k \in Kind : Leased(k) <= Leased(k)'
  BY <1>1 DEF Leased, IdTypeOK
<1>4. (\A k \in Kind, d \in Nat : InConn(k, d)' => InConn(k, d)) /\ (ConnOnce => ConnOnce')
  BY ExecDrops, ConnDropped
<1> QED
  BY <1>1, <1>2, <1>3, <1>4, RingFrame, ReplyFrame, HeldFrame, FreeFrame, WordsFrame DEF Shrinks

(* Every command that Redis executes.                                      *)
LEMMA ExecMoves ==
  ASSUME LeaseInv, IdTypeOK', NEW p \in Pod, RedisExec(p)
  PROVE  LeaseInv' /\ (UniqueInv => UniqueInv')
<1>1. IdTypeOK /\ "SEID" \in Kind /\ "TEID" \in Kind /\ "SEID" # "TEID"
  BY DEF LeaseInv, Kind
<1>2. CASE IncrBy(p)
  <2>1. /\ seidNext' = seidNext + V_ID_BLK_SIZE /\ UNCHANGED <<teidNext, teidFree>>
        /\ [kind |-> "SEID", ids |-> Block(seidNext)] \in Refill
        /\ replies' = [replies EXCEPT ![p] = Append(@, [kind |-> "SEID", ids |-> Block(seidNext)])]
    BY <1>1, <1>2, IncrByFacts
  <2>2. PICK x \in Refill : x.kind = "SEID" /\ x.ids = Block(seidNext)
          /\ replies' = [replies EXCEPT ![p] = Append(@, x)]
    BY <2>1
  <2>3. Leased("SEID") = seidNext /\ Leased("SEID")' = seidNext'
        /\ \A j \in Kind : j # "SEID" => Leased(j)' = Leased(j)
    BY <2>1 DEF Leased
  <2>4. x.ids = Block(Leased("SEID")) /\ Leased("SEID")' = Leased("SEID") + V_ID_BLK_SIZE /\ UNCHANGED teidFree
    BY <2>1, <2>2, <2>3
  <2> QED
    BY <1>1, <2>2, <2>3, <2>4, BlockMoves
<1>3. CASE SetNx
  BY <1>1, <1>3, SeedShrinks, Shrunk
<1>4. CASE TeidRefill(p) /\ Len(teidFree) > V_TEID_FREE_FLOOR
  BY <1>4, PopMoves
<1>5. CASE TeidRefill(p) /\ ~(Len(teidFree) > V_TEID_FREE_FLOOR)
  <2>1. /\ teidNext' = teidNext + V_ID_BLK_SIZE /\ UNCHANGED <<seidNext, teidFree>>
        /\ [kind |-> "TEID", ids |-> Block(teidNext)] \in Refill
        /\ replies' = [replies EXCEPT ![p] = Append(@, [kind |-> "TEID", ids |-> Block(teidNext)])]
    BY <1>1, <1>5, BumpFacts
  <2>2. PICK x \in Refill : x.kind = "TEID" /\ x.ids = Block(teidNext)
          /\ replies' = [replies EXCEPT ![p] = Append(@, x)]
    BY <2>1
  <2>3. Leased("TEID") = teidNext /\ Leased("TEID")' = teidNext'
        /\ \A j \in Kind : j # "TEID" => Leased(j)' = Leased(j)
    BY <1>1, <2>1 DEF Leased, Kind
  <2>4. x.ids = Block(Leased("TEID")) /\ Leased("TEID")' = Leased("TEID") + V_ID_BLK_SIZE /\ UNCHANGED teidFree
    BY <2>1, <2>2, <2>3
  <2> QED
    BY <1>1, <2>2, <2>3, <2>4, BlockMoves
<1>6. CASE conn[p][1].op = "RPUSH" /\ RPush(conn[p][1].id)
  BY <1>6, PushMoves
<1> QED
  BY <1>1, <1>2, <1>3, <1>4, <1>5, <1>6, ExecTakes

(* refill_reply_cb() moves identifiers from the oldest reply into the      *)
(* pod's ring.                                                             *)
LEMMA CbMoves ==
  ASSUME LeaseInv, IdTypeOK', NEW p \in Pod, refill_reply_cb(p)
  PROVE  LeaseInv' /\ (UniqueInv => UniqueInv')
<1>1. IdTypeOK /\ WordsAccepted
  BY DEF LeaseInv
<1>2. UNCHANGED <<seidNext, teidNext, teidFree, conn, held>>
  BY <1>1, CbFacts
<1>a. PICK k \in Kind, ids \in Seq(Nat), m \in Nat :
        \E f \in InOrder(Encodable(k, ids)) : CbRing(p, k, ids, f, m)
  BY <1>1, CbEnqueues
<1>3. PICK f \in InOrder(Encodable(k, ids)) : CbRing(p, k, ids, f, m)
  BY <1>a
<1>4. k = replies[p][1].kind /\ ids = replies[p][1].ids /\ 1 \in DOMAIN replies[p]
  <2>1. 1 \in DOMAIN replies[p]
    <3>1. replies[p] \in Seq(Refill) /\ Len(replies[p]) > 0
      BY <1>1, CbFacts DEF IdTypeOK
    <3> QED
      BY <3>1
  <2> QED
    BY <1>3, <2>1 DEF CbRing
<1>5. /\ \A j \in 1 .. m : f[j] \in DOMAIN ids /\ ids[f[j]] \in Nat /\ Encoded(k, ids[f[j]]) # Err
      /\ \A i, j \in 1 .. m : f[i] = f[j] => i = j
  BY <1>3, FromReply
<1>6. \A l \in Kind, q \in Pod : \A i \in DOMAIN ring'[l][q] :
        \/ i \in DOMAIN ring[l][q] /\ ring'[l][q][i] = ring[l][q][i]
        \/ l = k /\ q = p /\ \E j \in 1 .. m : /\ i = Len(ring[k][p]) + j
                                             /\ ring'[l][q][i] = Encoded(k, ids[f[j]])
  BY <1>1, <1>3, RingEntries
<1>7. \A j \in 1 .. m : /\ Encoded(k, ids[f[j]]) \in Nat /\ Accepted(k, Encoded(k, ids[f[j]]))
                        /\ LocalOf(k, Encoded(k, ids[f[j]])) \in Nat
                        /\ LocalOf(k, Encoded(k, ids[f[j]])) <= ids[f[j]]
                        /\ (k = "SEID" \/ ids[f[j]] < TeidWidth) => LocalOf(k, Encoded(k, ids[f[j]])) = ids[f[j]]
  BY <1>5, EncodedWord
<1>8. \A j \in 1 .. m : InReply(k, ids[f[j]]) /\ ids[f[j]] < Leased(k)
  <2>1. TAKE j \in 1 .. m
  <2>2. InReply(k, ids[f[j]])
    BY <1>4, <1>5 DEF InReply
  <2> QED
    BY <1>5, <2>2 DEF LeaseInv, BelowCounter, Somewhere
<1>9. \A q \in Pod : Dropped(replies[q], replies'[q])
  <2>1. TAKE q \in Pod
  <2>2. CASE q # p
    <3>1. replies[q] \in Seq(Refill)
      BY <1>1 DEF IdTypeOK
    <3>2. replies'[q] = replies[q]
      BY <1>1, <2>2, CbFacts, Zenon
    <3>3. Dropped(replies[q], replies[q])
      BY <3>1, SameDropped
    <3> QED
      BY <3>2, <3>3, Zenon
  <2>3. CASE q = p
    <3>1. /\ Len(replies[p]) \in Nat /\ Len(replies[p]) > 0 /\ Len(replies'[p]) = Len(replies[p]) - 1
          /\ \A n \in 1 .. Len(replies[p]) - 1 : replies'[p][n] = replies[p][n + 1]
      BY <1>1, CbFacts, Zenon
    <3>2. Dropped(replies[p], replies'[p])
      BY <3>1, TailDropped, Zenon
    <3> QED
      BY <2>3, <3>2, Zenon
  <2> QED
    BY <2>2, <2>3
<1>10. /\ \A j \in Kind, d \in Nat : InReply(j, d)' => InReply(j, d)
       /\ \A j \in Kind : ReplyOnce(j) => ReplyOnce(j)'
  BY <1>1, <1>9, ReplyDropped
<1>11. \A l \in Kind, d \in Nat :
         InRing(l, d)' => \/ InRing(l, d)
                          \/ l = k /\ \E j \in 1 .. m : d = LocalOf(k, Encoded(k, ids[f[j]]))
  <2>1. SUFFICES ASSUME NEW l \in Kind, NEW d \in Nat, NEW q \in Pod, NEW i \in DOMAIN ring'[l][q],
                        LocalOf(l, ring'[l][q][i]) = d
                 PROVE  \/ InRing(l, d)
                        \/ l = k /\ \E j \in 1 .. m : d = LocalOf(k, Encoded(k, ids[f[j]]))
    BY DEF InRing, LocalOf
  <2>2. CASE i \in DOMAIN ring[l][q] /\ ring'[l][q][i] = ring[l][q][i]
    BY <2>1, <2>2 DEF InRing
  <2>3. CASE l = k /\ \E j \in 1 .. m : ring'[l][q][i] = Encoded(k, ids[f[j]])
    BY <2>1, <2>3
  <2> QED
    BY <1>6, <2>2, <2>3, Zenon
<1>12. WordsAccepted'
  <2>1. ASSUME NEW l \in Kind, NEW q \in Pod, NEW i \in DOMAIN ring'[l][q] PROVE Accepted(l, ring'[l][q][i])
    <3>1. CASE i \in DOMAIN ring[l][q] /\ ring'[l][q][i] = ring[l][q][i]
      BY <1>1, <3>1 DEF WordsAccepted
    <3>2. CASE l = k /\ \E j \in 1 .. m : ring'[l][q][i] = Encoded(k, ids[f[j]])
      BY <1>7, <3>2
    <3> QED
      BY <1>6, <3>1, <3>2
  <2>2. \A l \in Kind : \A w \in held'[l] : Accepted(l, w)
    BY <1>1, <1>2 DEF WordsAccepted
  <2> QED
    BY <2>1, <2>2 DEF WordsAccepted, Accepted
<1>13. \A j \in Kind : Leased(j) <= Leased(j)' /\ Leased(j)' = Leased(j) /\ Leased(j) \in Nat
  BY <1>1, <1>2, LeasedFrame, LeasedType
<1>14. \A j \in Kind, d \in Nat : /\ InHeld(j, d)' => InHeld(j, d)
                                  /\ InFree(j, d)' => InFree(j, d)
                                  /\ InConn(j, d)' => InConn(j, d)
  BY <1>2, HeldFrame, FreeFrame, ConnFrame
<1>15. LeaseInv'
  <2>1. \A j \in 1 .. m : LocalOf(k, Encoded(k, ids[f[j]])) < Leased(k)'
    <3>1. TAKE j \in 1 .. m
    <3>2. PICK a \in Nat, b \in Nat, c \in Nat : /\ a = LocalOf(k, Encoded(k, ids[f[j]])) /\ b = ids[f[j]]
                                               /\ c = Leased(k)' /\ a <= b /\ b < c
      BY <1>5, <1>7, <1>8, <1>13
    <3> QED
      BY <3>2
  <2>2. \A j \in Kind, d \in Nat : Somewhere(j, d)' => Somewhere(j, d) \/ d < Leased(j)'
    BY <1>10, <1>11, <1>14, <2>1 DEF Somewhere
  <2> QED
    BY <1>12, <1>13, <2>2, LeaseKept
<1>16. ASSUME NEW l \in Kind, Unwrapped(l), Single(l) PROVE Single(l)'
  <2>1. ASSUME l = k, NEW j \in 1 .. m PROVE LocalOf(k, Encoded(k, ids[f[j]])) = ids[f[j]]
    <3>1. CASE k = "SEID"
      BY <1>7, <3>1
    <3>2. CASE k # "SEID"
      <4>1. ids[f[j]] < teidNext /\ teidNext <= TeidWidth /\ teidNext \in Nat /\ TeidWidth \in Nat /\ ids[f[j]] \in Nat
        BY <1>1, <1>5, <1>8, <1>16, <2>1, <3>2, Width DEF Unwrapped, Leased, IdTypeOK
      <4>2. ids[f[j]] < TeidWidth
        BY <4>1
      <4> QED
        BY <1>7, <4>2
    <3> QED
      BY <3>1, <3>2
  <2>2. ASSUME l = k, NEW j \in 1 .. m
        PROVE  ~InReply(k, ids[f[j]])'
    <3>1. ReplyOnce(k)
      BY <1>16, <2>2 DEF Single
    <3>2. PICK e \in Nat : e = ids[f[j]]
      BY <1>5
    <3>3. SUFFICES ASSUME NEW q \in Pod, NEW n \in DOMAIN replies'[q], replies'[q][n].kind = k,
                          NEW i \in DOMAIN replies'[q][n].ids, replies'[q][n].ids[i] = e
                   PROVE  FALSE
      <4>1. InReply(k, e)' => \E q \in Pod : \E n \in DOMAIN replies'[q] :
              replies'[q][n].kind = k /\ \E i \in DOMAIN replies'[q][n].ids : replies'[q][n].ids[i] = e
        BY DEF InReply
      <4>2. ~InReply(k, e)' => ~InReply(k, ids[f[j]])'
        BY <1>4, <3>2 DEF InReply
      <4> QED
        BY <4>1, <4>2
    <3>4. f[j] \in DOMAIN replies[p][1].ids /\ replies[p][1].ids[f[j]] = e /\ replies[p][1].kind = k
      BY <1>4, <1>5, <3>2
    <3>5. CASE q # p
      <4>1. replies'[q] = replies[q]
        BY <1>1, <3>5, CbFacts
      <4> QED
        BY <1>4, <3>1, <3>3, <3>4, <3>5, <4>1 DEF ReplyOnce
    <3>6. CASE q = p
      <4>a. /\ replies[p] \in Seq(Refill) /\ replies'[p] \in Seq(Refill)
            /\ Len(replies[p]) \in Nat /\ Len(replies[p]) > 0 /\ Len(replies'[p]) = Len(replies[p]) - 1
            /\ \A x \in 1 .. Len(replies[p]) - 1 : replies'[p][x] = replies[p][x + 1]
        BY <1>1, CbFacts DEF IdTypeOK
      <4>1. PICK a \in Nat : /\ a = Len(replies[p]) /\ DOMAIN replies[p] = 1 .. a /\ Len(replies'[p]) = a - 1
                             /\ \A x \in 1 .. a - 1 : replies'[p][x] = replies[p][x + 1]
        BY <4>a
      <4>2. DOMAIN replies'[p] = 1 .. a - 1
        BY <4>a, <4>1
      <4>3. n \in 1 .. a - 1
        BY <3>3, <3>6, <4>2
      <4>4. n + 1 \in 1 .. a /\ n + 1 # 1
        BY <4>3
      <4>5. PICK x \in DOMAIN replies[p] : x # 1 /\ replies'[p][n] = replies[p][x]
        BY <4>1, <4>3, <4>4
      <4> QED
        BY <1>4, <3>1, <3>3, <3>4, <3>6, <4>5 DEF ReplyOnce
    <3> QED
      BY <3>5, <3>6
  <2>3. ReplyOnce(l)' /\ (l = "TEID" => FreeOnce' /\ ConnOnce')
    BY <1>2, <1>10, <1>16, FreeFrame, ConnFrame DEF Single
  <2>4. ASSUME NEW d \in Nat PROVE Apart(l, d)'
    <3>1. Apart(l, d)
      BY <1>16 DEF Single, AllApart
    <3>2. CASE l = k /\ \E j \in 1 .. m : d = LocalOf(k, Encoded(k, ids[f[j]]))
      <4>1. PICK j \in 1 .. m : d = ids[f[j]]
        BY <2>1, <3>2
      <4>2. InReply(l, d)
        BY <1>8, <3>2, <4>1
      <4>3. ~InReply(l, d)'
        <5>1. ~InReply(k, ids[f[j]])'
          BY <2>2, <3>2
        <5> QED
          BY <1>4, <3>2, <4>1, <5>1 DEF InReply
      <4> QED
        BY <1>14, <3>1, <4>2, <4>3 DEF Apart
    <3>3. CASE ~(l = k /\ \E j \in 1 .. m : d = LocalOf(k, Encoded(k, ids[f[j]])))
      BY <1>10, <1>11, <1>14, <3>1, <3>3 DEF Apart
    <3> QED
      BY <3>2, <3>3
  <2>5. RingOnce(l)'
    <3>1. SUFFICES ASSUME NEW q \in Pod, NEW r \in Pod, NEW i \in DOMAIN ring'[l][q], NEW n \in DOMAIN ring'[l][r],
                          LocalOf(l, ring'[l][q][i]) = LocalOf(l, ring'[l][r][n])
                   PROVE  q = r /\ i = n
      BY DEF RingOnce, LocalOf
    <3>2. RingOnce(l)
      BY <1>16 DEF Single
    <3>3. ASSUME NEW s \in Pod, NEW a \in DOMAIN ring[l][s], NEW j \in 1 .. m, l = k,
                 LocalOf(l, ring[l][s][a]) = LocalOf(k, Encoded(k, ids[f[j]]))
          PROVE  FALSE
      <4>1. PICK e \in Nat : e = ids[f[j]] /\ LocalOf(l, ring[l][s][a]) = e
        BY <1>5, <2>1, <3>3
      <4>2. InRing(l, e)
        BY <3>3, <4>1 DEF InRing
      <4>3. InReply(l, e)
        BY <1>8, <3>3, <4>1
      <4> QED
        BY <1>16, <4>2, <4>3 DEF Single, AllApart, Apart
    <3>4. CASE /\ i \in DOMAIN ring[l][q] /\ ring'[l][q][i] = ring[l][q][i]
               /\ n \in DOMAIN ring[l][r] /\ ring'[l][r][n] = ring[l][r][n]
      BY <3>1, <3>2, <3>4 DEF RingOnce
    <3>5. CASE /\ i \in DOMAIN ring[l][q] /\ ring'[l][q][i] = ring[l][q][i]
               /\ l = k /\ \E j \in 1 .. m : ring'[l][r][n] = Encoded(k, ids[f[j]])
      BY <3>1, <3>3, <3>5
    <3>6. CASE /\ n \in DOMAIN ring[l][r] /\ ring'[l][r][n] = ring[l][r][n]
               /\ l = k /\ \E j \in 1 .. m : ring'[l][q][i] = Encoded(k, ids[f[j]])
      BY <3>1, <3>3, <3>6
    <3>7. CASE /\ l = k /\ q = p /\ r = p
               /\ \E j \in 1 .. m : i = Len(ring[k][p]) + j /\ ring'[l][q][i] = Encoded(k, ids[f[j]])
               /\ \E j \in 1 .. m : n = Len(ring[k][p]) + j /\ ring'[l][r][n] = Encoded(k, ids[f[j]])
      <4>1. PICK a \in 1 .. m : i = Len(ring[k][p]) + a /\ ring'[l][q][i] = Encoded(k, ids[f[a]])
        BY <3>7
      <4>2. PICK b \in 1 .. m : n = Len(ring[k][p]) + b /\ ring'[l][r][n] = Encoded(k, ids[f[b]])
        BY <3>7
      <4>3. ids[f[a]] = ids[f[b]]
        BY <2>1, <3>1, <3>7, <4>1, <4>2
      <4>4. f[a] = f[b]
        <5>1. ReplyOnce(k)
          BY <1>16, <3>7 DEF Single
        <5>2. f[a] \in DOMAIN replies[p][1].ids /\ f[b] \in DOMAIN replies[p][1].ids
              /\ replies[p][1].ids[f[a]] = replies[p][1].ids[f[b]]
          BY <1>4, <1>5, <4>3
        <5> QED
          BY <1>4, <5>1, <5>2 DEF ReplyOnce
      <4>5. a = b
        BY <1>5, <4>4
      <4> QED
        BY <3>7, <4>1, <4>2, <4>5
    <3> QED
      BY <1>6, <3>4, <3>5, <3>6, <3>7
  <2> QED
    BY <2>3, <2>4, <2>5 DEF Single, AllApart
<1>17. UniqueInv => UniqueInv'
  BY <1>1, <1>13, <1>16, SingleKept
<1> QED
  BY <1>15, <1>17

(* What every step does to the two invariants.                             *)
LEMMA NextLease ==
  ASSUME LeaseInv, [Next]_vars
  PROVE  LeaseInv' /\ (UniqueInv => UniqueInv')
<1>1. IdTypeOK /\ IdTypeOK'
  BY NextType DEF LeaseInv
<1>2. ASSUME UNCHANGED <<seidNext, teidNext, teidFree, ring, conn, replies, held>>
      PROVE  LeaseInv' /\ (UniqueInv => UniqueInv')
  BY <1>1, <1>2, QuietShrinks, Shrunk
<1>3. ASSUME NEW p \in Pod, v_id_alloc_init(p) PROVE LeaseInv' /\ (UniqueInv => UniqueInv')
  <2>1. UNCHANGED <<seidNext, teidNext, teidFree, ring, replies, held>>
    BY <1>3 DEF v_id_alloc_init, redis
  <2> QED
    BY <1>1, <1>3, <2>1, InitSends, SendShrinks, Shrunk
<1>4. ASSUME NEW p \in Pod, v_id_alloc_ready(p) PROVE LeaseInv' /\ (UniqueInv => UniqueInv')
  BY <1>2, <1>4 DEF v_id_alloc_ready, redis
<1>5. ASSUME NEW p \in Pod, Exit(p) PROVE LeaseInv' /\ (UniqueInv => UniqueInv')
  BY <1>1, <1>5, ExitShrinks, Shrunk
<1>6. ASSUME NEW p \in Pod, RedisExec(p) PROVE LeaseInv' /\ (UniqueInv => UniqueInv')
  BY <1>1, <1>6, ExecMoves
<1>7. ASSUME NEW p \in Pod, refill_reply_cb(p) PROVE LeaseInv' /\ (UniqueInv => UniqueInv')
  BY <1>1, <1>7, CbMoves
<1>8. ASSUME NEW p \in Pod, Disconnect(p) PROVE LeaseInv' /\ (UniqueInv => UniqueInv')
  BY <1>1, <1>8, DisconnectShrinks, Shrunk
<1>9. ASSUME NEW p \in Pod, NEW teid \in held["TEID"], v_teid_free(p, teid)
      PROVE  LeaseInv' /\ (UniqueInv => UniqueInv')
  BY <1>1, <1>9, FreeMoves
<1>10. ASSUME NEW p \in Pod, NEW l \in Lcore, NEW k \in Kind, AllocCheck(p, l, k)
       PROVE  LeaseInv' /\ (UniqueInv => UniqueInv')
  BY <1>2, <1>10 DEF AllocCheck, redis
<1>11. ASSUME NEW p \in Pod, NEW l \in Lcore, NEW k \in Kind, AllocClaim(p, l, k)
       PROVE  LeaseInv' /\ (UniqueInv => UniqueInv')
  <2>1. UNCHANGED <<seidNext, teidNext, teidFree, ring, replies, held>>
    BY <1>11 DEF AllocClaim, redis
  <2> QED
    BY <1>1, <1>11, <2>1, ClaimSends, SendShrinks, Shrunk
<1>12. ASSUME NEW p \in Pod, NEW l \in Lcore, NEW k \in Kind, AllocTake(p, l, k)
       PROVE  LeaseInv' /\ (UniqueInv => UniqueInv')
  <2>1. CASE ring[k][p] = << >>
    BY <1>2, <1>12, <2>1 DEF AllocTake, redis
  <2>2. CASE ring[k][p] # << >>
    BY <1>1, <1>12, <2>2, TakeMoves
  <2> QED
    BY <2>1, <2>2
<1>13. CASE UNCHANGED vars
  BY <1>2, <1>13 DEF vars
<1> QED
  BY <1>3, <1>4, <1>5, <1>6, <1>7, <1>8, <1>9, <1>10, <1>11, <1>12, <1>13 DEF Next

(* Nothing is anywhere in the first state.                                 *)
LEMMA InitEmpty ==
  ASSUME Init
  PROVE  LeaseInv /\ UniqueInv
<1>1. IdTypeOK
  BY InitType
<1>2. \A p \in Pod : /\ DOMAIN conn[p] = {} /\ DOMAIN replies[p] = {}
                     /\ \A k \in Kind : DOMAIN ring[k][p] = {}
  BY DEF Init
<1>3. (\A k \in Kind : held[k] = {}) /\ DOMAIN teidFree = {}
  BY DEF Init
<1>4. \A k \in Kind, d \in Nat : ~InRing(k, d) /\ ~InReply(k, d) /\ ~InHeld(k, d) /\ ~InFree(k, d) /\ ~InConn(k, d)
  BY <1>2, <1>3 DEF InRing, InReply, InHeld, InFree, InConn
<1>5. LeaseInv
  BY <1>1, <1>2, <1>3, <1>4 DEF LeaseInv, BelowCounter, WordsAccepted, Somewhere
<1>6. \A k \in Kind : RingOnce(k) /\ ReplyOnce(k)
  BY <1>2 DEF RingOnce, ReplyOnce
<1>7. FreeOnce
  BY <1>3 DEF FreeOnce
<1>8. ConnOnce
  BY <1>2 DEF ConnOnce
<1>9. UniqueInv
  BY <1>4, <1>6, <1>7, <1>8 DEF UniqueInv, Single, AllApart, Apart
<1> QED
  BY <1>5, <1>9

(* Every identifier in a ring, in a reply, with a caller, in the free list *)
(* or on its way there was leased from the Redis counter, and every word   *)
(* in a ring or with a caller is one of the partition: refills, frees,     *)
(* restarts and broken connections never invent an identifier              *)
(* (v_id_alloc.c, V_LUA_TEID_REFILL).                                      *)
THEOREM LeasesHold == Spec => []LeaseInv
<1>1. Init => LeaseInv
  BY InitEmpty
<1>2. LeaseInv /\ [Next]_vars => LeaseInv'
  BY NextLease
<1> QED
  BY <1>1, <1>2, PTL DEF Spec

(* A local index is a number.                                              *)
LEMMA LocalType ==
  ASSUME NEW k \in Kind, NEW w \in Nat
  PROVE  LocalOf(k, w) \in Nat
<1>1. SeidLocalSize \in Nat \ {0} /\ TeidLocalSize \in Nat \ {0}
  BY Sizes
<1>2. w % SeidLocalSize \in Nat /\ w % TeidLocalSize \in Nat
  BY <1>1, Remainder
<1> QED
  BY <1>2 DEF LocalOf, v_seid_local, v_teid_local

(* The words that can be handed out satisfy IdsValid.                      *)
LEMMA LeasedValid == LeaseInv => IdsValid
<1>1. SUFFICES ASSUME LeaseInv, NEW k \in Kind,
                      NEW w \in held[k] \cup UNION {{ring[k][p][i] : i \in DOMAIN ring[k][p]} : p \in Pod}
               PROVE  Accepted(k, w) /\ LocalOf(k, w) < Leased(k)
  BY DEF IdsValid, Accepted
<1>2. IdTypeOK /\ BelowCounter /\ WordsAccepted
  BY <1>1 DEF LeaseInv
<1>3. CASE w \in held[k]
  <2>1. w \in Nat /\ Accepted(k, w)
    BY <1>2, <1>3 DEF IdTypeOK, WordsAccepted, Word
  <2>2. PICK d \in Nat : d = LocalOf(k, w)
    BY <2>1, LocalType
  <2>3. InHeld(k, d)
    BY <1>3, <2>2 DEF InHeld
  <2> QED
    BY <1>2, <2>1, <2>2, <2>3 DEF BelowCounter, Somewhere
<1>4. CASE \E p \in Pod : \E i \in DOMAIN ring[k][p] : w = ring[k][p][i]
  <2>1. PICK p \in Pod : \E i \in DOMAIN ring[k][p] : w = ring[k][p][i]
    BY <1>4
  <2>2. PICK i \in DOMAIN ring[k][p] : w = ring[k][p][i]
    BY <2>1
  <2>3. ring[k][p] \in Seq(Nat)
    BY <1>2 DEF IdTypeOK, Word
  <2>4. w \in Nat /\ Accepted(k, w)
    BY <1>2, <2>2, <2>3 DEF WordsAccepted
  <2>5. PICK d \in Nat : d = LocalOf(k, w)
    BY <2>4, LocalType
  <2>6. InRing(k, d)
    BY <2>2, <2>5 DEF InRing
  <2> QED
    BY <1>2, <2>4, <2>5, <2>6 DEF BelowCounter, Somewhere
<1> QED
  BY <1>1, <1>3, <1>4

(* Every SEID and TEID a pod can hand out is valid, in its partition and   *)
(* leased, also once the counters have run past the local field and past   *)
(* the 32 bits of enqueue_teid() (v_seid_encode(), v_teid_encode() as      *)
(* v_id_alloc.c calls them), whatever fails.                               *)
THEOREM IdsAlwaysValid == Spec => []IdsValid
  BY LeasesHold, LeasedValid, PTL

-----------------------------------------------------------------------------
(* Uniqueness.                                                             *)

(* No identifier is in two places, of SEIDs ever and of TEIDs until the    *)
(* counter outruns 32 bits: the inductive form of IdUnique.                *)
THEOREM IdsApart == Spec => []UniqueInv
<1>1. Init => LeaseInv /\ UniqueInv
  BY InitEmpty
<1>2. (LeaseInv /\ UniqueInv) /\ [Next]_vars => (LeaseInv /\ UniqueInv)'
  BY NextLease
<1> QED
  BY <1>1, <1>2, PTL DEF Spec

(* The places of Places, by container.                                     *)
LEMMA PlacesByContainer ==
  ASSUME IdTypeOK, NEW k \in Kind, NEW d \in Nat, NEW x \in Places(k, d)
  PROVE  \/ \E p \in Pod : \E i \in DOMAIN ring[k][p] :
              x = <<"ring", p, i>> /\ LocalOf(k, ring[k][p][i]) = d
         \/ \E p \in Pod : \E n \in DOMAIN replies[p] :
              /\ replies[p][n].kind = k
              /\ \E i \in DOMAIN replies[p][n].ids :
                   x = <<"reply", p, n, i>> /\ replies[p][n].ids[i] = d
         \/ \E w \in held[k] : x = <<"held", w>> /\ LocalOf(k, w) = d
         \/ k = "TEID" /\ \E i \in DOMAIN teidFree : x = <<"free", i>> /\ teidFree[i] = d
         \/ k = "TEID" /\ \E p \in Pod : \E i \in DOMAIN conn[p] :
              x = <<"conn", p, i>> /\ conn[p][i].op = "RPUSH" /\ conn[p][i].id = d
<1>1. k = "SEID" \/ k = "TEID"
  BY DEF Kind
<1>2. Cmd("RPUSH", d).op = "RPUSH" /\ Cmd("RPUSH", d).id = d
  BY DEF Cmd
<1>3. \/ \E p \in Pod : x \in {<<"ring", p, i>> : i \in {j \in DOMAIN ring[k][p] : LocalOf(k, ring[k][p][j]) = d}}
      \/ \E p \in Pod : \E n \in {m \in DOMAIN replies[p] : replies[p][m].kind = k} :
           x \in {<<"reply", p, n, i>> : i \in {j \in DOMAIN replies[p][n].ids : replies[p][n].ids[j] = d}}
      \/ x \in {<<"held", w>> : w \in {y \in held[k] : LocalOf(k, y) = d}}
      \/ k # "SEID" /\ x \in {<<"free", i>> : i \in {j \in DOMAIN teidFree : teidFree[j] = d}}
      \/ k # "SEID" /\ \E p \in Pod : x \in {<<"conn", p, i>> : i \in {j \in DOMAIN conn[p] : conn[p][j] = Cmd("RPUSH", d)}}
  <2> DEFINE R == UNION {{<<"ring", p, i>> : i \in {j \in DOMAIN ring[k][p] : LocalOf(k, ring[k][p][j]) = d}} : p \in Pod}
             Y == UNION {UNION {{<<"reply", p, n, i>> : i \in {j \in DOMAIN replies[p][n].ids : replies[p][n].ids[j] = d}}
                                 : n \in {m \in DOMAIN replies[p] : replies[p][m].kind = k}} : p \in Pod}
             H == {<<"held", w>> : w \in {y \in held[k] : LocalOf(k, y) = d}}
             F == {<<"free", i>> : i \in {j \in DOMAIN teidFree : teidFree[j] = d}}
             C == UNION {{<<"conn", p, i>> : i \in {j \in DOMAIN conn[p] : conn[p][j] = Cmd("RPUSH", d)}} : p \in Pod}
  <2>1. Places(k, d) = R \cup Y \cup H \cup (IF k = "SEID" THEN {} ELSE F \cup C)
    BY DEF Places
  <2>2. x \in R \/ x \in Y \/ x \in H \/ (k # "SEID" /\ (x \in F \/ x \in C))
    <3> HIDE DEF R, Y, H, F, C
    <3> QED
      BY <2>1
  <2>3. x \in R => \E p \in Pod : x \in {<<"ring", p, i>> : i \in {j \in DOMAIN ring[k][p] : LocalOf(k, ring[k][p][j]) = d}}
    BY Zenon
  <2>4. x \in Y => \E p \in Pod : \E n \in {m \in DOMAIN replies[p] : replies[p][m].kind = k} :
           x \in {<<"reply", p, n, i>> : i \in {j \in DOMAIN replies[p][n].ids : replies[p][n].ids[j] = d}}
    <3>1. x \in Y => \E p \in Pod :
            x \in UNION {{<<"reply", p, n, i>> : i \in {j \in DOMAIN replies[p][n].ids : replies[p][n].ids[j] = d}}
                          : n \in {m \in DOMAIN replies[p] : replies[p][m].kind = k}}
      BY Zenon
    <3> HIDE DEF Y
    <3> QED
      BY <3>1
  <2>5. x \in C => \E p \in Pod : x \in {<<"conn", p, i>> : i \in {j \in DOMAIN conn[p] : conn[p][j] = Cmd("RPUSH", d)}}
    BY Zenon
  <2> QED
    BY <2>2, <2>3, <2>4, <2>5, Zenon
<1>4. CASE \E p \in Pod : x \in {<<"ring", p, i>> : i \in {j \in DOMAIN ring[k][p] : LocalOf(k, ring[k][p][j]) = d}}
  BY <1>4
<1>5. CASE \E p \in Pod : \E n \in {m \in DOMAIN replies[p] : replies[p][m].kind = k} :
             x \in {<<"reply", p, n, i>> : i \in {j \in DOMAIN replies[p][n].ids : replies[p][n].ids[j] = d}}
  BY <1>5
<1>6. CASE x \in {<<"held", w>> : w \in {y \in held[k] : LocalOf(k, y) = d}}
  BY <1>6
<1>7. CASE k # "SEID" /\ x \in {<<"free", i>> : i \in {j \in DOMAIN teidFree : teidFree[j] = d}}
  BY <1>1, <1>7
<1>8. CASE k # "SEID" /\ \E p \in Pod : x \in {<<"conn", p, i>> : i \in {j \in DOMAIN conn[p] : conn[p][j] = Cmd("RPUSH", d)}}
  BY <1>1, <1>2, <1>8
<1> QED
  BY <1>3, <1>4, <1>5, <1>6, <1>7, <1>8

(* An identifier in some place is in some container.                       *)
LEMMA PlacedSomewhere ==
  ASSUME IdTypeOK, NEW k \in Kind, NEW d \in Nat, NEW x \in Places(k, d)
  PROVE  Somewhere(k, d)
BY PlacesByContainer DEF Somewhere, InRing, InReply, InHeld, InFree, InConn

(* Two places of an identifier are one.                                    *)
LEMMA OnePlace ==
  ASSUME LeaseInv, UniqueInv, NEW k \in Kind, Unwrapped(k), NEW d \in Nat,
         NEW x \in Places(k, d), NEW y \in Places(k, d)
  PROVE  x = y
<1> DEFINE ring_(z) == \E p \in Pod : \E i \in DOMAIN ring[k][p] :
              z = <<"ring", p, i>> /\ LocalOf(k, ring[k][p][i]) = d
           reply_(z) == \E p \in Pod : \E n \in DOMAIN replies[p] :
              /\ replies[p][n].kind = k
              /\ \E i \in DOMAIN replies[p][n].ids :
                   z = <<"reply", p, n, i>> /\ replies[p][n].ids[i] = d
           held_(z) == \E w \in held[k] : z = <<"held", w>> /\ LocalOf(k, w) = d
           free_(z) == k = "TEID" /\ \E i \in DOMAIN teidFree : z = <<"free", i>> /\ teidFree[i] = d
           conn_(z) == k = "TEID" /\ \E p \in Pod : \E i \in DOMAIN conn[p] :
              z = <<"conn", p, i>> /\ conn[p][i].op = "RPUSH" /\ conn[p][i].id = d
<1>1. IdTypeOK /\ WordsAccepted /\ Single(k)
  BY DEF LeaseInv, UniqueInv
<1>2. RingOnce(k) /\ ReplyOnce(k) /\ Apart(k, d) /\ (k = "TEID" => FreeOnce /\ ConnOnce)
  BY <1>1 DEF Single, AllApart
<1>3. ring_(x) \/ reply_(x) \/ held_(x) \/ free_(x) \/ conn_(x)
  BY <1>1, PlacesByContainer
<1>4. ring_(y) \/ reply_(y) \/ held_(y) \/ free_(y) \/ conn_(y)
  BY <1>1, PlacesByContainer
<1>5. ring_(x) /\ ring_(y) => x = y
  BY <1>2 DEF RingOnce
<1>6. reply_(x) /\ reply_(y) => x = y
  BY <1>2 DEF ReplyOnce
<1>7. held_(x) /\ held_(y) => x = y
  <2>1. SUFFICES ASSUME NEW v \in held[k], NEW w \in held[k], LocalOf(k, v) = d, LocalOf(k, w) = d
                 PROVE  v = w
    OBVIOUS
  <2>2. v \in Nat /\ w \in Nat /\ Accepted(k, v) /\ Accepted(k, w)
    BY <1>1 DEF IdTypeOK, WordsAccepted, Word
  <2> QED
    BY <2>1, <2>2, WordOfLocal
<1>8. free_(x) /\ free_(y) => x = y
  BY <1>2 DEF FreeOnce
<1>9. conn_(x) /\ conn_(y) => x = y
  BY <1>2 DEF ConnOnce
<1>10. \A z \in {x, y} : /\ ring_(z) => InRing(k, d)
                         /\ reply_(z) => InReply(k, d)
                         /\ held_(z) => InHeld(k, d)
                         /\ free_(z) => InFree(k, d)
                         /\ conn_(z) => InConn(k, d)
  BY DEF InRing, InReply, InHeld, InFree, InConn
<1> HIDE DEF ring_, reply_, held_, free_, conn_
<1> QED
  BY <1>2, <1>3, <1>4, <1>5, <1>6, <1>7, <1>8, <1>9, <1>10 DEF Apart

(* An identifier has one place at most, and none before it is leased.      *)
LEMMA PlaceCount ==
  ASSUME LeaseInv, UniqueInv, NEW k \in Kind, Unwrapped(k), NEW d \in Nat
  PROVE  Cardinality(Places(k, d)) <= (IF d < Leased(k) THEN 1 ELSE 0)
<1>1. IdTypeOK /\ BelowCounter
  BY DEF LeaseInv
<1>2. CASE Places(k, d) = {}
  BY <1>2, FS_EmptySet
<1>3. CASE Places(k, d) # {}
  <2>1. PICK x : x \in Places(k, d)
    BY <1>3
  <2>2. Places(k, d) = {x}
    BY <2>1, OnePlace
  <2>3. d < Leased(k)
    BY <1>1, <2>1, PlacedSomewhere DEF BelowCounter
  <2> QED
    BY <2>2, <2>3, FS_Singleton
<1> QED
  BY <1>2, <1>3

(* Two sessions never share an identifier, however refills, frees, crashes *)
(* and racing allocations of any number of pods and lcores interleave, as  *)
(* long as the TEID counter fits the 32 bits that enqueue_teid() casts it  *)
(* to.  (The id_wrap run shows that beyond them it fails.)                 *)
THEOREM IdsUnique == Spec => [](teidNext <= TeidWidth => IdUnique)
<1>1. LeaseInv /\ UniqueInv => (teidNext <= TeidWidth => IdUnique)
  <2>1. SUFFICES ASSUME LeaseInv, UniqueInv, teidNext <= TeidWidth, NEW k \in Kind,
                        NEW d \in 0 .. (Leased(k) + V_ID_BLK_SIZE)
                 PROVE  Cardinality(Places(k, d)) <= (IF d < Leased(k) THEN 1 ELSE 0)
    BY DEF IdUnique
  <2>2. d \in Nat /\ Unwrapped(k)
    BY <2>1 DEF Unwrapped
  <2> QED
    BY <2>1, <2>2, PlaceCount
<1> QED
  BY <1>1, LeasesHold, IdsApart, PTL

(* SEIDs are unique without a bound: INCRBY never gives a block twice and  *)
(* v_seid_encode() refuses what its field cannot hold.                     *)
THEOREM SeidsUnique ==
  Spec => [](\A d \in Nat : Cardinality(Places("SEID", d)) <= (IF d < seidNext THEN 1 ELSE 0))
<1>1. LeaseInv /\ UniqueInv =>
        \A d \in Nat : Cardinality(Places("SEID", d)) <= (IF d < seidNext THEN 1 ELSE 0)
  <2>1. SUFFICES ASSUME LeaseInv, UniqueInv, NEW d \in Nat
                 PROVE  Cardinality(Places("SEID", d)) <= (IF d < seidNext THEN 1 ELSE 0)
    OBVIOUS
  <2>2. "SEID" \in Kind /\ Unwrapped("SEID") /\ Leased("SEID") = seidNext
    BY DEF Kind, Unwrapped, Leased
  <2>3. Cardinality(Places("SEID", d)) <= (IF d < Leased("SEID") THEN 1 ELSE 0)
    BY <2>1, <2>2, PlaceCount
  <2> QED
    BY <2>2, <2>3
<1> QED
  BY <1>1, LeasesHold, IdsApart, PTL

-----------------------------------------------------------------------------
(* Room for what was leased.                                               *)

(* The refill of kind k is on pod p's connection, or its reply is on the   *)
(* way back.                                                               *)
IsRefill(k, c) == c.op = (IF k = "SEID" THEN "INCRBY" ELSE "REFILL")

AskedByCommand(p, k) == \E i \in DOMAIN conn[p] : IsRefill(k, conn[p][i])

AskedByReply(p, k) == \E n \in DOMAIN replies[p] : replies[p][n].kind = k

(* One refill of a kind at most is outstanding.                            *)
AskedOnce(p, k) ==
  /\ \A i, j \in DOMAIN conn[p] : IsRefill(k, conn[p][i]) /\ IsRefill(k, conn[p][j]) => i = j
  /\ \A m, n \in DOMAIN replies[p] : replies[p][m].kind = k /\ replies[p][n].kind = k => m = n
  /\ ~(AskedByCommand(p, k) /\ AskedByReply(p, k))

(* While it is, and from the moment an lcore decides to ask, the ring is   *)
(* below the watermark; the in-flight flag tells the two apart.            *)
RoomFor(p, k) ==
  /\ AskedByCommand(p, k) \/ AskedByReply(p, k) =>
       inflight[k][p] /\ Len(ring[k][p]) < V_ID_WATERMARK
  /\ \A l \in Lcore :
       pc[<<p, l>>] = <<"claim", k>> => ~inflight[k][p] /\ Len(ring[k][p]) < V_ID_WATERMARK

(* What a pod that is down or starting does not have, and the size of      *)
(* replies.                                                                *)
PodInv(p) ==
  /\ \A l \in Lcore : pc[<<p, l>>] # Resting => phase[p] = "up"
  /\ phase[p] = "down" => conn[p] = << >> /\ replies[p] = << >> /\ \A k \in Kind : ring[k][p] = << >>
  /\ \A n \in DOMAIN replies[p] : Len(replies[p][n].ids) <= V_ID_BLK_SIZE

RoomAt(p) == PodInv(p) /\ \A k \in Kind : AskedOnce(p, k) /\ RoomFor(p, k)

RoomInv == IdTypeOK /\ \A p \in Pod : RoomAt(p)

(* Every leased identifier that can be encoded is somewhere.               *)
Accounted(k) == \A d \in Nat : d < Leased(k) /\ Encoded(k, d) # Err => Somewhere(k, d)

AccountInv == \A k \in Kind : Unwrapped(k) => Accounted(k)

(* A step does not concern pod q.                                          *)
Same(q) ==
  /\ conn'[q] = conn[q] /\ replies'[q] = replies[q] /\ phase'[q] = phase[q]
  /\ \A k \in Kind : ring'[k][q] = ring[k][q] /\ inflight'[k][q] = inflight[k][q]
  /\ \A l \in Lcore : pc'[<<q, l>>] = pc[<<q, l>>]

(* The room of a pod depends on its own state only.                        *)
LEMMA SameRoom ==
  ASSUME NEW q \in Pod, Same(q), RoomAt(q)
  PROVE  RoomAt(q)'
<1>1. PodInv(q)'
  BY DEF Same, RoomAt, PodInv
<1>2. ASSUME NEW k \in Kind PROVE AskedOnce(q, k)' /\ RoomFor(q, k)'
  <2>1. AskedByCommand(q, k)' <=> AskedByCommand(q, k)
    BY DEF Same, AskedByCommand, IsRefill
  <2>2. AskedByReply(q, k)' <=> AskedByReply(q, k)
    BY DEF Same, AskedByReply
  <2>3. AskedOnce(q, k) /\ RoomFor(q, k)
    BY DEF RoomAt
  <2>4. AskedOnce(q, k)'
    BY <2>1, <2>2, <2>3 DEF Same, AskedOnce, IsRefill
  <2>5. RoomFor(q, k)'
    BY <2>1, <2>2, <2>3 DEF Same, RoomFor
  <2> QED
    BY <2>4, <2>5
<1> QED
  BY <1>1, <1>2 DEF RoomAt

(* Commands and replies that are only dropped.                             *)
LEMMA DropAsked ==
  ASSUME IdTypeOK', NEW p \in Pod, NEW k \in Kind, AskedOnce(p, k),
         Shifted(conn[p], conn'[p]), Shifted(replies[p], replies'[p])
  PROVE  /\ AskedOnce(p, k)'
         /\ AskedByCommand(p, k)' => AskedByCommand(p, k)
         /\ AskedByReply(p, k)' => AskedByReply(p, k)
<1>1. PICK s \in Nat : \A i \in DOMAIN conn'[p] : i + s \in DOMAIN conn[p] /\ conn'[p][i] = conn[p][i + s]
  BY DEF Shifted
<1>2. PICK t \in Nat : \A i \in DOMAIN replies'[p] : i + t \in DOMAIN replies[p] /\ replies'[p][i] = replies[p][i + t]
  BY DEF Shifted
<1>3. AskedByCommand(p, k)' => AskedByCommand(p, k)
  BY <1>1 DEF AskedByCommand, IsRefill
<1>4. AskedByReply(p, k)' => AskedByReply(p, k)
  BY <1>2 DEF AskedByReply
<1>5. \A i, j \in DOMAIN conn'[p] : IsRefill(k, conn'[p][i]) /\ IsRefill(k, conn'[p][j]) => i = j
  <2>1. TAKE i, j \in DOMAIN conn'[p]
  <2>2. i + s \in DOMAIN conn[p] /\ j + s \in DOMAIN conn[p] /\ conn'[p][i] = conn[p][i + s] /\ conn'[p][j] = conn[p][j + s]
    BY <1>1
  <2>3. IsRefill(k, conn[p][i + s]) /\ IsRefill(k, conn[p][j + s]) => i + s = j + s
    BY <2>2 DEF AskedOnce
  <2>4. conn'[p] \in Seq(Command)
    BY DEF IdTypeOK
  <2>5. i \in Nat /\ j \in Nat
    BY <2>4
  <2> QED
    BY <2>2, <2>3, <2>5
<1>6. \A i, j \in DOMAIN replies'[p] : replies'[p][i].kind = k /\ replies'[p][j].kind = k => i = j
  <2>1. TAKE i, j \in DOMAIN replies'[p]
  <2>2. i + t \in DOMAIN replies[p] /\ j + t \in DOMAIN replies[p]
        /\ replies'[p][i] = replies[p][i + t] /\ replies'[p][j] = replies[p][j + t]
    BY <1>2
  <2>3. replies[p][i + t].kind = k /\ replies[p][j + t].kind = k => i + t = j + t
    BY <2>2 DEF AskedOnce
  <2>4. replies'[p] \in Seq(Refill)
    BY DEF IdTypeOK
  <2>5. i \in Nat /\ j \in Nat
    BY <2>4
  <2> QED
    BY <2>2, <2>3, <2>5
<1> QED
  BY <1>3, <1>4, <1>5, <1>6 DEF AskedOnce, IsRefill

(* What a refill puts on a connection: one command of its kind at most,    *)
(* none of the other kind, and Refilling says which.                       *)
LEMMA SendsOnce ==
  ASSUME NEW p \in Pod, NEW k \in Kind, NEW s \in RefillSends(p, k)
  PROVE  /\ s \in Seq(Command)
         /\ \A i, j \in DOMAIN s : IsRefill(k, s[i]) /\ IsRefill(k, s[j]) => i = j
         /\ \A j \in Kind : j # k => \A i \in DOMAIN s : ~IsRefill(j, s[i])
         /\ Refilling(s) <=> \E i \in DOMAIN s : IsRefill(k, s[i])
<1>1. s \in Seq(Command)
  BY SendsType
<1>2. k = "SEID" \/ k = "TEID"
  BY DEF Kind
<1>3. CASE s = << >>
  BY <1>1, <1>3 DEF Refilling
<1>4. ASSUME NEW o \in {"INCRBY", "REFILL", "SETNX"}, s = << Cmd(o, 0) >>,
             k = "SEID" => o = "INCRBY", k = "TEID" => o # "INCRBY"
      PROVE  /\ \A i, j \in DOMAIN s : IsRefill(k, s[i]) /\ IsRefill(k, s[j]) => i = j
             /\ \A j \in Kind : j # k => \A i \in DOMAIN s : ~IsRefill(j, s[i])
             /\ Refilling(s) <=> \E i \in DOMAIN s : IsRefill(k, s[i])
  <2>1. DOMAIN s = {1} /\ s[1] = Cmd(o, 0) /\ s[1].op = o
    BY <1>4 DEF Cmd
  <2> QED
    BY <1>2, <1>4, <2>1 DEF IsRefill, Refilling, Kind
<1>5. CASE k = "TEID" /\ s = << Cmd("SETNX", 0), Cmd("REFILL", 0) >>
  <2>1. DOMAIN s = {1, 2} /\ s[1] = Cmd("SETNX", 0) /\ s[2] = Cmd("REFILL", 0)
        /\ s[1].op = "SETNX" /\ s[2].op = "REFILL"
    BY <1>5 DEF Cmd
  <2> QED
    BY <1>1, <1>5, <2>1 DEF IsRefill, Refilling, Kind
<1> QED
  BY <1>1, <1>2, <1>3, <1>4, <1>5, Sends

(* Commands are appended.                                                  *)
LEMMA SendAsked ==
  ASSUME NEW p \in Pod, NEW k \in Kind, AskedOnce(p, k), conn[p] \in Seq(Command),
         NEW s \in Seq(Command), conn'[p] = conn[p] \o s, replies'[p] = replies[p],
         \A i, j \in DOMAIN s : IsRefill(k, s[i]) /\ IsRefill(k, s[j]) => i = j,
         (\E i \in DOMAIN s : IsRefill(k, s[i])) => ~AskedByCommand(p, k) /\ ~AskedByReply(p, k)
  PROVE  /\ AskedOnce(p, k)'
         /\ AskedByCommand(p, k)' => AskedByCommand(p, k) \/ \E i \in DOMAIN s : IsRefill(k, s[i])
         /\ AskedByReply(p, k)' => AskedByReply(p, k)
<1>a. Len(conn[p]) \in Nat /\ DOMAIN conn[p] = 1 .. Len(conn[p])
  BY LenProperties
<1>b. Len(s) \in Nat /\ DOMAIN s = 1 .. Len(s)
  BY LenProperties
<1>1. PICK a \in Nat : a = Len(conn[p]) /\ DOMAIN conn[p] = 1 .. a
  BY <1>a
<1>2. PICK b \in Nat : b = Len(s) /\ DOMAIN s = 1 .. b
  BY <1>b
<1>3. DOMAIN conn'[p] = 1 .. a + b
  BY <1>1, <1>2
<1>4. \A i \in DOMAIN conn'[p] : \/ i \in DOMAIN conn[p] /\ conn'[p][i] = conn[p][i]
                                 \/ \E j \in DOMAIN s : i = a + j /\ conn'[p][i] = s[j]
  <2>1. TAKE i \in DOMAIN conn'[p]
  <2>2. CASE i <= a
    BY <1>1, <1>3, <2>2
  <2>3. CASE ~(i <= a)
    <3>1. i - a \in DOMAIN s /\ i = a + (i - a) /\ conn'[p][i] = s[i - a]
      BY <1>1, <1>2, <1>3, <2>3
    <3> QED
      BY <3>1
  <2> QED
    BY <2>2, <2>3
<1>5. AskedByReply(p, k)' <=> AskedByReply(p, k)
  BY DEF AskedByReply
<1>6. AskedByCommand(p, k)' => AskedByCommand(p, k) \/ \E i \in DOMAIN s : IsRefill(k, s[i])
  BY <1>4 DEF AskedByCommand, IsRefill
<1>7. \A i, j \in DOMAIN conn'[p] : IsRefill(k, conn'[p][i]) /\ IsRefill(k, conn'[p][j]) => i = j
  <2>1. TAKE i, j \in DOMAIN conn'[p]
  <2>2. HAVE IsRefill(k, conn'[p][i]) /\ IsRefill(k, conn'[p][j])
  <2>3. CASE i \in DOMAIN conn[p] /\ conn'[p][i] = conn[p][i] /\ j \in DOMAIN conn[p] /\ conn'[p][j] = conn[p][j]
    BY <2>2, <2>3 DEF AskedOnce
  <2>4. CASE (\E m \in DOMAIN s : conn'[p][i] = s[m]) /\ j \in DOMAIN conn[p] /\ conn'[p][j] = conn[p][j]
    BY <2>2, <2>4 DEF AskedByCommand
  <2>5. CASE (\E m \in DOMAIN s : conn'[p][j] = s[m]) /\ i \in DOMAIN conn[p] /\ conn'[p][i] = conn[p][i]
    BY <2>2, <2>5 DEF AskedByCommand
  <2>6. CASE (\E m \in DOMAIN s : i = a + m /\ conn'[p][i] = s[m]) /\ (\E n \in DOMAIN s : j = a + n /\ conn'[p][j] = s[n])
    BY <2>2, <2>6
  <2> QED
    BY <1>4, <2>3, <2>4, <2>5, <2>6
<1> QED
  BY <1>5, <1>6, <1>7 DEF AskedOnce, IsRefill

(* A step of pod p that leaves the others alone.                           *)
LEMMA RoomStep ==
  ASSUME RoomInv, IdTypeOK', NEW p \in Pod, \A q \in Pod : q # p => Same(q), RoomAt(p)'
  PROVE  RoomInv'
<1>1. ASSUME NEW q \in Pod PROVE RoomAt(q)'
  <2>1. CASE q = p
    BY <2>1
  <2>2. CASE q # p
    BY <2>2, SameRoom DEF RoomInv
  <2> QED
    BY <2>1, <2>2
<1> QED
  BY <1>1 DEF RoomInv

(* v_id_alloc_init() asks for both kinds on an empty connection.           *)
LEMMA InitRoom ==
  ASSUME RoomInv, IdTypeOK', NEW p \in Pod, v_id_alloc_init(p)
  PROVE  RoomInv'
<1>1. IdTypeOK /\ RoomAt(p) /\ PodInv(p) /\ "SEID" \in Kind /\ "TEID" \in Kind /\ "SEID" # "TEID"
  BY DEF RoomInv, RoomAt, Kind
<1>2. PICK s \in RefillSends(p, "SEID"), t \in RefillSends(p, "TEID") :
        /\ conn' = [conn EXCEPT ![p] = @ \o s \o t]
        /\ inflight' = [inflight EXCEPT !["SEID"][p] = Refilling(s), !["TEID"][p] = Refilling(t)]
  BY DEF v_id_alloc_init
<1>3. phase[p] = "down" /\ phase' = [phase EXCEPT ![p] = "refill"] /\ UNCHANGED <<ring, pc, replies>>
  BY DEF v_id_alloc_init
<1>4. conn[p] = << >> /\ replies[p] = << >> /\ (\A k \in Kind : ring[k][p] = << >>) /\ \A l \in Lcore : pc[<<p, l>>] = Resting
  BY <1>1, <1>3 DEF PodInv
<1>5. /\ s \in Seq(Command) /\ t \in Seq(Command)
      /\ \A i, j \in DOMAIN s : IsRefill("SEID", s[i]) /\ IsRefill("SEID", s[j]) => i = j
      /\ \A i \in DOMAIN s : ~IsRefill("TEID", s[i])
      /\ Refilling(s) <=> \E i \in DOMAIN s : IsRefill("SEID", s[i])
      /\ \A i, j \in DOMAIN t : IsRefill("TEID", t[i]) /\ IsRefill("TEID", t[j]) => i = j
      /\ \A i \in DOMAIN t : ~IsRefill("SEID", t[i])
      /\ Refilling(t) <=> \E i \in DOMAIN t : IsRefill("TEID", t[i])
  BY <1>1, SendsOnce
<1>6. conn'[p] = s \o t
  <2>1. conn'[p] = (conn[p] \o s) \o t
    BY <1>1, <1>2 DEF IdTypeOK
  <2>2. << >> \o s = s
    BY <1>5, ConcatEmptySeq
  <2> QED
    BY <1>4, <2>1, <2>2
<1>7. /\ inflight'["SEID"][p] = Refilling(s) /\ inflight'["TEID"][p] = Refilling(t)
      /\ \A k \in Kind, q \in Pod : q # p => inflight'[k][q] = inflight[k][q]
  BY <1>1, <1>2 DEF IdTypeOK, Kind
<1>8. \A q \in Pod : q # p => Same(q)
  <2>1. \A q \in Pod : q # p => conn'[q] = conn[q] /\ phase'[q] = phase[q]
    BY <1>1, <1>2, <1>3 DEF IdTypeOK
  <2> QED
    BY <1>3, <1>7, <2>1 DEF Same
<1>9. Len(s) \in Nat /\ Len(t) \in Nat /\ DOMAIN s = 1 .. Len(s) /\ DOMAIN t = 1 .. Len(t)
  BY <1>5, LenProperties
<1>10. PICK a \in Nat, b \in Nat : a = Len(s) /\ b = Len(t) /\ DOMAIN s = 1 .. a /\ DOMAIN t = 1 .. b
  BY <1>9
<1>11. DOMAIN conn'[p] = 1 .. a + b
  BY <1>5, <1>6, <1>10
<1>12. \A i \in DOMAIN conn'[p] : \/ i \in DOMAIN s /\ conn'[p][i] = s[i]
                                  \/ \E j \in DOMAIN t : i = a + j /\ conn'[p][i] = t[j]
  <2>1. TAKE i \in DOMAIN conn'[p]
  <2>2. CASE i <= a
    BY <1>5, <1>6, <1>10, <1>11, <2>2
  <2>3. CASE ~(i <= a)
    <3>1. i - a \in DOMAIN t /\ i = a + (i - a) /\ i \in 1 .. a + b
      BY <1>10, <1>11, <2>3
    <3>2. (s \o t)[i] = IF i <= a THEN s[i] ELSE t[i - a]
      BY <1>5, <1>10, <3>1, ConcatProperties
    <3>3. conn'[p][i] = t[i - a]
      BY <1>6, <2>3, <3>2
    <3> QED
      BY <3>1, <3>3
  <2> QED
    BY <2>2, <2>3
<1>13. \A k \in Kind : ~AskedByReply(p, k)' /\ \A m, n \in DOMAIN replies'[p] : m = n
  BY <1>3, <1>4 DEF AskedByReply
<1>14. AskedByCommand(p, "SEID")' => Refilling(s)
  BY <1>5, <1>12 DEF AskedByCommand, IsRefill
<1>15. AskedByCommand(p, "TEID")' => Refilling(t)
  BY <1>5, <1>12 DEF AskedByCommand, IsRefill
<1>16. \A i, j \in DOMAIN conn'[p] : IsRefill("SEID", conn'[p][i]) /\ IsRefill("SEID", conn'[p][j]) => i = j
  BY <1>5, <1>12
<1>17. \A i, j \in DOMAIN conn'[p] : IsRefill("TEID", conn'[p][i]) /\ IsRefill("TEID", conn'[p][j]) => i = j
  BY <1>5, <1>12
<1>18. AskedOnce(p, "SEID")' /\ AskedOnce(p, "TEID")'
  BY <1>1, <1>13, <1>16, <1>17 DEF AskedOnce, IsRefill
<1>19. \A k \in Kind, l \in Lcore : Len(ring'[k][p]) = 0 /\ 0 < V_ID_WATERMARK /\ pc'[<<p, l>>] # <<"claim", k>>
  <2>1. \A k : Resting # <<"claim", k>>
    BY DEF Resting
  <2> QED
    BY <1>3, <1>4, <2>1, IdSizes
<1>20. ASSUME NEW k \in Kind PROVE RoomFor(p, k)'
  <2>1. AskedByCommand(p, k)' \/ AskedByReply(p, k)' => inflight'[k][p]
    BY <1>7, <1>13, <1>14, <1>15 DEF Kind
  <2>2. Len(ring'[k][p]) = 0
    BY <1>3, <1>4
  <2> QED
    BY <1>19, <2>1, <2>2, IdSizes DEF RoomFor
<1>21. PodInv(p)'
  BY <1>1, <1>3, <1>4 DEF PodInv, IdTypeOK
<1>22. RoomAt(p)'
  BY <1>18, <1>20, <1>21 DEF RoomAt, Kind
<1> QED
  BY <1>8, <1>22, RoomStep

(* The pod becomes ready.                                                  *)
LEMMA ReadyRoom ==
  ASSUME RoomInv, IdTypeOK', NEW p \in Pod, v_id_alloc_ready(p)
  PROVE  RoomInv'
<1>1. IdTypeOK /\ RoomAt(p) /\ PodInv(p)
  BY DEF RoomInv, RoomAt
<1>2. phase' = [phase EXCEPT ![p] = "up"] /\ UNCHANGED <<ring, inflight, pc, conn, replies>>
  BY DEF v_id_alloc_ready
<1>3. phase'[p] = "up" /\ \A q \in Pod : q # p => Same(q)
  BY <1>1, <1>2 DEF IdTypeOK, Same
<1>4. PodInv(p)'
  BY <1>1, <1>2, <1>3 DEF PodInv
<1>5. ASSUME NEW k \in Kind PROVE AskedOnce(p, k)' /\ RoomFor(p, k)'
  BY <1>1, <1>2 DEF RoomAt, AskedOnce, RoomFor, AskedByCommand, AskedByReply, IsRefill
<1>6. RoomAt(p)'
  BY <1>4, <1>5 DEF RoomAt
<1> QED
  BY <1>3, <1>6, RoomStep

(* The pod exits, and everything it had is gone.                           *)
LEMMA ExitRoom ==
  ASSUME RoomInv, IdTypeOK', NEW p \in Pod, Exit(p)
  PROVE  RoomInv'
<1>1. IdTypeOK
  BY DEF RoomInv
<1>2. /\ phase' = [phase EXCEPT ![p] = "down"]
      /\ ring' = [k \in Kind |-> [ring[k] EXCEPT ![p] = << >>]]
      /\ inflight' = [k \in Kind |-> [inflight[k] EXCEPT ![p] = FALSE]]
      /\ pc' = [x \in Pod \X Lcore |-> IF x[1] = p THEN Resting ELSE pc[x]]
      /\ conn' = [conn EXCEPT ![p] = << >>]
      /\ replies' = [replies EXCEPT ![p] = << >>]
  BY DEF Exit
<1>3. \A q \in Pod : q # p => Same(q)
  <2>1. TAKE q \in Pod
  <2>2. HAVE q # p
  <2>3. conn'[q] = conn[q] /\ replies'[q] = replies[q] /\ phase'[q] = phase[q]
    BY <1>1, <1>2, <2>2 DEF IdTypeOK
  <2>4. \A k \in Kind : ring'[k][q] = ring[k][q] /\ inflight'[k][q] = inflight[k][q]
    BY <1>1, <1>2, <2>2 DEF IdTypeOK
  <2>5. \A l \in Lcore : pc'[<<q, l>>] = pc[<<q, l>>]
    BY <1>1, <1>2, <2>2 DEF IdTypeOK
  <2> QED
    BY <2>3, <2>4, <2>5 DEF Same
<1>4. conn'[p] = << >> /\ replies'[p] = << >> /\ \A k \in Kind : ring'[k][p] = << >>
  BY <1>1, <1>2 DEF IdTypeOK
<1>5. \A l \in Lcore : pc'[<<p, l>>] = Resting
  BY <1>2
<1>6. \A k : Resting # <<"claim", k>>
  BY DEF Resting
<1>7. PodInv(p)'
  BY <1>4, <1>5 DEF PodInv
<1>8. ASSUME NEW k \in Kind PROVE AskedOnce(p, k)' /\ RoomFor(p, k)'
  BY <1>4, <1>5, <1>6 DEF AskedOnce, RoomFor, AskedByCommand, AskedByReply
<1>9. RoomAt(p)'
  BY <1>7, <1>8 DEF RoomAt
<1> QED
  BY <1>3, <1>9, RoomStep

(* An allocation begins: an lcore that will ask has seen the ring below    *)
(* the watermark and the flag clear.                                       *)
LEMMA CheckRoom ==
  ASSUME RoomInv, IdTypeOK', NEW p \in Pod, NEW l \in Lcore, NEW k \in Kind, AllocCheck(p, l, k)
  PROVE  RoomInv'
<1>1. IdTypeOK /\ RoomAt(p) /\ PodInv(p)
  BY DEF RoomInv, RoomAt
<1>2. /\ phase[p] = "up" /\ UNCHANGED <<phase, ring, inflight, conn, replies>>
      /\ pc' = [pc EXCEPT ![<<p, l>>] = << IF WantsRefill(p, k) THEN "claim" ELSE "take", k >>]
  BY DEF AllocCheck
<1>3. /\ pc'[<<p, l>>] = << IF WantsRefill(p, k) THEN "claim" ELSE "take", k >>
      /\ \A m \in Lcore : m # l => pc'[<<p, m>>] = pc[<<p, m>>]
      /\ \A q \in Pod, m \in Lcore : q # p => pc'[<<q, m>>] = pc[<<q, m>>]
  BY <1>1, <1>2 DEF IdTypeOK
<1>4. \A q \in Pod : q # p => Same(q)
  BY <1>2, <1>3 DEF Same
<1>5. PodInv(p)'
  BY <1>1, <1>2 DEF PodInv
<1>6. ASSUME NEW j \in Kind PROVE AskedOnce(p, j)' /\ RoomFor(p, j)'
  <2>1. AskedOnce(p, j) /\ RoomFor(p, j)
    BY <1>1 DEF RoomAt
  <2>2. /\ AskedByCommand(p, j)' <=> AskedByCommand(p, j)
        /\ AskedByReply(p, j)' <=> AskedByReply(p, j)
    BY <1>2 DEF AskedByCommand, AskedByReply, IsRefill
  <2>3. AskedOnce(p, j)'
    BY <1>2, <2>1, <2>2 DEF AskedOnce, IsRefill
  <2>4. pc'[<<p, l>>] = <<"claim", j>> => ~inflight[j][p] /\ Len(ring[j][p]) < V_ID_WATERMARK
    BY <1>3 DEF WantsRefill
  <2> QED
    BY <1>2, <1>3, <2>1, <2>2, <2>3, <2>4 DEF RoomFor
<1>7. RoomAt(p)'
  BY <1>5, <1>6 DEF RoomAt
<1> QED
  BY <1>4, <1>7, RoomStep

(* One lcore of each pod allocates.                                        *)
OneLcore == \A l, m \in Lcore : l = m

(* It asks.                                                                *)
LEMMA ClaimRoom ==
  ASSUME RoomInv, IdTypeOK', OneLcore, NEW p \in Pod, NEW l \in Lcore, NEW k \in Kind, AllocClaim(p, l, k)
  PROVE  RoomInv'
<1>1. IdTypeOK /\ RoomAt(p) /\ PodInv(p) /\ conn[p] \in Seq(Command)
  BY DEF RoomInv, RoomAt, IdTypeOK
<1>2. /\ pc[<<p, l>>] = <<"claim", k>> /\ UNCHANGED <<phase, ring, replies>>
      /\ pc' = [pc EXCEPT ![<<p, l>>] = <<"take", k>>]
  BY DEF AllocClaim
<1>3. PICK s \in RefillSends(p, k) : /\ conn' = [conn EXCEPT ![p] = @ \o s]
                                     /\ inflight' = [inflight EXCEPT ![k][p] = Refilling(s)]
  BY DEF AllocClaim
<1>4. /\ s \in Seq(Command)
      /\ \A i, j \in DOMAIN s : IsRefill(k, s[i]) /\ IsRefill(k, s[j]) => i = j
      /\ \A j \in Kind : j # k => \A i \in DOMAIN s : ~IsRefill(j, s[i])
      /\ Refilling(s) <=> \E i \in DOMAIN s : IsRefill(k, s[i])
  BY SendsOnce
<1>5. /\ conn'[p] = conn[p] \o s /\ replies'[p] = replies[p]
      /\ inflight'[k][p] = Refilling(s) /\ \A j \in Kind : j # k => inflight'[j][p] = inflight[j][p]
  BY <1>1, <1>2, <1>3 DEF IdTypeOK
<1>6. \A m \in Lcore : pc'[<<p, m>>] = <<"take", k>>
  BY <1>1, <1>2 DEF IdTypeOK, OneLcore
<1>7. \A q \in Pod : q # p => Same(q)
  <2>1. TAKE q \in Pod
  <2>2. HAVE q # p
  <2>3. conn'[q] = conn[q] /\ \A j \in Kind : inflight'[j][q] = inflight[j][q]
    BY <1>1, <1>3, <2>2 DEF IdTypeOK
  <2>4. \A m \in Lcore : pc'[<<q, m>>] = pc[<<q, m>>]
    BY <1>1, <1>2, <2>2 DEF IdTypeOK
  <2> QED
    BY <1>2, <2>3, <2>4 DEF Same
<1>8. Resting # <<"claim", k>> /\ \A j : <<"take", k>> # <<"claim", j>>
  BY DEF Resting
<1>9. phase[p] = "up"
  BY <1>1, <1>2, <1>8 DEF PodInv
<1>10. PodInv(p)'
  BY <1>1, <1>2, <1>9 DEF PodInv
<1>11. AskedOnce(p, k) /\ ~AskedByCommand(p, k) /\ ~AskedByReply(p, k) /\ Len(ring[k][p]) < V_ID_WATERMARK
  BY <1>1, <1>2 DEF RoomAt, RoomFor
<1>12. AskedOnce(p, k)' /\ (AskedByCommand(p, k)' => Refilling(s)) /\ ~AskedByReply(p, k)'
  BY <1>1, <1>4, <1>5, <1>11, SendAsked
<1>13. RoomFor(p, k)'
  BY <1>2, <1>5, <1>6, <1>8, <1>11, <1>12 DEF RoomFor
<1>14. ASSUME NEW j \in Kind, j # k PROVE AskedOnce(p, j)' /\ RoomFor(p, j)'
  <2>1. AskedOnce(p, j) /\ RoomFor(p, j) /\ \A i \in DOMAIN s : ~IsRefill(j, s[i])
    BY <1>1, <1>4, <1>14 DEF RoomAt
  <2>2. AskedOnce(p, j)' /\ (AskedByCommand(p, j)' => AskedByCommand(p, j)) /\ (AskedByReply(p, j)' => AskedByReply(p, j))
    BY <1>1, <1>4, <1>5, <2>1, SendAsked
  <2> QED
    BY <1>2, <1>5, <1>6, <1>8, <1>14, <2>1, <2>2 DEF RoomFor
<1>15. RoomAt(p)'
  BY <1>10, <1>12, <1>13, <1>14 DEF RoomAt
<1> QED
  BY <1>7, <1>15, RoomStep

(* The dequeue makes room.                                                 *)
LEMMA TakeRoom ==
  ASSUME RoomInv, IdTypeOK', NEW p \in Pod, NEW l \in Lcore, NEW k \in Kind, AllocTake(p, l, k)
  PROVE  RoomInv'
<1>1. IdTypeOK /\ RoomAt(p) /\ PodInv(p)
  BY DEF RoomInv, RoomAt
<1>2. /\ pc[<<p, l>>] = <<"take", k>> /\ UNCHANGED <<phase, inflight, conn, replies>>
      /\ pc' = [pc EXCEPT ![<<p, l>>] = Resting]
  BY DEF AllocTake
<1>3. /\ \A q \in Pod, j \in Kind : q # p => ring'[j][q] = ring[j][q]
      /\ \A j \in Kind : Len(ring'[j][p]) \in Nat /\ Len(ring[j][p]) \in Nat /\ Len(ring'[j][p]) <= Len(ring[j][p])
  <2>1. CASE ring[k][p] = << >>
    <3>1. UNCHANGED ring
      BY <2>1 DEF AllocTake
    <3>2. \A j \in Kind : ring[j][p] \in Seq(Word)
      BY <1>1 DEF IdTypeOK
    <3>3. \A j \in Kind : Len(ring[j][p]) \in Nat
      BY <3>2, LenProperties
    <3> QED
      BY <3>1, <3>3
  <2>2. CASE ring[k][p] # << >>
    <3>1. /\ ring' = [ring EXCEPT ![k][p] = Tail(ring[k][p])] /\ Tail(ring[k][p]) \in Seq(Nat)
          /\ Len(ring[k][p]) \in Nat /\ Len(ring[k][p]) <= RingCap /\ RingCap \in Nat
          /\ Len(Tail(ring[k][p])) = Len(ring[k][p]) - 1
      BY <1>1, <2>2, TakeFacts, IdSizes
    <3>2. Len(Tail(ring[k][p])) \in Nat /\ Len(Tail(ring[k][p])) <= Len(ring[k][p]) /\ Len(Tail(ring[k][p])) <= RingCap
      <4>1. Len(Tail(ring[k][p])) \in Nat
        BY <3>1, LenProperties
      <4> QED
        BY <3>1, <4>1
    <3>3. ring'[k][p] = Tail(ring[k][p]) /\ \A j \in Kind, q \in Pod : j # k \/ q # p => ring'[j][q] = ring[j][q]
      <4>1. PICK t \in Seq(Word) : t = Tail(ring[k][p]) /\ Len(t) <= RingCap
        BY <3>1, <3>2 DEF Word
      <4>2. ring' = [ring EXCEPT ![k][p] = t]
        BY <3>1, <4>1, Zenon
      <4>3. ring'[k][p] = t /\ \A j \in Kind, q \in Pod : j # k \/ q # p => ring'[j][q] = ring[j][q]
        BY <1>1, <4>1, <4>2, RingType
      <4> QED
        BY <4>1, <4>3, Zenon
    <3>4. \A j \in Kind : ring[j][p] \in Seq(Word)
      BY <1>1 DEF IdTypeOK
    <3>5. \A j \in Kind : Len(ring[j][p]) \in Nat
      BY <3>4, LenProperties
    <3>6. ASSUME NEW j \in Kind
          PROVE  Len(ring'[j][p]) \in Nat /\ Len(ring'[j][p]) <= Len(ring[j][p])
      <4>1. CASE j = k
        BY <3>2, <3>3, <4>1
      <4>2. CASE j # k
        BY <3>3, <3>5, <4>2
      <4> QED
        BY <4>1, <4>2
    <3> QED
      BY <3>3, <3>5, <3>6
  <2> QED
    BY <2>1, <2>2
<1>4. /\ pc'[<<p, l>>] = Resting /\ \A m \in Lcore : m # l => pc'[<<p, m>>] = pc[<<p, m>>]
      /\ \A q \in Pod, m \in Lcore : q # p => pc'[<<q, m>>] = pc[<<q, m>>]
  BY <1>1, <1>2 DEF IdTypeOK
<1>5. \A q \in Pod : q # p => Same(q)
  BY <1>2, <1>3, <1>4 DEF Same
<1>6. \A j : Resting # <<"claim", j>> /\ Resting # <<"take", j>>
  BY DEF Resting
<1>7. phase[p] = "up"
  BY <1>1, <1>2, <1>6 DEF PodInv
<1>8. PodInv(p)'
  BY <1>1, <1>2, <1>7 DEF PodInv
<1>9. ASSUME NEW j \in Kind PROVE AskedOnce(p, j)' /\ RoomFor(p, j)'
  <2>1. AskedOnce(p, j) /\ RoomFor(p, j)
    BY <1>1 DEF RoomAt
  <2>2. /\ AskedByCommand(p, j)' <=> AskedByCommand(p, j)
        /\ AskedByReply(p, j)' <=> AskedByReply(p, j)
    BY <1>2 DEF AskedByCommand, AskedByReply, IsRefill
  <2>3. AskedOnce(p, j)'
    BY <1>2, <2>1, <2>2 DEF AskedOnce, IsRefill
  <2>4. Len(ring[j][p]) < V_ID_WATERMARK => Len(ring'[j][p]) < V_ID_WATERMARK
    BY <1>3, IdSizes
  <2> QED
    BY <1>2, <1>4, <1>6, <2>1, <2>2, <2>3, <2>4 DEF RoomFor
<1>10. RoomAt(p)'
  BY <1>8, <1>9 DEF RoomAt
<1> QED
  BY <1>5, <1>10, RoomStep

(* v_teid_free() sends no refill.                                          *)
LEMMA FreeRoom ==
  ASSUME RoomInv, IdTypeOK', NEW p \in Pod, NEW teid \in held["TEID"], v_teid_free(p, teid)
  PROVE  RoomInv'
<1>1. IdTypeOK /\ RoomAt(p) /\ PodInv(p) /\ conn[p] \in Seq(Command)
  BY DEF RoomInv, RoomAt, IdTypeOK
<1>2. phase[p] = "up" /\ UNCHANGED <<phase, ring, inflight, pc, replies>>
  BY DEF v_teid_free
<1>3. PICK c \in Seq(Command) : /\ conn' = [conn EXCEPT ![p] = @ \o c]
                                /\ c = << >> \/ c = << Cmd("RPUSH", v_teid_local(teid)) >>
  BY <1>1, FreeSends
<1>4. \A j \in Kind : \A i \in DOMAIN c : ~IsRefill(j, c[i])
  <2>1. CASE c = << >>
    BY <2>1
  <2>2. CASE c = << Cmd("RPUSH", v_teid_local(teid)) >>
    <3>1. DOMAIN c = {1} /\ c[1].op = "RPUSH"
      BY <2>2 DEF Cmd
    <3> QED
      BY <3>1 DEF IsRefill
  <2> QED
    BY <1>3, <2>1, <2>2
<1>5. conn'[p] = conn[p] \o c /\ replies'[p] = replies[p] /\ \A q \in Pod : q # p => conn'[q] = conn[q]
  BY <1>1, <1>2, <1>3 DEF IdTypeOK
<1>6. \A q \in Pod : q # p => Same(q)
  BY <1>2, <1>5 DEF Same
<1>7. PodInv(p)'
  BY <1>1, <1>2 DEF PodInv
<1>8. ASSUME NEW j \in Kind PROVE AskedOnce(p, j)' /\ RoomFor(p, j)'
  <2>1. AskedOnce(p, j) /\ RoomFor(p, j)
    BY <1>1 DEF RoomAt
  <2>2. AskedOnce(p, j)' /\ (AskedByCommand(p, j)' => AskedByCommand(p, j)) /\ (AskedByReply(p, j)' => AskedByReply(p, j))
    BY <1>1, <1>4, <1>5, <2>1, SendAsked
  <2> QED
    BY <1>2, <2>1, <2>2 DEF RoomFor
<1>9. RoomAt(p)'
  BY <1>7, <1>8 DEF RoomAt
<1> QED
  BY <1>6, <1>9, RoomStep

(* A broken connection clears the flag of what it drops.                   *)
LEMMA DisconnectRoom ==
  ASSUME RoomInv, IdTypeOK', NEW p \in Pod, Disconnect(p)
  PROVE  RoomInv'
<1>1. IdTypeOK /\ RoomAt(p) /\ PodInv(p)
  BY DEF RoomInv, RoomAt
<1>2. /\ UNCHANGED <<phase, ring, pc>>
      /\ inflight' = [k \in Kind |-> [inflight[k] EXCEPT ![p] = @ /\ k \notin Outstanding(p)]]
      /\ conn' = [conn EXCEPT ![p] = << >>] /\ replies' = [replies EXCEPT ![p] = << >>]
  BY DEF Disconnect
<1>3. /\ conn'[p] = << >> /\ replies'[p] = << >>
      /\ \A q \in Pod : q # p => conn'[q] = conn[q] /\ replies'[q] = replies[q]
      /\ \A q \in Pod, k \in Kind : q # p => inflight'[k][q] = inflight[k][q]
      /\ \A k \in Kind : inflight'[k][p] = (inflight[k][p] /\ k \notin Outstanding(p))
  BY <1>1, <1>2 DEF IdTypeOK
<1>4. \A q \in Pod : q # p => Same(q)
  BY <1>2, <1>3 DEF Same
<1>5. PodInv(p)'
  BY <1>1, <1>2, <1>3 DEF PodInv
<1>6. ASSUME NEW k \in Kind PROVE AskedOnce(p, k)' /\ RoomFor(p, k)'
  <2>1. RoomFor(p, k)
    BY <1>1 DEF RoomAt
  <2>2. ~AskedByCommand(p, k)' /\ ~AskedByReply(p, k)'
    BY <1>3 DEF AskedByCommand, AskedByReply
  <2>3. AskedOnce(p, k)'
    BY <1>3, <2>2 DEF AskedOnce
  <2> QED
    BY <1>2, <1>3, <2>1, <2>2, <2>3 DEF RoomFor
<1>7. RoomAt(p)'
  BY <1>5, <1>6 DEF RoomAt
<1> QED
  BY <1>4, <1>7, RoomStep

(* Redis executes something that is no refill.                             *)
LEMMA DropRoom ==
  ASSUME RoomInv, IdTypeOK', NEW p \in Pod, RedisExec(p), UNCHANGED replies
  PROVE  RoomInv'
<1>1. IdTypeOK /\ RoomAt(p) /\ PodInv(p) /\ conn[p] \in Seq(Command) /\ replies[p] \in Seq(Refill)
      /\ conn'[p] \in Seq(Command) /\ conn[p] # << >>
  BY DEF RoomInv, RoomAt, IdTypeOK, RedisExec
<1>2. /\ UNCHANGED <<phase, ring, inflight, pc>>
      /\ \A q \in Pod : q # p => conn'[q] = conn[q]
  BY <1>1, ExecTakes
<1>3. \A q \in Pod : q # p => Same(q)
  BY <1>2 DEF Same
<1>4. Shifted(conn[p], conn'[p])
  BY <1>1, ExecDrops, FromOld
<1>5. Shifted(replies[p], replies'[p])
  <2>1. Dropped(replies[p], replies[p])
    BY <1>1, SameDropped
  <2> QED
    BY <1>1, <2>1, FromOld
<1>6. PodInv(p)'
  BY <1>1, <1>2 DEF PodInv
<1>7. ASSUME NEW k \in Kind PROVE AskedOnce(p, k)' /\ RoomFor(p, k)'
  <2>1. AskedOnce(p, k) /\ RoomFor(p, k)
    BY <1>1 DEF RoomAt
  <2>2. AskedOnce(p, k)' /\ (AskedByCommand(p, k)' => AskedByCommand(p, k)) /\ (AskedByReply(p, k)' => AskedByReply(p, k))
    BY <1>4, <1>5, <2>1, DropAsked
  <2> QED
    BY <1>2, <2>1, <2>2 DEF RoomFor
<1>8. RoomAt(p)'
  BY <1>6, <1>7 DEF RoomAt
<1> QED
  BY <1>3, <1>8, RoomStep

(* Redis executes a refill: the command becomes a reply.                   *)
LEMMA RefillRoom ==
  ASSUME RoomInv, IdTypeOK', NEW p \in Pod, RedisExec(p), NEW k \in Kind, IsRefill(k, conn[p][1]),
         NEW x \in Refill, x.kind = k, Len(x.ids) <= V_ID_BLK_SIZE,
         replies' = [replies EXCEPT ![p] = Append(@, x)]
  PROVE  RoomInv'
<1>1. IdTypeOK /\ RoomAt(p) /\ PodInv(p) /\ conn[p] \in Seq(Command) /\ replies[p] \in Seq(Refill)
      /\ conn'[p] \in Seq(Command) /\ replies'[p] \in Seq(Refill) /\ conn[p] # << >>
  BY DEF RoomInv, RoomAt, IdTypeOK, RedisExec
<1>2. /\ UNCHANGED <<phase, ring, inflight, pc>> /\ 1 \in DOMAIN conn[p]
      /\ Len(conn[p]) \in Nat /\ DOMAIN conn[p] = 1 .. Len(conn[p]) /\ Len(conn'[p]) = Len(conn[p]) - 1
      /\ \A n \in 1 .. Len(conn[p]) - 1 : conn'[p][n] = conn[p][n + 1]
      /\ \A q \in Pod : q # p => conn'[q] = conn[q]
  BY <1>1, ExecTakes
<1>3. /\ Len(replies[p]) \in Nat /\ Len(replies'[p]) = Len(replies[p]) + 1
      /\ \A n \in 1 .. Len(replies[p]) : replies'[p][n] = replies[p][n]
      /\ replies'[p][Len(replies[p]) + 1] = x
      /\ \A q \in Pod : q # p => replies'[q] = replies[q]
  BY <1>1, Replied
<1>4. \A q \in Pod : q # p => Same(q)
  BY <1>2, <1>3 DEF Same
<1>5. AskedByCommand(p, k) /\ ~AskedByReply(p, k) /\ AskedOnce(p, k) /\ RoomFor(p, k)
  BY <1>1, <1>2 DEF AskedByCommand, AskedOnce, RoomAt
<1>6. PICK a \in Nat : /\ a = Len(conn[p]) /\ DOMAIN conn[p] = 1 .. a /\ Len(conn'[p]) = a - 1
                       /\ \A n \in 1 .. a - 1 : conn'[p][n] = conn[p][n + 1]
  BY <1>2
<1>7. DOMAIN conn'[p] = 1 .. a - 1
  BY <1>1, <1>6, LenProperties
<1>8. \A i \in DOMAIN conn'[p] : \E j \in DOMAIN conn[p] : j # 1 /\ j = i + 1 /\ conn'[p][i] = conn[p][j]
  <2>1. TAKE i \in DOMAIN conn'[p]
  <2>2. i + 1 \in DOMAIN conn[p] /\ i + 1 # 1 /\ conn'[p][i] = conn[p][i + 1]
    BY <1>6, <1>7
  <2> QED
    BY <2>2
<1>9. ~AskedByCommand(p, k)'
  <2>1. \A j \in DOMAIN conn[p] : j # 1 => ~IsRefill(k, conn[p][j])
    BY <1>2, <1>5 DEF AskedOnce
  <2> QED
    BY <1>8, <2>1 DEF AskedByCommand, IsRefill
<1>10. PICK b \in Nat : /\ b = Len(replies[p]) /\ Len(replies'[p]) = b + 1 /\ replies'[p][b + 1] = x
                        /\ \A n \in 1 .. b : replies'[p][n] = replies[p][n]
  BY <1>3
<1>11. DOMAIN replies[p] = 1 .. b /\ DOMAIN replies'[p] = 1 .. b + 1
  BY <1>1, <1>10, LenProperties
<1>12. \A n \in DOMAIN replies'[p] : \/ n \in DOMAIN replies[p] /\ replies'[p][n] = replies[p][n]
                                     \/ n = b + 1 /\ replies'[p][n] = x
  BY <1>10, <1>11
<1>13. \A n \in DOMAIN replies'[p] : replies'[p][n].kind = k => n = b + 1
  BY <1>5, <1>12 DEF AskedByReply
<1>14. AskedOnce(p, k)'
  BY <1>9, <1>13 DEF AskedOnce, AskedByCommand, IsRefill
<1>15. RoomFor(p, k)'
  BY <1>2, <1>5 DEF RoomFor
<1>16. ASSUME NEW j \in Kind, j # k PROVE AskedOnce(p, j)' /\ RoomFor(p, j)'
  <2>1. AskedOnce(p, j) /\ RoomFor(p, j)
    BY <1>1 DEF RoomAt
  <2>2. AskedByCommand(p, j)' => AskedByCommand(p, j)
    BY <1>8 DEF AskedByCommand, IsRefill
  <2>3. \A n \in DOMAIN replies'[p] : replies'[p][n].kind = j => n \in DOMAIN replies[p] /\ replies[p][n].kind = j
    BY <1>12, <1>16
  <2>4. AskedByReply(p, j)' => AskedByReply(p, j)
    BY <2>3 DEF AskedByReply
  <2>5. \A m, n \in DOMAIN replies'[p] : replies'[p][m].kind = j /\ replies'[p][n].kind = j => m = n
    BY <2>1, <2>3 DEF AskedOnce
  <2>6. \A m, n \in DOMAIN conn'[p] : IsRefill(j, conn'[p][m]) /\ IsRefill(j, conn'[p][n]) => m = n
    <3>1. TAKE m, n \in DOMAIN conn'[p]
    <3>2. m \in Nat /\ n \in Nat
      BY <1>7
    <3>3. IsRefill(j, conn'[p][m]) /\ IsRefill(j, conn'[p][n]) => m + 1 = n + 1
      BY <1>8, <2>1 DEF AskedOnce
    <3> QED
      BY <3>2, <3>3
  <2>7. AskedOnce(p, j)'
    BY <2>1, <2>2, <2>4, <2>5, <2>6 DEF AskedOnce, IsRefill
  <2> QED
    BY <1>2, <2>1, <2>2, <2>4, <2>7 DEF RoomFor
<1>17. phase[p] # "down"
  BY <1>1 DEF PodInv
<1>18. PodInv(p)'
  BY <1>1, <1>2, <1>12, <1>17 DEF PodInv
<1>19. RoomAt(p)'
  BY <1>14, <1>15, <1>16, <1>18 DEF RoomAt
<1> QED
  BY <1>4, <1>19, RoomStep

(* Every command that Redis executes.                                      *)
LEMMA ExecRoom ==
  ASSUME RoomInv, IdTypeOK', NEW p \in Pod, RedisExec(p)
  PROVE  RoomInv'
<1>1. IdTypeOK /\ "SEID" \in Kind /\ "TEID" \in Kind /\ V_ID_BLK_SIZE \in Nat
  BY IdSizes DEF RoomInv, Kind
<1>2. CASE conn[p][1].op = "INCRBY" /\ IncrBy(p)
  <2>1. /\ [kind |-> "SEID", ids |-> Block(seidNext)] \in Refill
        /\ replies' = [replies EXCEPT ![p] = Append(@, [kind |-> "SEID", ids |-> Block(seidNext)])]
    BY <1>1, <1>2, IncrByFacts
  <2>2. seidNext \in Nat /\ Len(Block(seidNext)) = V_ID_BLK_SIZE
    BY <1>1, BlockIds DEF IdTypeOK
  <2>3. PICK x \in Refill : x.kind = "SEID" /\ x.ids = Block(seidNext) /\ replies' = [replies EXCEPT ![p] = Append(@, x)]
    BY <2>1
  <2>4. IsRefill("SEID", conn[p][1]) /\ Len(x.ids) <= V_ID_BLK_SIZE
    BY <1>1, <1>2, <2>2, <2>3 DEF IsRefill
  <2> QED
    BY <1>1, <2>3, <2>4, RefillRoom
<1>3. CASE SetNx
  BY <1>3, DropRoom DEF SetNx
<1>4. CASE conn[p][1].op = "REFILL" /\ TeidRefill(p)
  <2>1. IsRefill("TEID", conn[p][1])
    BY <1>4 DEF IsRefill
  <2>2. \E x \in Refill : x.kind = "TEID" /\ Len(x.ids) <= V_ID_BLK_SIZE /\ replies' = [replies EXCEPT ![p] = Append(@, x)]
    <3>1. CASE Len(teidFree) > V_TEID_FREE_FLOOR
      <4>1. PICK n \in Nat, x \in Refill : n <= V_ID_BLK_SIZE /\ x.kind = "TEID" /\ Len(x.ids) = n
              /\ replies' = [replies EXCEPT ![p] = Append(@, x)]
        BY <1>1, <1>4, <3>1, PopFacts
      <4>2. Len(x.ids) <= V_ID_BLK_SIZE
        BY <4>1
      <4> QED
        BY <4>1, <4>2
    <3>2. CASE ~(Len(teidFree) > V_TEID_FREE_FLOOR)
      <4>1. /\ [kind |-> "TEID", ids |-> Block(teidNext)] \in Refill
            /\ replies' = [replies EXCEPT ![p] = Append(@, [kind |-> "TEID", ids |-> Block(teidNext)])]
        BY <1>1, <1>4, <3>2, BumpFacts
      <4>2. teidNext \in Nat /\ Len(Block(teidNext)) = V_ID_BLK_SIZE
        BY <1>1, BlockIds DEF IdTypeOK
      <4>3. PICK x \in Refill : x.kind = "TEID" /\ x.ids = Block(teidNext) /\ replies' = [replies EXCEPT ![p] = Append(@, x)]
        BY <4>1
      <4>4. Len(x.ids) <= V_ID_BLK_SIZE
        BY <1>1, <4>2, <4>3
      <4> QED
        BY <4>3, <4>4
    <3> QED
      BY <3>1, <3>2
  <2>3. PICK x \in Refill : x.kind = "TEID" /\ Len(x.ids) <= V_ID_BLK_SIZE /\ replies' = [replies EXCEPT ![p] = Append(@, x)]
    BY <2>2
  <2> QED
    BY <1>1, <2>1, <2>3, RefillRoom
<1>5. CASE RPush(conn[p][1].id)
  BY <1>5, DropRoom DEF RPush
<1> QED
  BY <1>1, <1>2, <1>3, <1>4, <1>5, ExecTakes

(* refill_reply_cb() clears the flag of a kind that is then not asked for. *)
LEMMA CbRoom ==
  ASSUME RoomInv, IdTypeOK', NEW p \in Pod, refill_reply_cb(p)
  PROVE  RoomInv'
<1>1. IdTypeOK /\ RoomAt(p) /\ PodInv(p) /\ replies[p] \in Seq(Refill) /\ replies'[p] \in Seq(Refill)
      /\ conn[p] \in Seq(Command)
  BY DEF RoomInv, RoomAt, IdTypeOK
<1>2. PICK k \in Kind, ids \in Seq(Nat), m \in Nat :
        \E f \in InOrder(Encodable(k, ids)) : CbRing(p, k, ids, f, m)
  BY <1>1, CbEnqueues
<1>3. k = replies[p][1].kind /\ \A l \in Kind, q \in Pod : l # k \/ q # p => ring'[l][q] = ring[l][q]
  BY <1>2 DEF CbRing
<1>4. /\ UNCHANGED <<phase, pc, conn>>
      /\ Len(replies[p]) \in Nat /\ Len(replies[p]) > 0 /\ Len(replies'[p]) = Len(replies[p]) - 1
      /\ \A n \in 1 .. Len(replies[p]) - 1 : replies'[p][n] = replies[p][n + 1]
      /\ \A q \in Pod : q # p => replies'[q] = replies[q]
      /\ inflight' = [inflight EXCEPT ![k][p] = FALSE]
  BY <1>1, <1>3, CbFacts
<1>5. \A l \in Kind, q \in Pod : l # k \/ q # p => inflight'[l][q] = inflight[l][q]
  BY <1>1, <1>4 DEF IdTypeOK
<1>6. \A q \in Pod : q # p => Same(q)
  BY <1>3, <1>4, <1>5 DEF Same
<1>7. PICK a \in Nat : /\ a = Len(replies[p]) /\ a > 0 /\ Len(replies'[p]) = a - 1
                       /\ \A n \in 1 .. a - 1 : replies'[p][n] = replies[p][n + 1]
  BY <1>4
<1>8. DOMAIN replies[p] = 1 .. a /\ DOMAIN replies'[p] = 1 .. a - 1
  BY <1>1, <1>7, LenProperties
<1>9. \A i \in DOMAIN replies'[p] : \E j \in DOMAIN replies[p] : j # 1 /\ j = i + 1 /\ replies'[p][i] = replies[p][j]
  <2>1. TAKE i \in DOMAIN replies'[p]
  <2>2. i + 1 \in DOMAIN replies[p] /\ i + 1 # 1 /\ replies'[p][i] = replies[p][i + 1]
    BY <1>7, <1>8
  <2> QED
    BY <2>2
<1>10. 1 \in DOMAIN replies[p] /\ AskedByReply(p, k) /\ AskedOnce(p, k) /\ RoomFor(p, k)
  <2>1. 1 \in DOMAIN replies[p]
    BY <1>7, <1>8
  <2> QED
    BY <1>1, <1>3, <2>1 DEF AskedByReply, RoomAt
<1>11. ~AskedByReply(p, k)'
  <2>1. \A j \in DOMAIN replies[p] : j # 1 => replies[p][j].kind # k
    BY <1>3, <1>10 DEF AskedOnce
  <2> QED
    BY <1>9, <2>1 DEF AskedByReply
<1>12. ~AskedByCommand(p, k)'
  BY <1>4, <1>10 DEF AskedOnce, AskedByCommand, IsRefill
<1>13. Shifted(conn[p], conn'[p]) /\ Shifted(replies[p], replies'[p])
  <2>1. Dropped(conn[p], conn[p]) /\ Dropped(replies[p], replies'[p])
    BY <1>1, <1>4, SameDropped, TailDropped
  <2> QED
    BY <1>1, <1>4, <2>1, FromOld
<1>14. \A j \in Kind : AskedOnce(p, j)' /\ (AskedByCommand(p, j)' => AskedByCommand(p, j)) /\ (AskedByReply(p, j)' => AskedByReply(p, j))
  BY <1>1, <1>13, DropAsked DEF RoomAt
<1>15. RoomFor(p, k)'
  <2>1. \A l \in Lcore : pc[<<p, l>>] # <<"claim", k>>
    BY <1>10 DEF RoomFor
  <2> QED
    BY <1>4, <1>11, <1>12, <2>1 DEF RoomFor
<1>16. ASSUME NEW j \in Kind, j # k PROVE RoomFor(p, j)'
  <2>1. RoomFor(p, j) /\ ring'[j][p] = ring[j][p] /\ inflight'[j][p] = inflight[j][p]
    BY <1>1, <1>3, <1>5, <1>16 DEF RoomAt
  <2> QED
    BY <1>4, <1>14, <2>1 DEF RoomFor
<1>17. PodInv(p)'
  <2>1. phase[p] # "down"
    BY <1>1, <1>10 DEF PodInv
  <2>2. \A i \in DOMAIN replies'[p] : Len(replies'[p][i].ids) <= V_ID_BLK_SIZE
    BY <1>1, <1>9 DEF PodInv
  <2> QED
    BY <1>1, <1>4, <2>1, <2>2 DEF PodInv
<1>18. RoomAt(p)'
  BY <1>14, <1>15, <1>16, <1>17 DEF RoomAt
<1> QED
  BY <1>6, <1>18, RoomStep

(* Every step keeps room for what was asked.                               *)
LEMMA NextRoom ==
  ASSUME RoomInv, OneLcore, [Next]_vars
  PROVE  RoomInv'
<1>1. IdTypeOK /\ IdTypeOK'
  BY NextType DEF RoomInv
<1>2. CASE UNCHANGED vars
  <2>1. \A q \in Pod : Same(q)
    BY <1>2 DEF Same, vars
  <2> QED
    BY <1>1, <2>1, SameRoom DEF RoomInv
<1>3. ASSUME NEW p \in Pod,
             \/ v_id_alloc_init(p) \/ v_id_alloc_ready(p) \/ Exit(p)
             \/ RedisExec(p) \/ refill_reply_cb(p) \/ Disconnect(p)
             \/ \E teid \in held["TEID"] : v_teid_free(p, teid)
      PROVE  RoomInv'
  BY <1>1, <1>3, InitRoom, ReadyRoom, ExitRoom, ExecRoom, CbRoom, DisconnectRoom, FreeRoom
<1>4. ASSUME NEW p \in Pod, NEW l \in Lcore, NEW k \in Kind,
             AllocCheck(p, l, k) \/ AllocClaim(p, l, k) \/ AllocTake(p, l, k)
      PROVE  RoomInv'
  BY <1>1, <1>4, CheckRoom, ClaimRoom, TakeRoom
<1> QED
  BY <1>2, <1>3, <1>4 DEF Next

(* In the first state nothing was asked.                                   *)
LEMMA InitialRoom ==
  ASSUME Init
  PROVE  RoomInv
<1>1. IdTypeOK
  BY InitType
<1>2. ASSUME NEW p \in Pod PROVE RoomAt(p)
  <2>1. conn[p] = << >> /\ replies[p] = << >> /\ (\A k \in Kind : ring[k][p] = << >>) /\ \A l \in Lcore : pc[<<p, l>>] = Resting
    BY DEF Init
  <2>2. \A k : Resting # <<"claim", k>>
    BY DEF Resting
  <2> QED
    BY <2>1, <2>2 DEF RoomAt, PodInv, AskedOnce, RoomFor, AskedByCommand, AskedByReply
<1> QED
  BY <1>1, <1>2 DEF RoomInv

(* Below the watermark there is room for a block (SizeAssumption).         *)
LEMMA RoomFits == RoomInv => RepliesFit
<1>1. SUFFICES ASSUME RoomInv, NEW p \in Pod, replies[p] # << >>
               PROVE  Len(ring[replies[p][1].kind][p]) + Len(replies[p][1].ids) <= RingCap
  BY DEF RepliesFit
<1>2. IdTypeOK /\ RoomAt(p) /\ PodInv(p)
  BY <1>1 DEF RoomInv, RoomAt
<1>3. 1 \in DOMAIN replies[p] /\ replies[p][1].kind \in Kind /\ replies[p][1].ids \in Seq(Nat)
  BY <1>1, <1>2, ReplyHead
<1>4. PICK k \in Kind : k = replies[p][1].kind
  BY <1>3
<1>5. Len(ring[k][p]) < V_ID_WATERMARK
  BY <1>2, <1>3, <1>4 DEF RoomAt, RoomFor, AskedByReply
<1>6. Len(replies[p][1].ids) <= V_ID_BLK_SIZE
  BY <1>2, <1>3 DEF PodInv
<1>7. Len(replies[p][1].ids) \in Nat /\ Len(ring[k][p]) \in Nat
  <2>1. ring[k][p] \in Seq(Word)
    BY <1>2 DEF IdTypeOK
  <2> QED
    BY <1>3, <2>1, LenProperties
<1>8. PICK a \in Nat, b \in Nat : a = Len(ring[k][p]) /\ b = Len(replies[p][1].ids) /\ a < V_ID_WATERMARK /\ b <= V_ID_BLK_SIZE
  BY <1>5, <1>6, <1>7
<1>9. a + b <= RingCap
  <2>1. /\ V_ID_WATERMARK \in Nat /\ V_ID_BLK_SIZE \in Nat /\ RingCap \in Nat
        /\ V_ID_WATERMARK - 1 + V_ID_BLK_SIZE <= RingCap
    BY IdSizes
  <2>2. a < V_ID_WATERMARK /\ b <= V_ID_BLK_SIZE
    BY <1>8
  <2> QED
    BY <2>1, <2>2
<1> QED
  BY <1>4, <1>8, <1>9

(* When one lcore of each pod allocates, a block always fits in the ring   *)
(* it was asked for, although the count is read when it is asked for and   *)
(* the block arrives later, and whatever fails in between: the watermark   *)
(* and the in-flight flag of seid_maybe_refill() and teid_maybe_refill()   *)
(* are enough, and refill_reply_cb() drops nothing.                        *)
THEOREM BlocksFit ==
  ASSUME OneLcore
  PROVE  Spec => []RepliesFit
<1>1. Init => RoomInv
  BY InitialRoom
<1>2. RoomInv /\ [Next]_vars => RoomInv'
  BY NextRoom
<1> QED
  BY <1>1, <1>2, RoomFits, PTL DEF Spec

-----------------------------------------------------------------------------
(* Nothing is lost.                                                        *)

(* What a step that leaves a container alone keeps there.                  *)
LEMMA Stays ==
  /\ UNCHANGED ring     => \A k \in Kind, d \in Nat : InRing(k, d) => InRing(k, d)'
  /\ UNCHANGED replies  => \A k \in Kind, d \in Nat : InReply(k, d) => InReply(k, d)'
  /\ UNCHANGED held     => \A k \in Kind, d \in Nat : InHeld(k, d) => InHeld(k, d)'
  /\ UNCHANGED teidFree => \A k \in Kind, d \in Nat : InFree(k, d) => InFree(k, d)'
  /\ UNCHANGED conn     => \A k \in Kind, d \in Nat : InConn(k, d) => InConn(k, d)'
<1>1. UNCHANGED ring => \A k \in Kind, d \in Nat : InRing(k, d) => InRing(k, d)'
  BY DEF InRing, LocalOf
<1>2. UNCHANGED replies => \A k \in Kind, d \in Nat : InReply(k, d) => InReply(k, d)'
  BY DEF InReply
<1>3. UNCHANGED held => \A k \in Kind, d \in Nat : InHeld(k, d) => InHeld(k, d)'
  BY DEF InHeld, LocalOf
<1>4. UNCHANGED teidFree => \A k \in Kind, d \in Nat : InFree(k, d) => InFree(k, d)'
  BY DEF InFree
<1>5. UNCHANGED conn => \A k \in Kind, d \in Nat : InConn(k, d) => InConn(k, d)'
  BY DEF InConn
<1> QED
  BY <1>1, <1>2, <1>3, <1>4, <1>5

(* Commands are appended behind those on the connection.                   *)
LEMMA ConnGrows ==
  ASSUME IdTypeOK, NEW p \in Pod, NEW c \in Seq(Command), conn' = [conn EXCEPT ![p] = @ \o c]
  PROVE  /\ \A k \in Kind, d \in Nat : InConn(k, d) => InConn(k, d)'
         /\ \A j \in DOMAIN c : c[j].op = "RPUSH" => InConn("TEID", c[j].id)'
<1>1. conn[p] \in Seq(Command) /\ conn'[p] = conn[p] \o c /\ \A q \in Pod : q # p => conn'[q] = conn[q]
  BY SentType
<1>2. Len(conn[p]) \in Nat /\ DOMAIN conn[p] = 1 .. Len(conn[p]) /\ Len(c) \in Nat /\ DOMAIN c = 1 .. Len(c)
  BY <1>1, LenProperties
<1>3. PICK a \in Nat, b \in Nat : a = Len(conn[p]) /\ b = Len(c) /\ DOMAIN conn[p] = 1 .. a /\ DOMAIN c = 1 .. b
  BY <1>2
<1>4. DOMAIN conn'[p] = 1 .. a + b
  BY <1>1, <1>3
<1>5. \A i \in DOMAIN conn[p] : i \in DOMAIN conn'[p] /\ conn'[p][i] = conn[p][i]
  BY <1>1, <1>3, <1>4
<1>6. \A j \in DOMAIN c : a + j \in DOMAIN conn'[p] /\ conn'[p][a + j] = c[j]
  BY <1>1, <1>3, <1>4
<1>7. \A q \in Pod : \A i \in DOMAIN conn[q] : i \in DOMAIN conn'[q] /\ conn'[q][i] = conn[q][i]
  BY <1>1, <1>5
<1>8. \A k \in Kind, d \in Nat : InConn(k, d) => InConn(k, d)'
  BY <1>7 DEF InConn
<1>9. \A j \in DOMAIN c : c[j].op = "RPUSH" => InConn("TEID", c[j].id)'
  BY <1>6 DEF InConn
<1> QED
  BY <1>8, <1>9

(* A reply is appended behind those on their way.                          *)
LEMMA ReplyGrows ==
  ASSUME IdTypeOK, IdTypeOK', NEW p \in Pod, NEW x \in Refill, replies' = [replies EXCEPT ![p] = Append(@, x)]
  PROVE  /\ \A k \in Kind, d \in Nat : InReply(k, d) => InReply(k, d)'
         /\ \A i \in DOMAIN x.ids : InReply(x.kind, x.ids[i])'
<1>1. /\ Len(replies[p]) \in Nat /\ Len(replies'[p]) = Len(replies[p]) + 1
      /\ \A n \in 1 .. Len(replies[p]) : replies'[p][n] = replies[p][n]
      /\ replies'[p][Len(replies[p]) + 1] = x
      /\ \A q \in Pod : q # p => replies'[q] = replies[q]
  BY Replied
<1>2. DOMAIN replies[p] = 1 .. Len(replies[p]) /\ DOMAIN replies'[p] = 1 .. Len(replies'[p])
  BY DEF IdTypeOK
<1>3. \A n \in DOMAIN replies[p] : n \in DOMAIN replies'[p] /\ replies'[p][n] = replies[p][n]
  BY <1>1, <1>2
<1>4. \A q \in Pod : \A n \in DOMAIN replies[q] : n \in DOMAIN replies'[q] /\ replies'[q][n] = replies[q][n]
  BY <1>1, <1>3
<1>5. PICK m \in DOMAIN replies'[p] : replies'[p][m] = x
  BY <1>1, <1>2
<1>6. \A k \in Kind, d \in Nat : InReply(k, d) => InReply(k, d)'
  <2>1. SUFFICES ASSUME NEW k \in Kind, NEW d \in Nat, InReply(k, d) PROVE InReply(k, d)'
    OBVIOUS
  <2>2. PICK q \in Pod : \E n \in DOMAIN replies[q] :
          replies[q][n].kind = k /\ \E i \in DOMAIN replies[q][n].ids : replies[q][n].ids[i] = d
    BY <2>1 DEF InReply
  <2>3. PICK n \in DOMAIN replies[q] :
          replies[q][n].kind = k /\ \E i \in DOMAIN replies[q][n].ids : replies[q][n].ids[i] = d
    BY <2>2
  <2>4. n \in DOMAIN replies'[q] /\ replies'[q][n] = replies[q][n]
    BY <1>4
  <2> QED
    BY <2>3, <2>4 DEF InReply
<1>7. ASSUME NEW i \in DOMAIN x.ids PROVE InReply(x.kind, x.ids[i])'
  BY <1>5 DEF InReply
<1> QED
  BY <1>6, <1>7

(* Only the oldest command leaves a connection when Redis executes it.     *)
LEMMA ConnTaken ==
  ASSUME IdTypeOK, IdTypeOK', NEW p \in Pod, RedisExec(p), NEW k \in Kind, NEW d \in Nat, InConn(k, d)
  PROVE  InConn(k, d)' \/ (conn[p][1].op = "RPUSH" /\ conn[p][1].id = d)
<1>1. /\ Len(conn[p]) \in Nat /\ DOMAIN conn[p] = 1 .. Len(conn[p])
      /\ Len(conn'[p]) = Len(conn[p]) - 1 /\ conn'[p] \in Seq(Command)
      /\ \A n \in 1 .. Len(conn[p]) - 1 : conn'[p][n] = conn[p][n + 1]
      /\ \A q \in Pod : q # p => conn'[q] = conn[q]
  BY ExecTakes DEF IdTypeOK
<1>2. PICK a \in Nat : /\ a = Len(conn[p]) /\ DOMAIN conn[p] = 1 .. a /\ Len(conn'[p]) = a - 1
                       /\ \A n \in 1 .. a - 1 : conn'[p][n] = conn[p][n + 1]
  BY <1>1
<1>3. DOMAIN conn'[p] = 1 .. a - 1
  BY <1>1, <1>2, LenProperties
<1>4. k = "TEID" /\ \E q \in Pod : \E i \in DOMAIN conn[q] : conn[q][i].op = "RPUSH" /\ conn[q][i].id = d
  BY DEF InConn
<1>5. PICK q \in Pod : \E i \in DOMAIN conn[q] : conn[q][i].op = "RPUSH" /\ conn[q][i].id = d
  BY <1>4
<1>6. PICK i \in DOMAIN conn[q] : conn[q][i].op = "RPUSH" /\ conn[q][i].id = d
  BY <1>5
<1>7. CASE q # p
  BY <1>1, <1>4, <1>6, <1>7 DEF InConn
<1>8. CASE q = p /\ i # 1
  <2>1. i - 1 \in 1 .. a - 1 /\ (i - 1) + 1 = i
    BY <1>2, <1>6, <1>8
  <2>2. conn'[p][i - 1] = conn[p][i]
    BY <1>2, <2>1
  <2>3. PICK j \in DOMAIN conn'[p] : conn'[p][j] = conn[p][i]
    BY <1>3, <2>1, <2>2
  <2> QED
    BY <1>4, <1>6, <1>8, <2>3 DEF InConn
<1>9. CASE q = p /\ i = 1
  BY <1>6, <1>9
<1> QED
  BY <1>7, <1>8, <1>9

(* A step after which what was somewhere still is, and what was leased is. *)
Keeps ==
  \A k \in Kind, d \in Nat :
    Unwrapped(k)' /\ Encoded(k, d) # Err /\ d < Leased(k)'
      => Somewhere(k, d)' \/ (d < Leased(k) /\ ~Somewhere(k, d))

(* A step after which every identifier still is somewhere, or was lost     *)
(* before, keeps the account.                                              *)
LEMMA KeepsAccount ==
  ASSUME IdTypeOK, IdTypeOK', \A k \in Kind : Leased(k) <= Leased(k)', Keeps, AccountInv
  PROVE  AccountInv'
<1>1. SUFFICES ASSUME NEW k \in Kind, Unwrapped(k)', NEW d \in Nat, d < Leased(k)', Encoded(k, d) # Err
               PROVE  Somewhere(k, d)'
  <2>1. ASSUME NEW k \in Kind, Unwrapped(k)' PROVE Accounted(k)'
    <3>1. \A d \in Nat : d < Leased(k)' /\ Encoded(k, d) # Err => Somewhere(k, d)'
      BY <1>1, <2>1
    <3> QED
      BY <3>1 DEF Accounted, Encoded
  <2> QED
    BY <2>1 DEF AccountInv
<1>2. Unwrapped(k)
  BY <1>1, WrappedStays
<1>3. Accounted(k)
  BY <1>2 DEF AccountInv
<1> QED
  BY <1>1, <1>3 DEF Keeps, Accounted

(* Steps that move nothing out of a container.                             *)
LEMMA GrowsKeeps ==
  ASSUME \A k \in Kind : Leased(k)' = Leased(k),
         \A k \in Kind, d \in Nat : Somewhere(k, d) => Somewhere(k, d)'
  PROVE  Keeps
BY DEF Keeps

(* Only commands are sent, or nothing happens to the identifiers.          *)
LEMMA SendKeeps ==
  ASSUME IdTypeOK, UNCHANGED <<seidNext, teidNext, teidFree, ring, replies, held>>,
         \A k \in Kind, d \in Nat : InConn(k, d) => InConn(k, d)'
  PROVE  Keeps
<1>1. \A k \in Kind : Leased(k)' = Leased(k)
  BY LeasedFrame
<1>2. \A k \in Kind, d \in Nat : Somewhere(k, d) => Somewhere(k, d)'
  BY Stays DEF Somewhere
<1> QED
  BY <1>1, <1>2, GrowsKeeps

(* The dequeue: from the ring to the caller.                               *)
LEMMA TakeKeeps ==
  ASSUME IdTypeOK, IdTypeOK', NEW p \in Pod, NEW l \in Lcore, NEW k \in Kind, AllocTake(p, l, k), ring[k][p] # << >>
  PROVE  Keeps
<1>1. /\ ring[k][p] \in Seq(Nat) /\ Len(ring[k][p]) \in Nat /\ 1 \in DOMAIN ring[k][p]
      /\ ring' = [ring EXCEPT ![k][p] = Tail(ring[k][p])] /\ Tail(ring[k][p]) \in Seq(Nat)
      /\ Len(Tail(ring[k][p])) = Len(ring[k][p]) - 1
      /\ \A i \in 1 .. Len(ring[k][p]) - 1 : Tail(ring[k][p])[i] = ring[k][p][i + 1]
      /\ held' = [held EXCEPT ![k] = held[k] \cup {ring[k][p][1]}]
  BY TakeFacts
<1>2. UNCHANGED <<seidNext, teidNext, teidFree, conn, replies>>
  BY DEF AllocTake, redis
<1>3. ring'[k][p] = Tail(ring[k][p]) /\ \A j \in Kind, q \in Pod : j # k \/ q # p => ring'[j][q] = ring[j][q]
  BY <1>1 DEF IdTypeOK
<1>4. ring[k][p][1] \in held'[k] /\ \A j \in Kind : held[j] \subseteq held'[j]
  BY <1>1 DEF IdTypeOK
<1>5. \A j \in Kind, d \in Nat : InHeld(j, d) => InHeld(j, d)'
  BY <1>4 DEF InHeld, LocalOf
<1>6. ASSUME NEW j \in Kind, NEW d \in Nat, InRing(j, d) PROVE InRing(j, d)' \/ InHeld(j, d)'
  <2>1. PICK q \in Pod : \E i \in DOMAIN ring[j][q] : LocalOf(j, ring[j][q][i]) = d
    BY <1>6 DEF InRing
  <2>2. PICK i \in DOMAIN ring[j][q] : LocalOf(j, ring[j][q][i]) = d
    BY <2>1
  <2>3. CASE j # k \/ q # p
    <3>1. ring'[j][q] = ring[j][q]
      BY <1>3, <2>3
    <3> QED
      BY <2>2, <3>1 DEF InRing, LocalOf
  <2>4. CASE j = k /\ q = p /\ i = 1
    BY <1>4, <2>2, <2>4 DEF InHeld, LocalOf
  <2>5. CASE j = k /\ q = p /\ i # 1
    <3>1. PICK a \in Nat : /\ a = Len(ring[k][p]) /\ Len(ring'[k][p]) = a - 1
                           /\ \A n \in 1 .. a - 1 : ring'[k][p][n] = ring[k][p][n + 1]
      BY <1>1, <1>3
    <3>2. DOMAIN ring[k][p] = 1 .. a /\ DOMAIN ring'[k][p] = 1 .. a - 1
      BY <1>1, <1>3, <3>1, LenProperties
    <3>3. i - 1 \in 1 .. a - 1 /\ (i - 1) + 1 = i
      BY <2>2, <2>5, <3>2
    <3>4. ring'[k][p][i - 1] = ring[k][p][i]
      BY <3>1, <3>3
    <3>5. PICK n \in DOMAIN ring'[k][p] : ring'[k][p][n] = ring[k][p][i]
      BY <3>2, <3>3, <3>4
    <3> QED
      BY <2>2, <2>5, <3>5 DEF InRing, LocalOf
  <2> QED
    BY <2>3, <2>4, <2>5
<1>7. \A j \in Kind : Leased(j)' = Leased(j)
  BY <1>2, LeasedFrame
<1>8. \A j \in Kind, d \in Nat : Somewhere(j, d) => Somewhere(j, d)'
  BY <1>2, <1>5, <1>6, Stays DEF Somewhere
<1> QED
  BY <1>7, <1>8, GrowsKeeps

(* v_teid_free(), when it is dispatched: from the caller to the            *)
(* connection.                                                             *)
LEMMA FreeKeeps ==
  ASSUME IdTypeOK, "dispatch" \notin Faults, NEW p \in Pod, NEW teid \in held["TEID"], v_teid_free(p, teid)
  PROVE  Keeps
<1>1. UNCHANGED <<seidNext, teidNext, teidFree, ring, replies>> /\ held' = [held EXCEPT !["TEID"] = @ \ {teid}]
  BY DEF v_teid_free, redis
<1>2. Cmd("RPUSH", v_teid_local(teid)) \in Command
  BY FreeSends
<1>3. PICK x \in Command : x = Cmd("RPUSH", v_teid_local(teid)) /\ x.op = "RPUSH" /\ x.id = v_teid_local(teid)
  BY <1>2 DEF Cmd
<1>4. conn' = [conn EXCEPT ![p] = @ \o << x >>]
  BY <1>3 DEF v_teid_free, Attempt, CanFail
<1>5. << x >> \in Seq(Command) /\ 1 \in DOMAIN << x >> /\ << x >>[1] = x
  BY OneElement
<1>6. (\A k \in Kind, d \in Nat : InConn(k, d) => InConn(k, d)') /\ InConn("TEID", v_teid_local(teid))'
  <2>1. PICK c \in Seq(Command) : c = << x >> /\ 1 \in DOMAIN c /\ c[1] = x
    BY <1>5
  <2>2. conn' = [conn EXCEPT ![p] = @ \o c]
    BY <1>4, <2>1, Zenon
  <2>3. (\A k \in Kind, d \in Nat : InConn(k, d) => InConn(k, d)') /\ InConn("TEID", c[1].id)'
    BY <1>3, <2>1, <2>2, ConnGrows
  <2>4. c[1].id = v_teid_local(teid) /\ (c[1].id)' = v_teid_local(teid)
    BY <1>3, <2>1
  <2> QED
    BY <2>3, <2>4 DEF InConn
<1>7. ASSUME NEW k \in Kind, NEW d \in Nat, InHeld(k, d) PROVE InHeld(k, d)' \/ InConn(k, d)'
  <2>1. PICK w \in held[k] : LocalOf(k, w) = d
    BY <1>7 DEF InHeld
  <2>2. CASE k = "TEID" /\ w = teid
    <3>1. d = v_teid_local(teid)
      BY <2>1, <2>2 DEF LocalOf
    <3> QED
      BY <1>6, <2>2, <3>1
  <2>3. CASE k # "TEID" \/ w # teid
    <3>1. w \in held'[k]
      BY <1>1, <2>1, <2>3 DEF IdTypeOK
    <3> QED
      BY <2>1, <3>1 DEF InHeld, LocalOf
  <2> QED
    BY <2>2, <2>3
<1>8. \A k \in Kind : Leased(k)' = Leased(k)
  BY <1>1, LeasedFrame
<1>9. \A k \in Kind, d \in Nat : Somewhere(k, d) => Somewhere(k, d)'
  BY <1>1, <1>6, <1>7, Stays DEF Somewhere
<1> QED
  BY <1>8, <1>9, GrowsKeeps

(* A block is leased: what the counter passes over is in the reply.        *)
LEMMA BlockKeeps ==
  ASSUME IdTypeOK, IdTypeOK', NEW p \in Pod, RedisExec(p), conn[p][1].op # "RPUSH", NEW k \in Kind, NEW x \in Refill,
         x.kind = k, x.ids = Block(Leased(k)), replies' = [replies EXCEPT ![p] = Append(@, x)],
         Leased(k)' = Leased(k) + V_ID_BLK_SIZE,
         \A j \in Kind : j # k => Leased(j)' = Leased(j), UNCHANGED teidFree
  PROVE  Keeps
<1>1. UNCHANGED <<ring, held>>
  BY ExecTakes
<1>2. \A j \in Kind, d \in Nat : InConn(j, d) => InConn(j, d)'
  BY ConnTaken
<1>3. (\A j \in Kind, d \in Nat : InReply(j, d) => InReply(j, d)') /\ \A i \in DOMAIN x.ids : InReply(x.kind, x.ids[i])'
  BY ReplyGrows
<1>4. \A j \in Kind, d \in Nat : Somewhere(j, d) => Somewhere(j, d)'
  BY <1>1, <1>2, <1>3, Stays DEF Somewhere
<1>5. ASSUME NEW d \in Nat, d < Leased(k)', ~(d < Leased(k)) PROVE InReply(k, d)'
  <2>1. PICK b \in Nat, n \in Nat : b = Leased(k) /\ n = V_ID_BLK_SIZE
    BY LeasedType, IdSizes
  <2>2. d - b + 1 \in 1 .. n /\ b + (d - b + 1) - 1 = d
    BY <1>5, <2>1
  <2>3. DOMAIN x.ids = 1 .. n /\ \A i \in 1 .. n : x.ids[i] = b + i - 1
    BY <2>1, BlockIds
  <2>4. PICK i \in DOMAIN x.ids : x.ids[i] = d
    BY <2>2, <2>3
  <2>5. InReply(x.kind, x.ids[i])'
    BY <1>3
  <2> QED
    BY <2>4, <2>5 DEF InReply
<1>6. ASSUME NEW j \in Kind, NEW d \in Nat, d < Leased(j)'
      PROVE  Somewhere(j, d)' \/ (d < Leased(j) /\ ~Somewhere(j, d))
  <2>1. CASE d < Leased(j)
    BY <1>4, <2>1
  <2>2. CASE ~(d < Leased(j))
    <3>1. j = k
      BY <1>6, <2>2
    <3>2. InReply(j, d)'
      BY <1>5, <1>6, <2>2, <3>1
    <3> QED
      BY <3>2 DEF Somewhere
  <2> QED
    BY <2>1, <2>2
<1> QED
  BY <1>6 DEF Keeps

(* Identifiers are popped: from the free list to the reply.                *)
LEMMA PopKeeps ==
  ASSUME IdTypeOK, IdTypeOK', NEW p \in Pod, RedisExec(p), conn[p][1].op # "RPUSH", TeidRefill(p),
         Len(teidFree) > V_TEID_FREE_FLOOR
  PROVE  Keeps
<1>1. UNCHANGED <<ring, held>>
  BY ExecTakes
<1>2. \A j \in Kind, d \in Nat : InConn(j, d) => InConn(j, d)'
  BY ConnTaken
<1>3. PICK n \in Nat, x \in Refill :
        /\ n <= Len(teidFree) /\ x.kind = "TEID" /\ Len(x.ids) = n /\ \A i \in 1 .. n : x.ids[i] = teidFree[i]
        /\ replies' = [replies EXCEPT ![p] = Append(@, x)]
        /\ teidFree' \in Seq(Nat) /\ Len(teidFree') = Len(teidFree) - n
        /\ \A i \in 1 .. Len(teidFree) - n : teidFree'[i] = teidFree[n + i]
        /\ UNCHANGED <<seidNext, teidNext>>
  BY PopFacts
<1>4. (\A j \in Kind, d \in Nat : InReply(j, d) => InReply(j, d)') /\ \A i \in DOMAIN x.ids : InReply(x.kind, x.ids[i])'
  BY <1>3, ReplyGrows
<1>5. ASSUME NEW j \in Kind, NEW d \in Nat, InFree(j, d) PROVE InFree(j, d)' \/ InReply(j, d)'
  <2>1. j = "TEID" /\ teidFree \in Seq(Nat) /\ x.ids \in Seq(Nat)
    BY <1>5 DEF InFree, IdTypeOK, Refill, Local
  <2>2. PICK i \in DOMAIN teidFree : teidFree[i] = d
    BY <1>5 DEF InFree
  <2>3. PICK a \in Nat : a = Len(teidFree) /\ DOMAIN teidFree = 1 .. a
    BY <2>1, LenProperties
  <2>4. DOMAIN x.ids = 1 .. n /\ DOMAIN teidFree' = 1 .. a - n
    BY <1>3, <2>1, <2>3, LenProperties
  <2>5. CASE i <= n
    <3>1. i \in DOMAIN x.ids /\ x.ids[i] = d
      BY <1>3, <2>2, <2>3, <2>4, <2>5
    <3>2. InReply(x.kind, x.ids[i])'
      BY <1>4, <3>1
    <3>3. x.kind = j /\ x.ids[i] = d
      BY <1>3, <2>1, <3>1
    <3> QED
      BY <3>2, <3>3 DEF InReply
  <2>6. CASE ~(i <= n)
    <3>1. i - n \in 1 .. a - n /\ n + (i - n) = i
      BY <2>2, <2>3, <2>6
    <3>2. teidFree'[i - n] = teidFree[i]
      BY <1>3, <2>3, <3>1
    <3>3. PICK m \in DOMAIN teidFree' : teidFree'[m] = d
      BY <2>2, <2>4, <3>1, <3>2
    <3> QED
      BY <2>1, <3>3 DEF InFree
  <2> QED
    BY <2>5, <2>6
<1>6. \A j \in Kind : Leased(j)' = Leased(j)
  BY <1>3, LeasedFrame
<1>7. \A j \in Kind, d \in Nat : Somewhere(j, d) => Somewhere(j, d)'
  BY <1>1, <1>2, <1>4, <1>5, Stays DEF Somewhere
<1> QED
  BY <1>6, <1>7, GrowsKeeps

(* A TEID that was freed: from the connection to the free list.            *)
LEMMA PushKeeps ==
  ASSUME IdTypeOK, IdTypeOK', NEW p \in Pod, RedisExec(p), RPush(conn[p][1].id)
  PROVE  Keeps
<1>1. UNCHANGED <<ring, held>>
  BY ExecTakes
<1>2. teidFree' = Append(teidFree, conn[p][1].id) /\ UNCHANGED <<seidNext, teidNext, replies>>
  BY DEF RPush
<1>3. PICK e \in Nat : e = conn[p][1].id
  <2>1. conn[p] # << >>
    BY DEF RedisExec
  <2> QED
    BY <2>1, ConnHead
<1>4. teidFree \in Seq(Nat) /\ teidFree' = Append(teidFree, e)
  BY <1>2, <1>3 DEF IdTypeOK, Local
<1>5. PICK a \in Nat : a = Len(teidFree) /\ DOMAIN teidFree = 1 .. a
  BY <1>4, LenProperties
<1>6. /\ \A i \in DOMAIN teidFree : i \in DOMAIN teidFree' /\ teidFree'[i] = teidFree[i]
      /\ a + 1 \in DOMAIN teidFree' /\ teidFree'[a + 1] = e
  BY <1>4, <1>5
<1>7. (\A k \in Kind, d \in Nat : InFree(k, d) => InFree(k, d)') /\ InFree("TEID", e)'
  BY <1>6 DEF InFree
<1>8. ASSUME NEW k \in Kind, NEW d \in Nat, InConn(k, d) PROVE InConn(k, d)' \/ InFree(k, d)'
  <2>1. k = "TEID"
    BY <1>8 DEF InConn
  <2>2. InConn(k, d)' \/ d = e
    BY <1>3, <1>8, ConnTaken
  <2> QED
    BY <1>7, <2>1, <2>2
<1>9. \A k \in Kind : Leased(k)' = Leased(k)
  BY <1>2, LeasedFrame
<1>10. \A k \in Kind, d \in Nat : Somewhere(k, d) => Somewhere(k, d)'
  BY <1>1, <1>2, <1>7, <1>8, Stays DEF Somewhere
<1> QED
  BY <1>9, <1>10, GrowsKeeps

(* Every command that Redis executes.                                      *)
LEMMA ExecKeeps ==
  ASSUME IdTypeOK, IdTypeOK', NEW p \in Pod, RedisExec(p)
  PROVE  Keeps /\ \A k \in Kind : Leased(k) <= Leased(k)'
<1>1. /\ "SEID" \in Kind /\ "TEID" \in Kind /\ "SEID" # "TEID" /\ V_ID_BLK_SIZE \in Nat
      /\ seidNext \in Nat /\ teidNext \in Nat
  BY IdSizes DEF Kind, IdTypeOK
<1>2. CASE conn[p][1].op = "INCRBY" /\ IncrBy(p)
  <2>1. /\ seidNext' = seidNext + V_ID_BLK_SIZE /\ UNCHANGED <<teidNext, teidFree>>
        /\ [kind |-> "SEID", ids |-> Block(seidNext)] \in Refill
        /\ replies' = [replies EXCEPT ![p] = Append(@, [kind |-> "SEID", ids |-> Block(seidNext)])]
    BY <1>2, IncrByFacts
  <2>2. PICK x \in Refill : x.kind = "SEID" /\ x.ids = Block(seidNext) /\ replies' = [replies EXCEPT ![p] = Append(@, x)]
    BY <2>1
  <2>3. /\ Leased("SEID") = seidNext /\ Leased("SEID")' = seidNext'
        /\ \A j \in Kind : j # "SEID" => Leased(j)' = Leased(j)
    BY <2>1 DEF Leased
  <2>4. x.ids = Block(Leased("SEID")) /\ Leased("SEID")' = Leased("SEID") + V_ID_BLK_SIZE /\ UNCHANGED teidFree
        /\ conn[p][1].op # "RPUSH"
    BY <1>2, <2>1, <2>2, <2>3
  <2>5. Keeps
    BY <1>1, <2>2, <2>3, <2>4, BlockKeeps
  <2>6. \A k \in Kind : Leased(k) <= Leased(k)'
    BY <1>1, <2>1 DEF Leased
  <2> QED
    BY <2>5, <2>6
<1>3. CASE conn[p][1].op = "SETNX" /\ SetNx
  <2>1. UNCHANGED <<seidNext, teidFree, replies>> /\ teidNext' = IF teidNext = 0 THEN 1 ELSE teidNext
    BY <1>3 DEF SetNx
  <2>2. UNCHANGED <<ring, held>>
    BY ExecTakes
  <2>3. \A k \in Kind, d \in Nat : InConn(k, d) => InConn(k, d)'
    BY <1>3, ConnTaken
  <2>4. \A k \in Kind, d \in Nat : Somewhere(k, d) => Somewhere(k, d)'
    BY <2>1, <2>2, <2>3, Stays DEF Somewhere
  <2>5. Encoded("TEID", 0) = Err
    <3>1. 0 % TeidWidth = 0
      BY Width, Remainder
    <3> QED
      BY <3>1 DEF Encoded, v_teid_encode
  <2>6. \A k \in Kind, d \in Nat : d < Leased(k)' => d < Leased(k) \/ (k = "TEID" /\ d = 0)
    BY <1>1, <2>1 DEF Leased, Kind
  <2>7. Keeps
    BY <2>4, <2>5, <2>6 DEF Keeps
  <2>8. \A k \in Kind : Leased(k) <= Leased(k)'
    BY <1>1, <2>1 DEF Leased
  <2> QED
    BY <2>7, <2>8
<1>4. CASE conn[p][1].op = "REFILL" /\ TeidRefill(p) /\ Len(teidFree) > V_TEID_FREE_FLOOR
  <2>1. Keeps
    BY <1>4, PopKeeps
  <2>2. UNCHANGED <<seidNext, teidNext>>
    BY <1>4, PopFacts
  <2>3. \A k \in Kind : Leased(k) <= Leased(k)'
    BY <1>1, <2>2 DEF Leased
  <2> QED
    BY <2>1, <2>3
<1>5. CASE conn[p][1].op = "REFILL" /\ TeidRefill(p) /\ ~(Len(teidFree) > V_TEID_FREE_FLOOR)
  <2>1. /\ teidNext' = teidNext + V_ID_BLK_SIZE /\ UNCHANGED <<seidNext, teidFree>>
        /\ [kind |-> "TEID", ids |-> Block(teidNext)] \in Refill
        /\ replies' = [replies EXCEPT ![p] = Append(@, [kind |-> "TEID", ids |-> Block(teidNext)])]
    BY <1>5, BumpFacts
  <2>2. PICK x \in Refill : x.kind = "TEID" /\ x.ids = Block(teidNext) /\ replies' = [replies EXCEPT ![p] = Append(@, x)]
    BY <2>1
  <2>3. /\ Leased("TEID") = teidNext /\ Leased("TEID")' = teidNext'
        /\ \A j \in Kind : j # "TEID" => Leased(j)' = Leased(j)
    BY <1>1, <2>1 DEF Leased, Kind
  <2>4. x.ids = Block(Leased("TEID")) /\ Leased("TEID")' = Leased("TEID") + V_ID_BLK_SIZE /\ UNCHANGED teidFree
        /\ conn[p][1].op # "RPUSH"
    BY <1>5, <2>1, <2>2, <2>3
  <2>5. Keeps
    BY <1>1, <2>2, <2>3, <2>4, BlockKeeps
  <2>6. \A k \in Kind : Leased(k) <= Leased(k)'
    BY <1>1, <2>1 DEF Leased
  <2> QED
    BY <2>5, <2>6
<1>6. CASE conn[p][1].op = "RPUSH" /\ RPush(conn[p][1].id)
  <2>1. UNCHANGED <<seidNext, teidNext>>
    BY <1>6 DEF RPush
  <2>2. \A k \in Kind : Leased(k) <= Leased(k)'
    BY <1>1, <2>1 DEF Leased
  <2> QED
    BY <1>6, <2>2, PushKeeps
<1> QED
  BY <1>2, <1>3, <1>4, <1>5, <1>6, ExecTakes

(* The loop of the callbacks meets every entry that can be encoded.        *)
LEMMA InOrderMeetsAll ==
  ASSUME NEW k \in Kind, NEW ids \in Seq(Nat), NEW f \in InOrder(Encodable(k, ids)), NEW i \in Encodable(k, ids)
  PROVE  \E j \in 1 .. Cardinality(Encodable(k, ids)) : f[j] = i
<1> DEFINE S == Encodable(k, ids)
<1>1. IsFiniteSet(S) /\ Cardinality(S) \in Nat
  BY EncodableFinite
<1>2. PICK n \in Nat : n = Cardinality(S)
  BY <1>1
<1>3. S \subseteq Nat
  BY DEF Encodable
<1> HIDE DEF S
<1>4. f \in [1 .. n -> S] /\ \A a, b \in 1 .. n : a < b => f[a] < f[b]
  BY <1>2 DEF InOrder, S
<1>5. \A a, b \in 1 .. n : f[a] = f[b] => a = b
  <2>1. TAKE a, b \in 1 .. n
  <2>2. f[a] \in Nat /\ f[b] \in Nat
    BY <1>3, <1>4
  <2>3. CASE a < b
    BY <1>4, <2>2, <2>3
  <2>4. CASE b < a
    BY <1>4, <2>2, <2>4
  <2> QED
    BY <2>3, <2>4
<1>6. f \in Injection(1 .. n, S)
  BY <1>4, <1>5 DEF Injection, IsInjective
<1>7. Cardinality(1 .. n) = n
  <2>1. Cardinality(1 .. n) = IF 1 > n THEN 0 ELSE n - 1 + 1
    BY FS_Interval
  <2> QED
    BY <2>1
<1>8. f \in Surjection(1 .. n, S)
  BY <1>1, <1>2, <1>6, <1>7, FS_Injection
<1> QED
  BY <1>2, <1>8 DEF Surjection, S

(* refill_reply_cb(), when there is room: from the reply to the ring.      *)
LEMMA CbKeeps ==
  ASSUME LeaseInv, RepliesFit, IdTypeOK', NEW p \in Pod, refill_reply_cb(p)
  PROVE  Keeps
<1>1. IdTypeOK
  BY DEF LeaseInv
<1>2. UNCHANGED <<seidNext, teidNext, teidFree, conn, held>>
  BY <1>1, CbFacts
<1>3. PICK k \in Kind, ids \in Seq(Nat), m \in Nat :
        \E f \in InOrder(Encodable(k, ids)) : CbRing(p, k, ids, f, m)
  BY <1>1, CbEnqueues
<1>4. PICK f \in InOrder(Encodable(k, ids)) : CbRing(p, k, ids, f, m)
  BY <1>3
<1>5. /\ k = replies[p][1].kind /\ ids = replies[p][1].ids
      /\ \A l \in Kind, q \in Pod : l # k \/ q # p => ring'[l][q] = ring[l][q]
      /\ m = Min2(Cardinality(Encodable(k, ids)), RingCap - Len(ring[k][p]))
      /\ ring'[k][p] \in Seq(Nat) /\ Len(ring'[k][p]) = Len(ring[k][p]) + m
      /\ \A i \in 1 .. Len(ring[k][p]) : ring'[k][p][i] = ring[k][p][i]
      /\ \A j \in 1 .. m : ring'[k][p][Len(ring[k][p]) + j] = Encoded(k, ids[f[j]])
  BY <1>4 DEF CbRing, EnqueuedBy
<1>6. ring[k][p] \in Seq(Nat)
  BY <1>1 DEF IdTypeOK, Word
<1>7. PICK a \in Nat : a = Len(ring[k][p]) /\ DOMAIN ring[k][p] = 1 .. a
  BY <1>6, LenProperties
<1>8. m = Cardinality(Encodable(k, ids))
  <2>1. PICK c \in Nat, n \in Nat, z \in Nat : c = Cardinality(Encodable(k, ids)) /\ n = Len(ids) /\ c <= n /\ z = RingCap
    BY EncodableFinite, LenProperties, IdSizes
  <2>2. a + n <= z
    <3>1. replies[p] # << >>
      BY DEF refill_reply_cb
    <3>2. Len(ring[k][p]) + Len(ids) <= RingCap
      BY <1>5, <3>1 DEF RepliesFit
    <3> QED
      BY <1>7, <2>1, <3>2
  <2>3. c <= z - a
    BY <2>1, <2>2
  <2>4. m = IF c < z - a THEN c ELSE z - a
    BY <1>5, <1>7, <2>1 DEF Min2
  <2> QED
    BY <2>1, <2>3, <2>4
<1>9. PICK r \in Seq(Nat) : /\ r = ring'[k][p] /\ DOMAIN r = 1 .. a + m
                            /\ \A i \in 1 .. a : r[i] = ring[k][p][i]
                            /\ \A j \in 1 .. m : r[a + j] = Encoded(k, ids[f[j]])
  <2>1. PICK r \in Seq(Nat) : r = ring'[k][p]
    BY <1>5
  <2>2. Len(r) = a + m
    BY <1>5, <1>7, <2>1, Zenon
  <2>3. DOMAIN r = 1 .. a + m
    BY <2>2, LenProperties
  <2>4. /\ \A i \in 1 .. a : r[i] = ring[k][p][i]
        /\ \A j \in 1 .. m : r[a + j] = Encoded(k, ids[f[j]])
    BY <1>5, <1>7, <2>1, Zenon
  <2> QED
    BY <2>1, <2>3, <2>4
<1>10. \A l \in Kind, d \in Nat : InRing(l, d) => InRing(l, d)'
  <2>1. \A i \in DOMAIN ring[k][p] : i \in DOMAIN ring'[k][p] /\ ring'[k][p][i] = ring[k][p][i]
    <3>1. TAKE i \in DOMAIN ring[k][p]
    <3>2. i \in 1 .. a /\ DOMAIN r = 1 .. a + m
      BY <1>7, <1>9
    <3>3. i \in 1 .. a + m
      BY <3>2
    <3>4. r[i] = ring[k][p][i] /\ r = ring'[k][p]
      BY <1>9, <3>2
    <3> QED
      BY <3>2, <3>3, <3>4
  <2>2. \A l \in Kind, q \in Pod : \A i \in DOMAIN ring[l][q] : i \in DOMAIN ring'[l][q] /\ ring'[l][q][i] = ring[l][q][i]
    BY <1>5, <2>1
  <2> QED
    BY <2>2 DEF InRing, LocalOf
<1>11. ASSUME NEW i \in DOMAIN ids, Encoded(k, ids[i]) # Err, Unwrapped(k) PROVE InRing(k, ids[i])'
  <2>1. i \in Encodable(k, ids)
    BY <1>11 DEF Encodable
  <2>2. PICK j \in 1 .. m : f[j] = i
    BY <1>8, <2>1, InOrderMeetsAll
  <2>3. a + j \in DOMAIN ring'[k][p] /\ ring'[k][p][a + j] = Encoded(k, ids[i])
    <3>1. a + j \in 1 .. a + m
      BY <2>2
    <3>2. DOMAIN r = 1 .. a + m /\ r = ring'[k][p] /\ r[a + j] = Encoded(k, ids[f[j]])
      BY <1>9, <2>2
    <3> QED
      BY <2>2, <3>1, <3>2
  <2>4. PICK e \in Nat : e = ids[i]
    BY <1>11
  <2>5. InReply(k, e)
    <3>1. 1 \in DOMAIN replies[p]
      BY <1>1, ReplyHead DEF refill_reply_cb
    <3> QED
      BY <1>5, <1>11, <2>4, <3>1 DEF InReply
  <2>6. e < Leased(k)
    BY <2>4, <2>5 DEF LeaseInv, BelowCounter, Somewhere
  <2>7. k = "SEID" \/ e < TeidWidth
    <3>1. CASE k = "SEID"
      BY <3>1
    <3>2. CASE k # "SEID"
      <4>1. e < teidNext /\ teidNext <= TeidWidth /\ teidNext \in Nat /\ TeidWidth \in Nat
        BY <1>1, <1>11, <2>6, <3>2, Width DEF Unwrapped, Leased, IdTypeOK
      <4> QED
        BY <4>1
    <3> QED
      BY <3>1, <3>2
  <2>8. LocalOf(k, Encoded(k, e)) = e
    BY <1>11, <2>4, <2>7, EncodedWord
  <2>9. PICK n \in DOMAIN ring'[k][p] : LocalOf(k, ring'[k][p][n]) = ids[i]
    BY <2>3, <2>4, <2>8
  <2> QED
    BY <2>9 DEF InRing, LocalOf
<1>12. ASSUME NEW l \in Kind, NEW d \in Nat, InReply(l, d), Encoded(l, d) # Err, Unwrapped(l)
       PROVE  InReply(l, d)' \/ InRing(l, d)'
  <2>1. PICK q \in Pod : \E n \in DOMAIN replies[q] :
          replies[q][n].kind = l /\ \E i \in DOMAIN replies[q][n].ids : replies[q][n].ids[i] = d
    BY <1>12 DEF InReply
  <2>2. PICK n \in DOMAIN replies[q] :
          replies[q][n].kind = l /\ \E i \in DOMAIN replies[q][n].ids : replies[q][n].ids[i] = d
    BY <2>1
  <2>3. CASE q # p
    <3>1. replies'[q] = replies[q]
      BY <1>1, <2>3, CbFacts
    <3> QED
      BY <2>2, <3>1 DEF InReply
  <2>4. CASE q = p /\ n = 1
    <3>1. l = k /\ \E i \in DOMAIN ids : ids[i] = d
      BY <1>5, <2>2, <2>4
    <3>2. PICK i \in DOMAIN ids : ids[i] = d
      BY <3>1
    <3>3. InRing(k, ids[i])'
      BY <1>11, <1>12, <3>1, <3>2
    <3> QED
      BY <3>1, <3>2, <3>3
  <2>5. CASE q = p /\ n # 1
    <3>1. /\ replies[p] \in Seq(Refill) /\ replies'[p] \in Seq(Refill)
          /\ Len(replies[p]) \in Nat /\ Len(replies'[p]) = Len(replies[p]) - 1
          /\ \A x \in 1 .. Len(replies[p]) - 1 : replies'[p][x] = replies[p][x + 1]
      BY <1>1, CbFacts DEF IdTypeOK
    <3>2. PICK b \in Nat : /\ b = Len(replies[p]) /\ Len(replies'[p]) = b - 1
                           /\ \A x \in 1 .. b - 1 : replies'[p][x] = replies[p][x + 1]
      BY <3>1
    <3>3. DOMAIN replies[p] = 1 .. b /\ DOMAIN replies'[p] = 1 .. b - 1
      BY <3>1, <3>2, LenProperties
    <3>4. n - 1 \in 1 .. b - 1 /\ (n - 1) + 1 = n
      BY <2>2, <2>5, <3>3
    <3>5. replies'[p][n - 1] = replies[p][n]
      BY <3>2, <3>4
    <3>6. PICK x \in DOMAIN replies'[p] : replies'[p][x] = replies[p][n]
      BY <3>3, <3>4, <3>5
    <3> QED
      BY <2>2, <2>5, <3>6 DEF InReply
  <2> QED
    BY <2>3, <2>4, <2>5
<1>13. \A l \in Kind : Leased(l)' = Leased(l) /\ (Unwrapped(l)' => Unwrapped(l))
  BY <1>2, LeasedFrame DEF Unwrapped
<1>14. ASSUME NEW l \in Kind, NEW d \in Nat, Unwrapped(l)', Encoded(l, d) # Err, Somewhere(l, d)
       PROVE  Somewhere(l, d)'
  BY <1>2, <1>10, <1>12, <1>13, <1>14, Stays DEF Somewhere
<1> QED
  BY <1>13, <1>14 DEF Keeps

(* No pod exits in this step.                                              *)
NoExit == \A p \in Pod : ~Exit(p)

(* What a step keeps when nothing fails.                                   *)
LEMMA NextAccount ==
  ASSUME "dispatch" \notin Faults, "disconnect" \notin Faults,
         LeaseInv, RoomInv, AccountInv, [Next]_vars, [NoExit]_vars
  PROVE  AccountInv'
<1>1. IdTypeOK /\ IdTypeOK' /\ RepliesFit
  BY NextType, RoomFits DEF LeaseInv
<1>2. SUFFICES Keeps /\ \A k \in Kind : Leased(k) <= Leased(k)'
  BY <1>1, KeepsAccount
<1>3. ASSUME UNCHANGED <<seidNext, teidNext>> PROVE \A k \in Kind : Leased(k) <= Leased(k)'
  BY <1>1, <1>3, LeasedFrame, LeasedType
<1>4. ASSUME UNCHANGED <<seidNext, teidNext, teidFree, ring, conn, replies, held>>
      PROVE  Keeps /\ \A k \in Kind : Leased(k) <= Leased(k)'
  BY <1>1, <1>3, <1>4, Stays, SendKeeps
<1>5. CASE UNCHANGED vars
  BY <1>4, <1>5 DEF vars
<1>6. ASSUME NEW p \in Pod, v_id_alloc_init(p) PROVE Keeps /\ \A k \in Kind : Leased(k) <= Leased(k)'
  <2>1. UNCHANGED <<seidNext, teidNext, teidFree, ring, replies, held>>
    BY <1>6 DEF v_id_alloc_init, redis
  <2>2. PICK c \in Seq(Command) : conn' = [conn EXCEPT ![p] = @ \o c]
    BY <1>1, <1>6, InitSends
  <2> QED
    BY <1>1, <1>3, <2>1, <2>2, ConnGrows, SendKeeps
<1>7. ASSUME NEW p \in Pod, v_id_alloc_ready(p) PROVE Keeps /\ \A k \in Kind : Leased(k) <= Leased(k)'
  BY <1>4, <1>7 DEF v_id_alloc_ready, redis
<1>8. ASSUME NEW p \in Pod, RedisExec(p) PROVE Keeps /\ \A k \in Kind : Leased(k) <= Leased(k)'
  BY <1>1, <1>8, ExecKeeps
<1>9. ASSUME NEW p \in Pod, refill_reply_cb(p) PROVE Keeps /\ \A k \in Kind : Leased(k) <= Leased(k)'
  <2>1. UNCHANGED <<seidNext, teidNext>>
    BY <1>1, <1>9, CbFacts
  <2> QED
    BY <1>1, <1>3, <1>9, <2>1, CbKeeps
<1>10. ASSUME NEW p \in Pod PROVE ~Disconnect(p)
  BY DEF Disconnect, CanFail
<1>11. ASSUME NEW p \in Pod, NEW teid \in held["TEID"], v_teid_free(p, teid)
       PROVE  Keeps /\ \A k \in Kind : Leased(k) <= Leased(k)'
  <2>1. UNCHANGED <<seidNext, teidNext>>
    BY <1>11 DEF v_teid_free, redis
  <2> QED
    BY <1>1, <1>3, <1>11, <2>1, FreeKeeps
<1>12. ASSUME NEW p \in Pod, NEW l \in Lcore, NEW k \in Kind, AllocCheck(p, l, k)
       PROVE  Keeps /\ \A j \in Kind : Leased(j) <= Leased(j)'
  BY <1>4, <1>12 DEF AllocCheck, redis
<1>13. ASSUME NEW p \in Pod, NEW l \in Lcore, NEW k \in Kind, AllocClaim(p, l, k)
       PROVE  Keeps /\ \A j \in Kind : Leased(j) <= Leased(j)'
  <2>1. UNCHANGED <<seidNext, teidNext, teidFree, ring, replies, held>>
    BY <1>13 DEF AllocClaim, redis
  <2>2. PICK c \in Seq(Command) : conn' = [conn EXCEPT ![p] = @ \o c]
    BY <1>1, <1>13, ClaimSends
  <2> QED
    BY <1>1, <1>3, <2>1, <2>2, ConnGrows, SendKeeps
<1>14. ASSUME NEW p \in Pod, NEW l \in Lcore, NEW k \in Kind, AllocTake(p, l, k)
       PROVE  Keeps /\ \A j \in Kind : Leased(j) <= Leased(j)'
  <2>1. CASE ring[k][p] = << >>
    BY <1>4, <1>14, <2>1 DEF AllocTake, redis
  <2>2. CASE ring[k][p] # << >>
    <3>1. UNCHANGED <<seidNext, teidNext>>
      BY <1>14 DEF AllocTake, redis
    <3> QED
      BY <1>1, <1>3, <1>14, <2>2, <3>1, TakeKeeps
  <2> QED
    BY <2>1, <2>2
<1>15. CASE Next /\ NoExit
  <2>1. \A p \in Pod : ~Exit(p)
    BY <1>15 DEF NoExit
  <2> QED
    BY <1>6, <1>7, <1>8, <1>9, <1>10, <1>11, <1>12, <1>13, <1>14, <1>15, <2>1 DEF Next
<1> QED
  BY <1>5, <1>15

(* An identifier that is somewhere has a place.                            *)
LEMMA SomewhereHasPlace ==
  ASSUME IdTypeOK, NEW k \in Kind, NEW d \in Nat, Somewhere(k, d)
  PROVE  Places(k, d) # {}
<1> DEFINE R == UNION {{<<"ring", p, i>> : i \in {j \in DOMAIN ring[k][p] : LocalOf(k, ring[k][p][j]) = d}} : p \in Pod}
           Y == UNION {UNION {{<<"reply", p, n, i>> : i \in {j \in DOMAIN replies[p][n].ids : replies[p][n].ids[j] = d}}
                               : n \in {m \in DOMAIN replies[p] : replies[p][m].kind = k}} : p \in Pod}
           H == {<<"held", w>> : w \in {x \in held[k] : LocalOf(k, x) = d}}
           F == {<<"free", i>> : i \in {j \in DOMAIN teidFree : teidFree[j] = d}}
           C == UNION {{<<"conn", p, i>> : i \in {j \in DOMAIN conn[p] : conn[p][j] = Cmd("RPUSH", d)}} : p \in Pod}
<1>1. Places(k, d) = R \cup Y \cup H \cup (IF k = "SEID" THEN {} ELSE F \cup C)
  BY DEF Places
<1>2. InRing(k, d) => \E x : x \in R
  <2>1. SUFFICES ASSUME NEW p \in Pod, NEW i \in DOMAIN ring[k][p], LocalOf(k, ring[k][p][i]) = d
                 PROVE  <<"ring", p, i>> \in R
    <3> HIDE DEF R
    <3> QED
      BY DEF InRing
  <2> QED
    BY <2>1
<1>3. InReply(k, d) => \E x : x \in Y
  <2>1. SUFFICES ASSUME NEW p \in Pod, NEW n \in DOMAIN replies[p], replies[p][n].kind = k,
                        NEW i \in DOMAIN replies[p][n].ids, replies[p][n].ids[i] = d
                 PROVE  <<"reply", p, n, i>> \in Y
    <3> HIDE DEF Y
    <3> QED
      BY DEF InReply
  <2>2. <<"reply", p, n, i>> \in {<<"reply", p, n, a>> : a \in {j \in DOMAIN replies[p][n].ids : replies[p][n].ids[j] = d}}
    BY <2>1
  <2>3. n \in {m \in DOMAIN replies[p] : replies[p][m].kind = k}
    BY <2>1
  <2> QED
    BY <2>2, <2>3
<1>4. InHeld(k, d) => \E x : x \in H
  BY DEF InHeld
<1>5. InFree(k, d) => k # "SEID" /\ \E x : x \in F
  BY DEF InFree
<1>6. InConn(k, d) => k # "SEID" /\ \E x : x \in C
  <2>1. SUFFICES ASSUME NEW p \in Pod, NEW i \in DOMAIN conn[p], conn[p][i].op = "RPUSH", conn[p][i].id = d
                 PROVE  <<"conn", p, i>> \in C
    <3> HIDE DEF C
    <3> QED
      BY DEF InConn
  <2>2. conn[p][i] \in Command
    BY DEF IdTypeOK
  <2>3. conn[p][i] = Cmd("RPUSH", d)
    BY <2>1, <2>2 DEF Command, Cmd
  <2> QED
    BY <2>3
<1> HIDE DEF R, Y, H, F, C
<1> QED
  BY <1>1, <1>2, <1>3, <1>4, <1>5, <1>6 DEF Somewhere

(* While no pod exits, no leased identifier is lost: with one allocating   *)
(* lcore in each pod and no failed dispatch or broken connection, every    *)
(* SEID and TEID taken from a counter that can be encoded is in a ring, in *)
(* a reply, with a caller, in the free list or on its way there.  That is  *)
(* what the watermark, the in-flight flag and the free list of             *)
(* v_id_alloc.c are for; the 32 bits of enqueue_teid() bound it.           *)
THEOREM NoIdLost ==
  ASSUME OneLcore, "dispatch" \notin Faults, "disconnect" \notin Faults
  PROVE  Spec /\ [][NoExit]_vars => [](teidNext <= TeidWidth => NothingLost)
<1>1. Init => RoomInv /\ AccountInv
  <2>1. Init => AccountInv
    BY DEF Init, AccountInv, Accounted, Leased
  <2> QED
    BY <2>1, InitialRoom
<1>2. LeaseInv /\ (RoomInv /\ AccountInv) /\ [Next]_vars /\ [NoExit]_vars => (RoomInv /\ AccountInv)'
  BY NextRoom, NextAccount
<1>3. LeaseInv /\ AccountInv => (teidNext <= TeidWidth => NothingLost)
  <2>1. SUFFICES ASSUME LeaseInv, AccountInv, teidNext <= TeidWidth, NEW k \in Kind,
                        NEW d \in 0 .. (Leased(k) - 1), Encoded(k, d) # Err
                 PROVE  Places(k, d) # {}
    BY DEF NothingLost
  <2>2. IdTypeOK /\ Leased(k) \in Nat
    BY <2>1, LeasedType DEF LeaseInv
  <2>3. d \in Nat /\ d < Leased(k)
    BY <2>2
  <2>4. Somewhere(k, d)
    BY <2>1, <2>3 DEF AccountInv, Accounted, Unwrapped
  <2> QED
    BY <2>2, <2>3, <2>4, SomewhereHasPlace
<1> QED
  BY <1>1, <1>2, <1>3, LeasesHold, PTL DEF Spec
=============================================================================
