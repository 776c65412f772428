-------------------------- MODULE SeidLayoutProofs --------------------------
(* What v_seid.c guarantees, whatever the sizes of its fields are.  Local  *)
(* indices are what v_id_alloc.c leases, words what the SMF sends.         *)
EXTENDS SeidLayout, TLAPS

-----------------------------------------------------------------------------
(* Arithmetic of two fields, the lower one of size b.                      *)

(* The two fields of a * b + c are a and c.                                *)
LEMMA DivMod ==
  ASSUME NEW a \in Nat, NEW b \in Nat \ {0}, NEW c \in 0 .. b - 1
  PROVE  /\ (a * b + c) \div b = a
         /\ (a * b + c) % b = c
  OBVIOUS

(* A word is determined by its two fields.                                 *)
LEMMA Rejoin ==
  ASSUME NEW w \in Nat, NEW b \in Nat \ {0}
  PROVE  /\ w \div b \in Nat /\ w % b \in 0 .. b - 1
         /\ w = (w \div b) * b + (w % b)
  OBVIOUS

(* A product of field sizes is a size.                                     *)
LEMMA Product ==
  ASSUME NEW a \in Nat \ {0}, NEW b \in Nat \ {0}
  PROVE  a * b \in Nat \ {0} /\ b <= a * b
  OBVIOUS

(* Two fields of sizes a and b fit in a word of size a * b.                *)
LEMMA TwoFields ==
  ASSUME NEW a \in Nat \ {0}, NEW b \in Nat \ {0},
         NEW p \in 0 .. a - 1, NEW l \in 0 .. b - 1
  PROVE  p * b + l \in 0 .. a * b - 1
<1>1. p * b \in Nat /\ (p + 1) * b = p * b + b
  OBVIOUS
<1>2. (p + 1) * b <= a * b
  OBVIOUS
<1> QED
  BY <1>1, <1>2

(* The field sizes of v_seid.h are numbers, and partitions fit in their    *)
(* field.                                                                  *)
LEMMA Sizes ==
  /\ {PartSize, SeidLocalSize, TeidLocalSize, SeidRsvSize} \subseteq Nat \ {0}
  /\ V_NUM_PARTS \in Nat /\ V_NUM_PARTS <= PartSize /\ V_SEID_FMT_VER \in Nat
  BY LayoutAssumption

-----------------------------------------------------------------------------

(* v_seid_encode() and v_seid_validate(): every SEID the pod mints passes  *)
(* its own check when it comes back, in the partition it was made for, and *)
(* holds its local index: two sessions with different partitions or local  *)
(* indices have different SEIDs.                                           *)
THEOREM SeidRoundTrip ==
  ASSUME NEW part \in Parts, NEW local \in 0 .. SeidLocalSize - 1
  PROVE  /\ v_seid_encode(part, local) \in Nat
         /\ v_seid_validate(v_seid_encode(part, local)) = part
         /\ v_seid_local(v_seid_encode(part, local)) = local
<1> DEFINE L == SeidLocalSize
           P == PartSize
           R == SeidRsvSize
           F == V_SEID_FMT_VER
           low == part * L + local
           s == v_seid_encode(part, local)
<1>1. L \in Nat \ {0} /\ P \in Nat \ {0} /\ R \in Nat \ {0} /\ F \in Nat
  BY Sizes
<1>2. part \in 0 .. P - 1 /\ local \in 0 .. L - 1
  BY Sizes DEF Parts
<1>3. s = F * (R * (P * L)) + part * L + local
  BY Sizes DEF v_seid_encode, Parts, SeidFmtUnit, SeidRsvUnit
<1> HIDE DEF L, P, R, F, s
<1>4. low \in 0 .. P * L - 1 /\ P * L \in Nat \ {0}
  BY <1>1, <1>2, TwoFields, Product
<1>5. R * (P * L) \in Nat \ {0} /\ P * L <= R * (P * L)
  BY <1>1, <1>4, Product
<1>6. s = F * (R * (P * L)) + low /\ s \in Nat
  <2>1. part * L \in Nat /\ local \in Nat /\ F * (R * (P * L)) \in Nat
    BY <1>1, <1>2, <1>5
  <2> QED
    BY <2>1, <1>3
<1>7. s \div (R * (P * L)) = F
  <2> HIDE DEF low
  <2>1. low \in 0 .. R * (P * L) - 1
    BY <1>4, <1>5
  <2> QED
    BY <2>1, <1>1, <1>5, <1>6, DivMod
<1>8. (s \div (P * L)) % R = 0
  <2>1. F * R \in Nat /\ s = (F * R) * (P * L) + low
    BY <1>1, <1>4, <1>6
  <2>2. s \div (P * L) = F * R
    BY <2>1, <1>4, DivMod
  <2>3. (F * R + 0) % R = 0
    BY <1>1, DivMod
  <2>4. F * R + 0 = F * R
    BY <2>1
  <2> QED
    BY <2>2, <2>3, <2>4
<1>9. s \div L = (F * R) * P + part /\ s % L = local
  <2>1. (F * R) * P + part \in Nat
    BY <1>1, <1>2
  <2>2. s = ((F * R) * P + part) * L + local
    BY <1>1, <1>2, <1>3
  <2> QED
    BY <2>1, <2>2, <1>1, <1>2, DivMod
<1>10. (s \div L) % P = part
  <2>1. F * R \in Nat
    BY <1>1
  <2>2. ((F * R) * P + part) % P = part
    BY <2>1, <1>1, <1>2, DivMod
  <2> QED
    BY <2>2, <1>9
<1>11. ~(part >= V_NUM_PARTS)
  BY Sizes DEF Parts
<1>12. s \div SeidFmtUnit = V_SEID_FMT_VER /\ (s \div SeidRsvUnit) % SeidRsvSize = 0
  BY <1>7, <1>8, Zenon DEF L, P, R, F, SeidFmtUnit, SeidRsvUnit
<1>13. v_seid_part(s) = part /\ v_seid_local(s) = local
  BY <1>9, <1>10, Zenon DEF L, P, v_seid_part, v_seid_local
<1>14. v_seid_validate(s) = part
  BY <1>11, <1>12, <1>13, Zenon DEF v_seid_validate
<1> QED
  BY <1>6, <1>13, <1>14, Zenon DEF s

(* v_seid_validate(): no other word passes.  What the handlers accept from *)
(* the SMF is a SEID that v_seid_encode() makes for the partition found,   *)
(* which is in range before anything is indexed with it.                   *)
THEOREM SeidAccepted ==
  ASSUME NEW seid \in Nat, v_seid_validate(seid) # Err
  PROVE  /\ v_seid_validate(seid) \in Parts
         /\ v_seid_encode(v_seid_validate(seid), v_seid_local(seid)) = seid
<1> DEFINE L == SeidLocalSize
           P == PartSize
           R == SeidRsvSize
           F == V_SEID_FMT_VER
           part == (seid \div L) % P
           local == seid % L
           high == seid \div (P * L)
<1>1. L \in Nat \ {0} /\ P \in Nat \ {0} /\ R \in Nat \ {0} /\ F \in Nat
  BY Sizes
<1>2. /\ seid \div (R * (P * L)) = F /\ high % R = 0
      /\ ~(part >= V_NUM_PARTS) /\ v_seid_validate(seid) = part
  BY Zenon DEF v_seid_validate, v_seid_part, SeidFmtUnit, SeidRsvUnit
<1>3. local = v_seid_local(seid)
  BY DEF v_seid_local
<1> HIDE DEF L, P, R, F
<1>4. local \in 0 .. L - 1 /\ seid \div L \in Nat /\ seid = (seid \div L) * L + local
  BY <1>1, Rejoin
<1>5. part \in 0 .. P - 1 /\ (seid \div L) \div P \in Nat
      /\ seid \div L = ((seid \div L) \div P) * P + part
  BY <1>1, <1>4, Rejoin
<1> DEFINE q == (seid \div L) \div P
           low == part * L + local
<1>6. low \in 0 .. P * L - 1 /\ P * L \in Nat \ {0}
  <2> HIDE DEF part, local
  <2> QED BY <1>1, <1>4, <1>5, TwoFields, Product
<1>7. seid = q * (P * L) + low
  <2> HIDE DEF part, local, q
  <2>1. q \in Nat /\ part \in Nat /\ local \in Nat /\ seid \div L = q * P + part
    BY <1>1, <1>4, <1>5 DEF q
  <2>2. seid = (q * P + part) * L + local
    BY <2>1, <1>4
  <2> QED
    BY <2>1, <2>2, <1>1
<1>8. high = q
  <2> HIDE DEF low
  <2>1. q \in Nat
    BY <1>5
  <2> HIDE DEF q
  <2> QED
    BY <2>1, <1>6, <1>7, DivMod
<1>9. q = F * R
  <2> HIDE DEF low, high
  <2>1. q \in Nat /\ q % R = 0
    BY <1>2, <1>5, <1>8
  <2> HIDE DEF q
  <2>2. q \div R \in Nat /\ q = (q \div R) * R
    <3>1. q \div R \in Nat /\ q = (q \div R) * R + (q % R)
      BY <2>1, <1>1, Rejoin
    <3>2. (q \div R) * R \in Nat
      BY <3>1, <1>1
    <3> QED
      BY <2>1, <3>1, <3>2
  <2> DEFINE k == q \div R
  <2> HIDE DEF k
  <2>3. k \in Nat /\ q = k * R
    BY <2>2 DEF k
  <2>4. R * (P * L) \in Nat \ {0} /\ P * L <= R * (P * L)
    BY <1>1, <1>6, Product
  <2>5. seid = k * (R * (P * L)) + low
    BY <2>3, <1>1, <1>6, <1>7
  <2>6. seid \div (R * (P * L)) = k
    BY <2>3, <2>4, <2>5, <1>6, DivMod
  <2> QED
    BY <2>3, <2>6, <1>2
<1>10. seid = F * (R * (P * L)) + part * L + local
  <2> HIDE DEF part, local, q, high
  <2>1. part \in Nat /\ local \in Nat
    BY <1>4, <1>5
  <2> QED
    BY <2>1, <1>1, <1>6, <1>7, <1>9 DEF low
<1> QED
  <2>1. part \in Nat /\ local < L /\ V_NUM_PARTS \in Nat
    BY <1>1, <1>4, <1>5, Sizes
  <2> QED
    BY <2>1, <1>2, <1>3, <1>10, Sizes
    DEF v_seid_encode, SeidFmtUnit, SeidRsvUnit, Parts, L, P, R, F

(* v_teid_encode() and v_teid_validate(): the same for TEIDs, and 0 is     *)
(* never made.                                                             *)
THEOREM TeidRoundTrip ==
  ASSUME NEW part \in Parts, NEW local \in 1 .. TeidLocalSize - 1
  PROVE  /\ v_teid_encode(part, local) \in Nat \ {0}
         /\ v_teid_validate(v_teid_encode(part, local)) = part
         /\ v_teid_local(v_teid_encode(part, local)) = local
<1> DEFINE L == TeidLocalSize
           P == PartSize
           t == v_teid_encode(part, local)
<1>1. L \in Nat \ {0} /\ P \in Nat \ {0}
  BY Sizes
<1>2. part \in 0 .. P - 1 /\ local \in 0 .. L - 1
  BY Sizes DEF Parts
<1>3. t = part * L + local
  BY Sizes DEF v_teid_encode, Parts
<1> HIDE DEF L, P, t
<1>4. t \in 0 .. P * L - 1 /\ P * L \in Nat \ {0}
  BY <1>1, <1>2, <1>3, TwoFields, Product
<1>5. t \div L = part /\ t % L = local
  BY <1>1, <1>2, <1>3, DivMod
<1>6. t # 0
  BY <1>1, <1>2, <1>3
<1>7. t \div (P * L) = 0
  <2>1. t = 0 * (P * L) + t
    BY <1>4
  <2> QED
    BY <2>1, <1>4, DivMod
<1>8. part % P = part /\ ~(part >= V_NUM_PARTS)
  BY <1>1, <1>2, Sizes DEF Parts
<1>9. v_teid_part(t) = part /\ v_teid_local(t) = local /\ t \div TeidRsvUnit = 0
  BY <1>5, <1>7, <1>8, Zenon DEF L, P, v_teid_part, v_teid_local, TeidRsvUnit
<1>10. v_teid_validate(t) = part
  BY <1>6, <1>8, <1>9, Zenon DEF v_teid_validate
<1>11. t \in Nat \ {0}
  BY <1>4, <1>6
<1> QED
  BY <1>9, <1>10, <1>11, Zenon DEF t
=============================================================================
