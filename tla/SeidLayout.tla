----------------------------- MODULE SeidLayout -----------------------------
(***************************************************************************)
(* v_seid.c: how a partition and a local index are packed into a SEID or a *)
(* TEID, taken apart again and validated.                                  *)
(*                                                                         *)
(* A field of n bits is given by its size 2^n, so a shift by the fields    *)
(* below is a product or a quotient of sizes and a mask a remainder.  The  *)
(* encoders join disjoint fields, for which | is a sum.                    *)
(***************************************************************************)
EXTENDS Integers

CONSTANTS
  V_NUM_PARTS,
  PartSize,        \* V_SEID_PART_MASK + 1 and V_TEID_PART_MASK + 1
  SeidLocalSize,   \* V_SEID_LOCAL_MASK + 1
  TeidLocalSize,   \* V_TEID_LOCAL_MASK + 1
  SeidRsvSize,     \* V_SEID_RSV_MASK + 1
  V_SEID_FMT_VER

ASSUME LayoutAssumption ==
  /\ {PartSize, SeidLocalSize, TeidLocalSize, SeidRsvSize} \subseteq Nat \ {0}
  /\ V_NUM_PARTS \in 1 .. PartSize
  /\ V_SEID_FMT_VER \in Nat

Parts == 0 .. V_NUM_PARTS - 1

(* RET_CODE_ERR: nothing is written to the output parameter.               *)
Err == -1

(* 1 << V_SEID_RSV_SHIFT, 1 << V_SEID_FMT_SHIFT and 1 << V_TEID_RSV_SHIFT. *)
SeidRsvUnit == PartSize * SeidLocalSize
SeidFmtUnit == SeidRsvSize * SeidRsvUnit
TeidRsvUnit == PartSize * TeidLocalSize

v_seid_encode(part, local) ==
  IF part >= V_NUM_PARTS \/ local >= SeidLocalSize THEN Err
  ELSE V_SEID_FMT_VER * SeidFmtUnit + part * SeidLocalSize + local

v_seid_part(seid) == (seid \div SeidLocalSize) % PartSize

v_seid_local(seid) == seid % SeidLocalSize

(* Mutant of v_teid_encode: the local index is not checked for overflow.   *)
TeidEncodeUnchecked(part, local) ==
  IF part >= V_NUM_PARTS \/ local = 0 THEN Err ELSE part * TeidLocalSize + local

v_teid_encode(part, local) ==
  IF part >= V_NUM_PARTS \/ local = 0 \/ local >= TeidLocalSize THEN Err
  ELSE part * TeidLocalSize + local

v_teid_part(teid) == (teid \div TeidLocalSize) % PartSize

v_teid_local(teid) == teid % TeidLocalSize

(* The partition of a SEID that was received, or Err.                      *)
v_seid_validate(seid) ==
  IF \/ seid \div SeidFmtUnit # V_SEID_FMT_VER
     \/ (seid \div SeidRsvUnit) % SeidRsvSize # 0
     \/ v_seid_part(seid) >= V_NUM_PARTS
  THEN Err ELSE v_seid_part(seid)

v_teid_validate(teid) ==
  IF teid = 0 \/ teid \div TeidRsvUnit # 0 \/ v_teid_part(teid) >= V_NUM_PARTS
  THEN Err ELSE v_teid_part(teid)
=============================================================================
