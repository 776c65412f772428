------------------------------ MODULE IdAlloc ------------------------------
(***************************************************************************)
(* v_id_alloc.c: SEID and TEID rings filled with blocks leased from Redis. *)
(* Partitions share nothing (each has its own rings, flags and keys), so   *)
(* one is modelled: its ring pair in every pod, the counters and the TEID  *)
(* free list in Redis, and every pod's connection to the shard that holds  *)
(* them.  Redis knows local indices; rings and callers hold the words that *)
(* SeidLayout makes of them.                                               *)
(*                                                                         *)
(* Any lcore of a pod may allocate.  seid_maybe_refill() and               *)
(* teid_maybe_refill() test the ring and the in-flight flag in one step    *)
(* and set the flag in another, as nothing in the code joins them; the     *)
(* rings themselves are multi-producer and multi-consumer.                 *)
(***************************************************************************)
EXTENDS Integers, Sequences, FiniteSets, SeidLayout

CONSTANTS
  Pod,                \* replicas of the service
  Lcore,              \* lcores of one pod that allocate
  V_ID_BLK_SIZE,      \* v_id_alloc.h
  V_ID_WATERMARK,
  V_TEID_FREE_FLOOR,
  RingCap,            \* entries a ring of V_ID_RING_SIZE holds
  Part,               \* the partition
  MaxNext,            \* bound: callers stop asking once the counter is here
  Faults              \* the failures the environment may produce

ASSUME SizeAssumption ==
  /\ {V_ID_BLK_SIZE, V_ID_WATERMARK, RingCap} \subseteq Nat \ {0}
  /\ {V_TEID_FREE_FLOOR, MaxNext} \subseteq Nat /\ Part \in Parts
  /\ V_ID_WATERMARK - 1 + V_ID_BLK_SIZE <= RingCap

ASSUME IdFaultAssumption == Faults \subseteq {"dispatch", "disconnect", "crash"}

Kind == {"SEID", "TEID"}

(* An lcore that is not allocating.                                        *)
Resting == <<"idle", "none">>
Local == Nat
Word == Nat

VARIABLES
  seidNext,   \* Redis: vpe:seid:<part>:next, 0 when the key is absent
  teidNext,   \* Redis: vpe:teid:<part>:next, 0 when the key is absent
  teidFree,   \* Redis: the list vpe:teid:<part>:free
  phase,      \* of each pod: "down", "refill" (before readiness) or "up"
  ring,       \* g_seid_ring and g_teid_ring
  inflight,   \* g_seid_refill_inflight and g_teid_refill_inflight
  seeded,     \* g_teid_next_seeded
  pc,         \* of each lcore: Resting, or what is left of an allocation
  conn,       \* commands sent to the shard and not executed yet, in order
  replies,    \* refill replies on their way back, in order
  held        \* identifiers that callers hold: all SEIDs ever, TEIDs until freed

redis == <<seidNext, teidNext, teidFree>>
vars  == <<seidNext, teidNext, teidFree, phase, ring, inflight, seeded, pc,
           conn, replies, held>>

Command == [op : {"SETNX", "INCRBY", "REFILL", "RPUSH"}, id : Local]
Refill == [kind : Kind, ids : Seq(Local)]

(* Types, and no ring holds more than it can (rte_ring_enqueue() refuses): *)
(* the state of v_id_alloc.c, its keys in Redis and its connections.       *)
IdTypeOK ==
  /\ seidNext \in Nat /\ teidNext \in Nat /\ teidFree \in Seq(Local)
  /\ phase \in [Pod -> {"down", "refill", "up"}]
  /\ ring \in [Kind -> [Pod -> Seq(Word)]]
  /\ \A k \in Kind, p \in Pod : Len(ring[k][p]) <= RingCap
  /\ inflight \in [Kind -> [Pod -> BOOLEAN]]
  /\ seeded \in [Pod -> BOOLEAN]
  /\ pc \in [Pod \X Lcore -> {Resting} \cup ({"claim", "take"} \X Kind)]
  /\ conn \in [Pod -> Seq(Command)]
  /\ replies \in [Pod -> Seq(Refill)]
  /\ held \in [Kind -> SUBSET Word]

Leased(k) == IF k = "SEID" THEN seidNext ELSE teidNext

CanFail(kind) == kind \in Faults

Min2(a, b) == IF a < b THEN a ELSE b

Cmd(op, id) == [op |-> op, id |-> id]

-----------------------------------------------------------------------------
(* Refilling.                                                              *)

(* Mutant of WantsRefill: the in-flight flag is not looked at.             *)
WantsRefillAgain(p, k) == Len(ring[k][p]) < V_ID_WATERMARK

(* The two early returns of seid_maybe_refill() and teid_maybe_refill().   *)
WantsRefill(p, k) == Len(ring[k][p]) < V_ID_WATERMARK /\ ~inflight[k][p]

(* A command either reaches the connection or fails to be dispatched.      *)
Attempt(op, id) ==
  {<< Cmd(op, id) >>} \cup (IF CanFail("dispatch") THEN {<< >>} ELSE {})

(* Mutant of RefillSends: the counter is seeded after the first refill.    *)
RefillSendsUnseeded(p, k) ==
  IF k = "SEID" THEN Attempt("INCRBY", 0)
  ELSE {r \o s : s \in IF seeded[p] THEN {<< >>} ELSE Attempt("SETNX", 0),
                 r \in Attempt("REFILL", 0)}

(* What seid_maybe_refill() or teid_maybe_refill() may put on the          *)
(* connection.  A pod's first TEID refill also seeds the counter, so that  *)
(* local index 0 stays unused; whether that was sent is not looked at.     *)
RefillSends(p, k) ==
  IF k = "SEID" THEN Attempt("INCRBY", 0)
  ELSE {s \o r : s \in IF seeded[p] THEN {<< >>} ELSE Attempt("SETNX", 0),
                 r \in Attempt("REFILL", 0)}

(* The in-flight flag is taken back when the refill was not dispatched.    *)
Refilling(sent) == \E i \in DOMAIN sent : sent[i].op \in {"INCRBY", "REFILL"}

(* v_id_alloc_init(): fresh rings, and an initial refill of both.          *)
v_id_alloc_init(p) ==
  /\ phase[p] = "down" /\ seidNext < MaxNext /\ teidNext < MaxNext
  /\ phase' = [phase EXCEPT ![p] = "refill"]
  /\ seeded' = [seeded EXCEPT ![p] = TRUE]
  /\ \E s \in RefillSends(p, "SEID"), t \in RefillSends(p, "TEID") :
       /\ conn' = [conn EXCEPT ![p] = @ \o s \o t]
       /\ inflight' = [inflight EXCEPT !["SEID"][p] = Refilling(s),
                                       !["TEID"][p] = Refilling(t)]
  /\ UNCHANGED <<redis, ring, pc, replies, held>>

(* v_id_alloc_ready(), as main() waits for it before launching workers.    *)
v_id_alloc_ready(p) ==
  /\ phase[p] = "refill"
  /\ \A k \in Kind : ring[k][p] # << >>
  /\ phase' = [phase EXCEPT ![p] = "up"]
  /\ UNCHANGED <<redis, ring, inflight, seeded, pc, conn, replies, held>>

(* The pod exits: it was killed, or main() gave up waiting for readiness   *)
(* because an initial refill failed, which nothing retries.                *)
Exit(p) ==
  /\ \/ CanFail("crash") /\ phase[p] # "down"
     \/ /\ phase[p] = "refill"
        /\ \E k \in Kind : ring[k][p] = << >> /\ ~inflight[k][p]
  /\ phase' = [phase EXCEPT ![p] = "down"]
  /\ ring' = [k \in Kind |-> [ring[k] EXCEPT ![p] = << >>]]
  /\ inflight' = [k \in Kind |-> [inflight[k] EXCEPT ![p] = FALSE]]
  /\ seeded' = [seeded EXCEPT ![p] = FALSE]
  /\ pc' = [x \in Pod \X Lcore |-> IF x[1] = p THEN Resting ELSE pc[x]]
  /\ conn' = [conn EXCEPT ![p] = << >>]
  /\ replies' = [replies EXCEPT ![p] = << >>]
  /\ UNCHANGED <<redis, held>>

-----------------------------------------------------------------------------
(* Allocation and release.                                                 *)

(* v_seid_alloc() and v_teid_alloc() begin: is a refill wanted?            *)
AllocCheck(p, l, k) ==
  /\ phase[p] = "up" /\ pc[<<p, l>>] = Resting
  /\ Leased(k) < MaxNext
  /\ pc' = [pc EXCEPT ![<<p, l>>] = << IF WantsRefill(p, k) THEN "claim" ELSE "take", k >>]
  /\ UNCHANGED <<redis, phase, ring, inflight, seeded, conn, replies, held>>

AllocClaim(p, l, k) ==
  /\ pc[<<p, l>>] = <<"claim", k>>
  /\ pc' = [pc EXCEPT ![<<p, l>>] = <<"take", k>>]
  /\ \E s \in RefillSends(p, k) :
       /\ conn' = [conn EXCEPT ![p] = @ \o s]
       /\ inflight' = [inflight EXCEPT ![k][p] = Refilling(s)]
  /\ seeded' = [seeded EXCEPT ![p] = @ \/ k = "TEID"]
  /\ UNCHANGED <<redis, phase, ring, replies, held>>

(* The dequeue; a dry ring yields 0 and the caller gives up.               *)
AllocTake(p, l, k) ==
  /\ pc[<<p, l>>] = <<"take", k>>
  /\ pc' = [pc EXCEPT ![<<p, l>>] = Resting]
  /\ IF ring[k][p] = << >> THEN UNCHANGED <<ring, held>>
     ELSE /\ ring' = [ring EXCEPT ![k][p] = Tail(@)]
          /\ held' = [held EXCEPT ![k] = @ \cup {Head(ring[k][p])}]
  /\ UNCHANGED <<redis, phase, inflight, seeded, conn, replies>>

(* v_teid_free(): any pod may give back a TEID that its session held.      *)
v_teid_free(p, teid) ==
  /\ phase[p] = "up" /\ teid \in held["TEID"]
  /\ held' = [held EXCEPT !["TEID"] = @ \ {teid}]
  /\ \E s \in Attempt("RPUSH", v_teid_local(teid)) : conn' = [conn EXCEPT ![p] = @ \o s]
  /\ UNCHANGED <<redis, phase, ring, inflight, seeded, pc, replies>>

-----------------------------------------------------------------------------
(* Redis executes the oldest command of pod p's connection.                *)

Block(base) == [i \in 1..V_ID_BLK_SIZE |-> base + i - 1]

(* Mutant of IncrBy: the block starts one before its first identifier.     *)
IncrByOffByOne(p) ==
  /\ seidNext' = seidNext + V_ID_BLK_SIZE
  /\ replies' = [replies EXCEPT ![p] =
                   Append(@, [kind |-> "SEID", ids |-> Block(seidNext' - V_ID_BLK_SIZE - 1)])]
  /\ UNCHANGED <<teidNext, teidFree>>

(* INCRBY returns the end of the block; seid_refill_reply_cb() starts      *)
(* V_ID_BLK_SIZE before it.                                                *)
IncrBy(p) ==
  /\ seidNext' = seidNext + V_ID_BLK_SIZE
  /\ replies' = [replies EXCEPT ![p] =
                   Append(@, [kind |-> "SEID", ids |-> Block(seidNext' - V_ID_BLK_SIZE)])]
  /\ UNCHANGED <<teidNext, teidFree>>

SetNx ==
  /\ teidNext' = IF teidNext = 0 THEN 1 ELSE teidNext
  /\ UNCHANGED <<seidNext, teidFree, replies>>

(* Mutant of TeidRefill: the popped entries are read but not removed.      *)
TeidRefillByRange(p) ==
  IF Len(teidFree) > V_TEID_FREE_FLOOR
    THEN /\ replies' = [replies EXCEPT ![p] =
                          Append(@, [kind |-> "TEID", ids |-> SubSeq(teidFree, 1, 1)])]
         /\ UNCHANGED redis
    ELSE /\ teidNext' = teidNext + V_ID_BLK_SIZE
         /\ replies' = [replies EXCEPT ![p] =
                          Append(@, [kind |-> "TEID", ids |-> Block(teidNext)])]
         /\ UNCHANGED <<seidNext, teidFree>>

(* Mutant of TeidRefill: the free list is used whatever its depth.         *)
TeidRefillEager(p) ==
  LET n == Min2(Len(teidFree), V_ID_BLK_SIZE) IN
  IF teidFree # << >>
    THEN /\ teidFree' = SubSeq(teidFree, n + 1, Len(teidFree))
         /\ replies' = [replies EXCEPT ![p] =
                          Append(@, [kind |-> "TEID", ids |-> SubSeq(teidFree, 1, n)])]
         /\ UNCHANGED <<seidNext, teidNext>>
    ELSE /\ teidNext' = teidNext + V_ID_BLK_SIZE
         /\ replies' = [replies EXCEPT ![p] =
                          Append(@, [kind |-> "TEID", ids |-> Block(teidNext)])]
         /\ UNCHANGED <<seidNext, teidFree>>

(* V_LUA_TEID_REFILL: a deep enough free list gives up to a block, else    *)
(* the counter is bumped.                                                  *)
TeidRefill(p) ==
  LET n == Min2(Len(teidFree), V_ID_BLK_SIZE) IN
  IF Len(teidFree) > V_TEID_FREE_FLOOR
    THEN /\ teidFree' = SubSeq(teidFree, n + 1, Len(teidFree))
         /\ replies' = [replies EXCEPT ![p] =
                          Append(@, [kind |-> "TEID", ids |-> SubSeq(teidFree, 1, n)])]
         /\ UNCHANGED <<seidNext, teidNext>>
    ELSE /\ teidNext' = teidNext + V_ID_BLK_SIZE
         /\ replies' = [replies EXCEPT ![p] =
                          Append(@, [kind |-> "TEID", ids |-> Block(teidNext)])]
         /\ UNCHANGED <<seidNext, teidFree>>

RPush(d) ==
  /\ teidFree' = Append(teidFree, d)
  /\ UNCHANGED <<seidNext, teidNext, replies>>

RedisExec(p) ==
  /\ conn[p] # << >>
  /\ conn' = [conn EXCEPT ![p] = Tail(@)]
  /\ LET c == Head(conn[p]) IN
       \/ c.op = "INCRBY" /\ IncrBy(p)
       \/ c.op = "SETNX"  /\ SetNx
       \/ c.op = "REFILL" /\ TeidRefill(p)
       \/ c.op = "RPUSH"  /\ RPush(c.id)
  /\ UNCHANGED <<phase, ring, inflight, seeded, pc, held>>

(* The words of uint32_t.                                                  *)
TeidWidth == 2 * TeidRsvUnit

(* seid_refill_reply_cb() encodes the index it is given, enqueue_teid()    *)
(* what is left of it in 32 bits.                                          *)
Encoded(k, i) ==
  IF k = "SEID" THEN v_seid_encode(Part, i) ELSE v_teid_encode(Part, i % TeidWidth)

(* The indices of a reply that can be encoded, and the one order in which  *)
(* the loops of the callbacks meet them.                                   *)
Encodable(k, ids) == {i \in DOMAIN ids : Encoded(k, ids[i]) # Err}

InOrder(S) ==
  {f \in [1..Cardinality(S) -> S] : \A i, j \in DOMAIN f : i < j => f[i] < f[j]}

(* The ring after enqueueing, in that order, until it is full.             *)
Enqueued(k, r, ids, order) ==
  r \o [j \in 1..Min2(Cardinality(Encodable(k, ids)), RingCap - Len(r)) |->
          Encoded(k, ids[order[j]])]

(* Mutant of refill_reply_cb: the flag is only taken back at the end of a  *)
(* reply that brought something.                                           *)
ReplyKeepsFlagIfEmpty(p) ==
  /\ replies[p] # << >>
  /\ LET x == Head(replies[p]) IN
       /\ \E f \in InOrder(Encodable(x.kind, x.ids)) :
            ring' = [ring EXCEPT ![x.kind][p] = Enqueued(x.kind, @, x.ids, f)]
       /\ inflight' = [inflight EXCEPT ![x.kind][p] = @ /\ ring'[x.kind][p] = ring[x.kind][p]]
  /\ replies' = [replies EXCEPT ![p] = Tail(@)]
  /\ UNCHANGED <<redis, phase, seeded, pc, conn, held>>

(* seid_refill_reply_cb() and teid_refill_reply_cb(): take the flag back   *)
(* and enqueue what fits; the rest is dropped with a warning.              *)
refill_reply_cb(p) ==
  /\ replies[p] # << >>
  /\ LET x == Head(replies[p]) IN
       /\ inflight' = [inflight EXCEPT ![x.kind][p] = FALSE]
       /\ \E f \in InOrder(Encodable(x.kind, x.ids)) :
            ring' = [ring EXCEPT ![x.kind][p] = Enqueued(x.kind, @, x.ids, f)]
  /\ replies' = [replies EXCEPT ![p] = Tail(@)]
  /\ UNCHANGED <<redis, phase, seeded, pc, conn, held>>

(* The kinds whose refill is outstanding on pod p's connection.            *)
Outstanding(p) ==
  {k \in Kind :
     \/ \E i \in DOMAIN replies[p] : replies[p][i].kind = k
     \/ \E i \in DOMAIN conn[p] :
          conn[p][i].op = (IF k = "SEID" THEN "INCRBY" ELSE "REFILL")}

(* The connection breaks (and is made again): every outstanding callback   *)
(* is called with an error, which takes its flag back.  Commands that were *)
(* executed stay executed.                                                 *)
Disconnect(p) ==
  /\ CanFail("disconnect")
  /\ conn[p] # << >> \/ replies[p] # << >>
  /\ inflight' = [k \in Kind |-> [inflight[k] EXCEPT ![p] = @ /\ k \notin Outstanding(p)]]
  /\ conn' = [conn EXCEPT ![p] = << >>]
  /\ replies' = [replies EXCEPT ![p] = << >>]
  /\ UNCHANGED <<redis, phase, ring, seeded, pc, held>>

-----------------------------------------------------------------------------
Init ==
  /\ seidNext = 0 /\ teidNext = 0 /\ teidFree = << >>
  /\ phase = [p \in Pod |-> "down"]
  /\ ring = [k \in Kind |-> [p \in Pod |-> << >>]]
  /\ inflight = [k \in Kind |-> [p \in Pod |-> FALSE]]
  /\ seeded = [p \in Pod |-> FALSE]
  /\ pc = [x \in Pod \X Lcore |-> Resting]
  /\ conn = [p \in Pod |-> << >>]
  /\ replies = [p \in Pod |-> << >>]
  /\ held = [k \in Kind |-> {}]

Next ==
  \E p \in Pod :
    \/ v_id_alloc_init(p) \/ v_id_alloc_ready(p) \/ Exit(p)
    \/ RedisExec(p) \/ refill_reply_cb(p) \/ Disconnect(p)
    \/ \E teid \in held["TEID"] : v_teid_free(p, teid)
    \/ \E l \in Lcore, k \in Kind :
         AllocCheck(p, l, k) \/ AllocClaim(p, l, k) \/ AllocTake(p, l, k)

Spec == Init /\ [][Next]_vars

(* Redis executes what it was sent, the event loop delivers replies, and   *)
(* an allocation that began runs on.  Nobody has to allocate or to free.   *)
FairSpec ==
  /\ Spec
  /\ \A p \in Pod : WF_vars(RedisExec(p)) /\ WF_vars(refill_reply_cb(p))
  /\ \A p \in Pod, l \in Lcore, k \in Kind :
       WF_vars(AllocClaim(p, l, k)) /\ WF_vars(AllocTake(p, l, k))

-----------------------------------------------------------------------------
(* Properties.                                                             *)

LocalOf(k, w) == IF k = "SEID" THEN v_seid_local(w) ELSE v_teid_local(w)

(* Where the identifier with local index d is: in rings, in replies, with  *)
(* a caller, in the free list, or on its way there.                        *)
Places(k, d) ==
  (UNION {{<<"ring", p, i>> : i \in {j \in DOMAIN ring[k][p] : LocalOf(k, ring[k][p][j]) = d}}
           : p \in Pod})
  \cup (UNION {UNION {{<<"reply", p, n, i>> :
                          i \in {j \in DOMAIN replies[p][n].ids :
                                   replies[p][n].ids[j] = d}}
                       : n \in {m \in DOMAIN replies[p] : replies[p][m].kind = k}}
               : p \in Pod})
  \cup {<<"held", w>> : w \in {x \in held[k] : LocalOf(k, x) = d}}
  \cup (IF k = "SEID" THEN {} ELSE
          {<<"free", i>> : i \in {j \in DOMAIN teidFree : teidFree[j] = d}}
          \cup (UNION {{<<"conn", p, i>> :
                           i \in {j \in DOMAIN conn[p] :
                                    conn[p][j] = Cmd("RPUSH", d)}} : p \in Pod}))

(* No SEID and no TEID is in two places, in one pod or across pods and     *)
(* restarts, and none beyond the Redis counter exists: two sessions never  *)
(* share an identifier, however refills, frees, crashes and racing         *)
(* allocations interleave (v_id_alloc.c, V_LUA_TEID_REFILL).               *)
IdUnique ==
  \A k \in Kind : \A d \in 0..(Leased(k) + V_ID_BLK_SIZE) :
    Cardinality(Places(k, d)) <= (IF d < Leased(k) THEN 1 ELSE 0)

(* Without failures no leased identifier is lost: a refill is never asked  *)
(* for when its block would not fit in the ring, although the count is     *)
(* read when it is asked for and the block arrives later (the watermark    *)
(* and the in-flight flag of seid_maybe_refill() and teid_maybe_refill()). *)
NothingLost ==
  \A k \in Kind : \A d \in 0..(Leased(k) - 1) :
    Encoded(k, d) # Err => Places(k, d) # {}

(* teid_maybe_refill() sends the SETNX that seeds the counter ahead of the *)
(* pod's first refill and waits for neither: whatever else the connection  *)
(* carries, no block of TEIDs has the reserved local index 0, which could  *)
(* not be encoded.                                                         *)
ZeroReserved ==
  \A p \in Pod : \A n \in DOMAIN replies[p] :
    replies[p][n].kind = "TEID" => \A i \in DOMAIN replies[p][n].ids : replies[p][n].ids[i] # 0

(* What refill_reply_cb() finds in the oldest reply fits in the ring, so   *)
(* the branch that drops identifiers with a warning is not taken: when one *)
(* lcore allocates, the watermark and the in-flight flag see to it, also   *)
(* across failed dispatches, broken connections and restarts.              *)
RepliesFit ==
  \A p \in Pod : replies[p] # << >> =>
    Len(ring[replies[p][1].kind][p]) + Len(replies[p][1].ids) <= RingCap

(* TEID quarantine: an entry leaves the free list only when so many TEIDs  *)
(* were freed after it.  V_LUA_TEID_REFILL compares the length with the    *)
(* floor once, and then pops up to a block.                                *)
Quarantine(depth) ==
  \A i \in DOMAIN teidFree :
    (\A j \in DOMAIN teidFree' : teidFree'[j] # teidFree[i])
      => Len(teidFree) - i >= depth

(* What the script guarantees: the floor less the rest of the block.       *)
QuarantineLessBlock == [][Quarantine(V_TEID_FREE_FLOOR + 1 - V_ID_BLK_SIZE)]_vars

(* v_seid_encode() and v_teid_encode(), as v_id_alloc.c calls them: every  *)
(* SEID and TEID a pod can hand out, also when the counters run past the   *)
(* local field, is valid, is in the pod's partition and was leased.        *)
IdsValid ==
  \A k \in Kind :
    \A w \in held[k] \cup UNION {{ring[k][p][i] : i \in DOMAIN ring[k][p]} : p \in Pod} :
      /\ IF k = "SEID" THEN v_seid_validate(w) = Part ELSE v_teid_validate(w) = Part
      /\ LocalOf(k, w) < Leased(k)

(* A refill in flight ends, whether it brought anything or the identifiers *)
(* are exhausted or the connection broke: a partition is never wedged with *)
(* its flag set and no refill outstanding (g_seid_refill_inflight and      *)
(* g_teid_refill_inflight).                                                *)
RefillEnds ==
  \A p \in Pod, k \in Kind : inflight[k][p] ~> ~inflight[k][p]
=============================================================================
