------------------------------ MODULE Dispatch ------------------------------
(***************************************************************************)
(* The lcores of one pod and what passes between them: v_dispatch.c's two  *)
(* rings and their common message pool, main.c's loops, the entry of       *)
(* v_flow.c, v_stub_txn.c's slot table and v_stub_pfcp.c's message pool.   *)
(*                                                                         *)
(* The I/O lcore receives, runs the Redis callbacks that finish requests,  *)
(* and sends; any worker may handle any datagram.  DPDK pools and rings    *)
(* are safe to share, so one get, put, enqueue or dequeue is one step.     *)
(* The slot table is not: v_port_txn_create() looks for a free slot in one *)
(* step and fills it in a later one.                                       *)
(***************************************************************************)
EXTENDS Integers, Sequences, FiniteSetsExt

CONSTANTS
  Worker,     \* lcores that run worker_main()
  Io,         \* the main lcore
  RingSize,   \* V_DISPATCH_RING_SIZE
  PfcpCap,    \* V_STUB_PFCP_MSG_POOL_CAP
  TxnCap,     \* V_STUB_TXN_CAP
  MaxRx,      \* bound: datagrams that arrive
  Faults      \* the failures the environment may produce

ASSUME DispatchAssumption ==
  /\ {RingSize, PfcpCap, TxnCap} \subseteq Nat \ {0}
  /\ MaxRx \in Nat /\ IsFiniteSet(Worker) /\ Io \notin Worker

ASSUME DispatchFaultAssumption == Faults \subseteq {"oversize", "dispatch", "unanswered"}

Lcore == Worker \cup {Io}

(* Datagrams are numbered as they arrive; a reply has its request's number.*)
Datagram == 1 .. MaxRx

VARIABLES
  poolFree,   \* objects left in v_dispatch.c's g_msg_pool
  rx, tx,     \* g_rx_ring and g_tx_ring
  pfcpFree,   \* objects left in v_stub_pfcp.c's g_msg_pool
  txnFree,    \* objects left in v_stub_txn.c's g_pool
  slots,      \* g_slots, 0 for NULL
  live,       \* requests whose transaction waits for Redis or the VDP
  lcore,      \* what each lcore is about to do, and for which datagram
  arrived,    \* how many datagrams have arrived
  ended       \* datagrams that were dropped, or whose reply was sent or lost

rings == <<rx, tx>>
txns  == <<pfcpFree, txnFree, slots, live>>
vars  == <<poolFree, rings, txns, lcore, arrived, ended>>

(* A worker in any step but "idle" holds the datagram's message object.    *)
(* "txput" and "send" hold an outbound one, "rxput" an inbound one.        *)
Step == {"idle", "rxput", "handle", "claim", "start", "tx", "txput",
         "destroy", "send", "release"}

At(step, m, i) == [at |-> step, msg |-> m, slot |-> i]
Idle == At("idle", 0, 0)

(* Types, and rings and pools within their sizes: the state shared by the  *)
(* lcores of a pod in v_dispatch.c, v_stub_txn.c and v_stub_pfcp.c.        *)
DispatchTypeOK ==
  /\ poolFree \in 0 .. 2 * RingSize
  /\ rx \in Seq(Datagram) /\ Len(rx) < RingSize
  /\ tx \in Seq(Datagram) /\ Len(tx) < RingSize
  /\ pfcpFree \in 0 .. PfcpCap /\ txnFree \in 0 .. TxnCap
  /\ slots \in [1 .. TxnCap -> Datagram \cup {0}]
  /\ live \subseteq Datagram
  /\ lcore \in [Lcore -> [at : Step, msg : Datagram \cup {0}, slot : 0 .. TxnCap]]
  /\ arrived \in 0 .. MaxRx
  /\ ended \subseteq Datagram

(* Mutant of PoolCap: one ring's worth of messages for both rings.         *)
PoolCapHalf == RingSize

(* V_DISPATCH_POOL_CAP.                                                    *)
PoolCap == 2 * RingSize

(* Mutant of Full: all n entries of a ring are used.                       *)
FullAtSize(ring) == Len(ring) = RingSize

(* A DPDK ring of size n holds n - 1 entries.                              *)
Full(ring) == Len(ring) = RingSize - 1

Moves(l, to) == lcore' = [lcore EXCEPT ![l] = to]
Ends(m) == ended' = ended \cup {m}

(* v_dispatch_init(), v_port_txn_init() and ensure_msg_pool().             *)
Init ==
  /\ poolFree = PoolCap /\ rx = << >> /\ tx = << >>
  /\ pfcpFree = PfcpCap /\ txnFree = TxnCap
  /\ slots = [i \in 1 .. TxnCap |-> 0]
  /\ live = {}
  /\ lcore = [l \in Lcore |-> Idle]
  /\ arrived = 0
  /\ ended = {}

-----------------------------------------------------------------------------
(* Receiving, on the I/O lcore.                                            *)

(* v_dispatch_rx() up to its ring: an oversized datagram, or one that      *)
(* finds the pool empty, is dropped.                                       *)
v_dispatch_rx ==
  /\ lcore[Io] = Idle /\ arrived < MaxRx
  /\ arrived' = arrived + 1
  /\ \E fits \in IF "oversize" \in Faults THEN BOOLEAN ELSE {TRUE} :
       IF fits /\ poolFree > 0
       THEN /\ poolFree' = poolFree - 1
            /\ Moves(Io, At("rxput", arrived', 0)) /\ UNCHANGED ended
       ELSE Ends(arrived') /\ UNCHANGED <<poolFree, lcore>>
  /\ UNCHANGED <<rings, txns>>

(* Mutant of RxEnqueue: the message of a full ring is not put back.        *)
RxEnqueueLeak ==
  LET m == lcore[Io].msg IN
  /\ lcore[Io].at = "rxput"
  /\ IF Full(rx) THEN Ends(m) /\ UNCHANGED <<rx, poolFree>>
     ELSE rx' = Append(rx, m) /\ UNCHANGED <<poolFree, ended>>
  /\ Moves(Io, Idle)
  /\ UNCHANGED <<tx, txns, arrived>>

(* v_dispatch_rx() from there: a full ring drops the datagram.             *)
RxEnqueue ==
  LET m == lcore[Io].msg IN
  /\ lcore[Io].at = "rxput"
  /\ IF Full(rx)
     THEN Ends(m) /\ poolFree' = poolFree + 1 /\ UNCHANGED rx
     ELSE rx' = Append(rx, m) /\ UNCHANGED <<poolFree, ended>>
  /\ Moves(Io, Idle)
  /\ UNCHANGED <<tx, txns, arrived>>

-----------------------------------------------------------------------------
(* Handling, on a worker.                                                  *)

(* Mutant of Taken: the datagram stays in the ring while it is handled.    *)
TakenLate(ring) == ring

(* rte_ring_dequeue().                                                     *)
Taken(ring) == Tail(ring)

(* v_dispatch_worker_poll() takes a datagram off the ring.                 *)
Dequeue(w) ==
  /\ lcore[w] = Idle /\ rx # << >>
  /\ Moves(w, At("handle", Head(rx), 0))
  /\ rx' = Taken(rx)
  /\ UNCHANGED <<poolFree, tx, txns, arrived, ended>>

FreeSlots == {i \in 1 .. TxnCap : slots[i] = 0}

(* The scan of v_port_txn_create().                                        *)
FirstFree == Min(FreeSlots)

(* v_flow_handle_msg(): v_port_pfcp_decode() refuses the datagram or its   *)
(* type is not handled or there is no free slot, so it is dropped; or its  *)
(* header SEID is invalid and reply_ctx_not_found() answers; or a slot for *)
(* a transaction was found.                                                *)
v_flow_handle_msg(w) ==
  LET m == lcore[w].msg IN
  /\ lcore[w].at = "handle"
  /\ \/ /\ Ends(m) /\ Moves(w, At("release", 0, 0))
        /\ UNCHANGED pfcpFree
     \/ /\ pfcpFree > 0 /\ pfcpFree' = pfcpFree - 1
        /\ Moves(w, At("tx", m, 0)) /\ UNCHANGED ended
     \/ /\ pfcpFree > 0 /\ pfcpFree' = pfcpFree - 1 /\ FreeSlots # {}
        /\ Moves(w, At("claim", m, FirstFree)) /\ UNCHANGED ended
  /\ UNCHANGED <<poolFree, rings, txnFree, slots, live, arrived>>

(* v_port_txn_create() after its scan.                                     *)
v_port_txn_create(w) ==
  LET m == lcore[w].msg IN
  /\ lcore[w].at = "claim"
  /\ IF txnFree > 0
     THEN /\ txnFree' = txnFree - 1
          /\ slots' = [slots EXCEPT ![lcore[w].slot] = m]
          /\ Moves(w, At("start", m, 0)) /\ UNCHANGED <<pfcpFree, ended>>
     ELSE /\ pfcpFree' = pfcpFree + 1
          /\ Ends(m) /\ Moves(w, At("release", 0, 0))
          /\ UNCHANGED <<txnFree, slots>>
  /\ UNCHANGED <<poolFree, rings, live, arrived>>

(* Mutant of Destroyed: the object is put back and its slot is kept.       *)
DestroyedKeepsSlot(m) == txnFree' = txnFree + 1 /\ UNCHANGED slots

(* v_port_txn_destroy(): slot_of() must find the transaction.              *)
Destroyed(m) ==
  IF \E i \in 1 .. TxnCap : slots[i] = m
  THEN /\ slots' = [i \in 1 .. TxnCap |-> IF slots[i] = m THEN 0 ELSE slots[i]]
       /\ txnFree' = txnFree + 1
  ELSE UNCHANGED <<slots, txnFree>>

(* handle_establishment() and the others: the lookup is sent, or cannot be *)
(* and the request is dropped without a reply.                             *)
Start(w) ==
  LET m == lcore[w].msg IN
  /\ lcore[w].at = "start"
  /\ \/ /\ live' = live \cup {m}
        /\ UNCHANGED <<pfcpFree, txnFree, slots, ended>>
     \/ /\ "dispatch" \in Faults
        /\ pfcpFree' = pfcpFree + 1 /\ Destroyed(m)
        /\ Ends(m) /\ UNCHANGED live
  /\ Moves(w, At("release", 0, 0))
  /\ UNCHANGED <<poolFree, rings, arrived>>

(* v_dispatch_worker_poll() releases the datagram after its handler.       *)
Release(w) ==
  /\ lcore[w].at = "release"
  /\ poolFree' = poolFree + 1
  /\ Moves(w, Idle)
  /\ UNCHANGED <<rings, txns, arrived, ended>>

-----------------------------------------------------------------------------
(* Replying, on a worker (reply_ctx_not_found) or the I/O lcore (finish).  *)

(* What follows v_dispatch_tx_enqueue(), whatever it returned: a worker    *)
(* frees the decoded message, finish() also its transaction.               *)
AfterTx(l) ==
  IF l = Io THEN Moves(l, At("destroy", lcore[l].msg, 0)) /\ UNCHANGED pfcpFree
  ELSE Moves(l, At("release", 0, 0)) /\ pfcpFree' = pfcpFree + 1

(* v_dispatch_tx_enqueue() up to its ring.                                 *)
v_dispatch_tx_enqueue(l) ==
  /\ lcore[l].at = "tx"
  /\ IF poolFree > 0
     THEN /\ poolFree' = poolFree - 1
          /\ Moves(l, At("txput", lcore[l].msg, 0)) /\ UNCHANGED <<pfcpFree, ended>>
     ELSE Ends(lcore[l].msg) /\ AfterTx(l) /\ UNCHANGED poolFree
  /\ UNCHANGED <<rings, txnFree, slots, live, arrived>>

(* v_dispatch_tx_enqueue() from there: a full ring drops the reply.        *)
TxEnqueue(l) ==
  /\ lcore[l].at = "txput"
  /\ IF Full(tx)
     THEN Ends(lcore[l].msg) /\ poolFree' = poolFree + 1 /\ UNCHANGED tx
     ELSE tx' = Append(tx, lcore[l].msg) /\ UNCHANGED <<poolFree, ended>>
  /\ AfterTx(l)
  /\ UNCHANGED <<rx, txnFree, slots, live, arrived>>

(* v_port_db_poll() runs the callback that ends a request: finish() up to  *)
(* its v_dispatch_tx_enqueue().  A reply that cannot be encoded is not     *)
(* sent, and neither is one after the hard timeout.                        *)
Finish(m) ==
  /\ lcore[Io] = Idle /\ m \in live
  /\ live' = live \ {m}
  /\ \/ Moves(Io, At("tx", m, 0)) /\ UNCHANGED ended
     \/ "unanswered" \in Faults /\ Moves(Io, At("destroy", m, 0)) /\ Ends(m)
  /\ UNCHANGED <<poolFree, rings, pfcpFree, txnFree, slots, arrived>>

(* finish() from there: v_port_pfcp_msg_free() and v_port_txn_destroy().   *)
FinishEnds ==
  /\ lcore[Io].at = "destroy"
  /\ pfcpFree' = pfcpFree + 1 /\ Destroyed(lcore[Io].msg)
  /\ Moves(Io, Idle)
  /\ UNCHANGED <<poolFree, rings, live, arrived, ended>>

(* Mutant of v_dispatch_io_drain_tx: the last reply waits for another.     *)
DrainKeepsOne ==
  /\ lcore[Io] = Idle /\ Len(tx) > 1
  /\ Moves(Io, At("send", Head(tx), 0))
  /\ tx' = Tail(tx)
  /\ UNCHANGED <<poolFree, rx, txns, arrived, ended>>

(* v_dispatch_io_drain_tx() takes a reply off the ring,                    *)
v_dispatch_io_drain_tx ==
  /\ lcore[Io] = Idle /\ tx # << >>
  /\ Moves(Io, At("send", Head(tx), 0))
  /\ tx' = Tail(tx)
  /\ UNCHANGED <<poolFree, rx, txns, arrived, ended>>

(* sends it (a failure is only logged) and releases the message.           *)
Send ==
  /\ lcore[Io].at = "send"
  /\ Ends(lcore[Io].msg)
  /\ poolFree' = poolFree + 1
  /\ Moves(Io, Idle)
  /\ UNCHANGED <<rings, txns, arrived>>

-----------------------------------------------------------------------------

WorkerStep(w) ==
  \/ Dequeue(w) \/ v_flow_handle_msg(w) \/ v_port_txn_create(w)
  \/ Start(w) \/ Release(w) \/ v_dispatch_tx_enqueue(w) \/ TxEnqueue(w)

IoStep ==
  \/ RxEnqueue \/ v_dispatch_tx_enqueue(Io) \/ TxEnqueue(Io) \/ FinishEnds
  \/ v_dispatch_io_drain_tx \/ Send
  \/ \E m \in Datagram : Finish(m)

Next == v_dispatch_rx \/ IoStep \/ \E w \in Worker : WorkerStep(w)

(* Workers and the I/O lcore loop for ever without blocking, and Redis and *)
(* the VDP answer (DbScript, or the hard timeout); arrivals owe nothing.   *)
Fairness == WF_vars(IoStep) /\ \A w \in Worker : WF_vars(WorkerStep(w))

Spec == Init /\ [][Next]_vars /\ Fairness

-----------------------------------------------------------------------------
(* Properties.                                                             *)

Doing(steps) == {l \in Lcore : lcore[l].at \in steps}

(* Replies that have a message object.                                     *)
Replies == Len(tx) + Cardinality(Doing({"txput", "send"}))

(* rte_mempool_put() in v_dispatch.c and v_port_pfcp_msg_free(): each pool *)
(* holds exactly what no ring, lcore or transaction uses, so no path loses *)
(* an object or puts it back twice.                                        *)
MessagesBaseline ==
  /\ poolFree = 2 * RingSize - Len(rx) - Replies
                  - Cardinality(Doing({"rxput"}))
                  - Cardinality({w \in Worker : lcore[w] # Idle})
  /\ pfcpFree = PfcpCap - Cardinality(live)
                  - Cardinality(Doing({"claim", "start", "tx", "txput", "destroy"}))

(* V_DISPATCH_POOL_CAP: received datagrams never use up the pool the       *)
(* replies need: when it is empty, all but a few of the objects of one     *)
(* ring carry replies already.                                             *)
RepliesHaveRoom ==
  poolFree = 0 => Replies >= RingSize - Cardinality(Worker)

(* v_dispatch_worker_poll(): whichever workers race for the ring, a        *)
(* datagram is handled by one of them at most, once, and has one reply at  *)
(* most on its way.                                                        *)
HandledOnce ==
  \A m \in Datagram :
    Cardinality({i \in DOMAIN rx : rx[i] = m}) + Cardinality({i \in DOMAIN tx : tx[i] = m})
      + Cardinality({l \in Lcore : lcore[l].msg = m /\ lcore[l].at # "destroy"})
      + Cardinality(live \cap {m}) + Cardinality(ended \cap {m})
    = IF m <= arrived THEN 1 ELSE 0

(* Requests whose transaction has been created and not yet destroyed.      *)
InProgress ==
  live \cup {lcore[w].msg : w \in {v \in Worker : lcore[v].at = "start"}}
       \cup {lcore[l].msg : l \in {Io} \cap Doing({"tx", "txput", "destroy"})}

(* v_port_txn_create() and v_port_txn_destroy(), even when workers race    *)
(* for a slot: the table never points to a transaction that is over, and   *)
(* no object is back in the pool while a request uses it.                  *)
NoDanglingTransaction ==
  /\ \A i \in 1 .. TxnCap : slots[i] \in InProgress \cup {0}
  /\ txnFree <= TxnCap - Cardinality(InProgress)

(* worker_main() and the loop of main(): whatever the rings drop and the   *)
(* lcores race for, a time comes again and again when everything that has  *)
(* arrived is over: refused, answered, or its reply lost to a full ring.   *)
EveryDatagramEnds == []<>(ended = 1 .. arrived)
=============================================================================
