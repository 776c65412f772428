# A TLA+ verification of the stateless VPE

The VPE is the PFCP endpoint of a UPF control plane. Several pods serve one SMF
and none of them owns a session: every session record is a hash in Redis,
written by version CAS, and whichever pod receives a message handles it. This
project models the session flows and the store they rest on, the identifier
allocator and the layout of identifiers, the script calls, the node state that
the pods share, and the rings between a pod's lcores. TLC checks them on small
instances; TLAPS proves, for every value of the constants, the safety of the
session flows and that they implement one history per session, the safety of
the identifier allocator and of the identifier layout, and that of the script
calls, the node state and the rings. Every invariant that a run checks is also
stated by a theorem, with one exception (section 4, "Only model-checked").

## 1. Inventory

| Part (source) | State | Operations | What makes it correct |
|---|---|---|---|
| `v_flow` | the transactions of a pod (`struct v_txn`), contexts held in `t->ctx` and `t->impl` | `v_flow_handle_msg`, thirteen callbacks, `finish` | what the SMF is told agrees with Redis and the VDP; every flow ends; contexts and TEIDs are returned once |
| `v_sess_store` and its two Lua scripts | Redis hash `pdu_<part>:<seid>`: version, context, pending TTL | read, CAS write, confirm (`PERSIST`), delete | one history per session: no lost update, no resurrection |
| `v_txn` | none of its own | `timeout_handler` | cleans up by state, leaks nothing |
| `v_retrans_cache` | Redis string `txn_<part>:<fseid>:<seq>` with a TTL | lookup, store | a retransmission gets the first answer |
| `v_id_alloc` and `V_LUA_TEID_REFILL` | SEID and TEID rings, in-flight flags, seeded flags; in Redis two counters and a free list per partition | alloc, free, refill, init, ready | identifiers are unique, not lost, and quarantined |
| `v_seid` | none | encode, decode, validate | encoding is injective, bad headers are refused |
| `v_db_script` | script SHAs per shard, pending calls | `SCRIPT LOAD`, `EVALSHA`, NOSCRIPT retry, reconnect | each call is answered once |
| `v_node_state` | recovery timestamp, associations in Redis | load, force new, associate, clear, query | all pods announce one timestamp |
| `v_dispatch` | worker rings, TX ring | rx, poll, enqueue, drain | nothing is lost but on a full ring, nothing leaks |
| `main.c` | - | start-up order and gates, lcore loops | no traffic before identifiers are there |
| `v_log`, stubs, tests, ports | - | - | see PROJECT.json |

The parts interact by asynchronous calls that name the callback which continues
the flow. Pods interact only through Redis and the VDP. A worker never blocks.

What is hard here: callbacks of many transactions interleave within and across
pods; a command may take effect although its caller sees an error, or after its
caller has given up; pods die between two steps; the hard timeout ends a
transaction whatever it waits for; the SMF retransmits, to another pod; several
commands are fire-and-forget; pools, rings and the free list have limits.
PROJECT.json lists these hazards line by line with the properties aimed at them.

## 2. Modules

| Module | What it is |
|---|---|
| `VpeFlow` | `v_flow`, `v_sess_store`, the session scripts, `v_txn`, `v_retrans_cache`, and Redis, the VDP, the SMF and time around them |
| `SessionRegistry` | abstract specification: what the pods together promise about session records |
| `VpeFlowRefinement` | the refinement mapping from `VpeFlow` to `SessionRegistry` |
| `VpeFlowProofs` | proofs about `VpeFlow`: types, durability |
| `VpeFlowHistoryProofs` | proofs about `VpeFlowRefinement`: modifications, deletion, the implementation of `SessionRegistry` |
| `VpeFlowFaultProofs` | proofs about `VpeFlow`: TEIDs, rules and records, repeated answers, contexts, each for the failures it can stand |
| `SeidLayout` | `v_seid`: encode, extract and validate, as arithmetic on field sizes |
| `SeidLayoutProofs` | proofs about `SeidLayout` |
| `IdAlloc` | `v_id_alloc`, the refill script and the connection they use; extends `SeidLayout` |
| `IdAllocProofs` | proofs about `IdAlloc`: types, validity, uniqueness, quarantine, room in the rings, nothing lost |
| `DbScript` | `v_db_script` on the connections and the pending pool of `v_stub_db.c` |
| `ScriptCalls` | abstract specification: what `v_db_evalsha()` promises its callers; `VpeFlow` and `IdAlloc` assume it |
| `DbScriptProofs` | proofs about `DbScript`, among them that it follows `ScriptCalls` |
| `NodeState` | `v_node_state` in several pods, the two Redis keys, the start-up order of `main()` |
| `NodeStateProofs` | proofs about `NodeState` |
| `Dispatch` | `v_dispatch` composed with the lcore loops of `main.c`, the ends of `v_flow`, the transaction table and the PFCP message pool |
| `DispatchProofs` | proofs about `Dispatch` |
| `MC...` | TLC instances: symmetry sets |

### VpeFlow

Each transaction is a record with the fields of `struct v_txn` that matter
(`db_ver` is `ver`, `cas_retry` is `retry`) and three of the model: `cb`, the
callback it waits for; `cmd`, the command under way; `res`, the answer once the
server has executed it. There is one action per entry point and per callback,
named as in the code; each is the whole handler, `finish` included.

* A command that changes Redis or the VDP takes effect in a step of its own
  (`SessExec`, `VdpExec`) between the call and the callback. A read takes effect
  in the step of its callback, where nothing else happens that others can see.
* A callback gets the command's answer, or an error of its kind if `Faults`
  allows it. After an error the command may have taken effect, or it moves to
  `bg` and may do so later (`BgExec`). The compensating delete, the sweeper's
  `PERSIST` and everything in flight from a dead pod live in `bg` too; `bg` is
  unordered, which admits more orders than one connection does.
* A context is its TEID and the sequence of modifications applied to it. That
  is enough to see a lost update, a stale write-back and a double use of a TEID.
* `teidAvail` counts how often each TEID is on offer, so a double free shows.
  `ctxUse` counts contexts taken from a pod's pool, so a leak shows.
* A partition is not represented: they share nothing, and a SEID names its own.
* `tx` is the set of replies handed to `v_dispatch_tx_enqueue()`; whether one
  reaches the SMF is left open. The SMF may name any session it was told of.
* Redis may also answer with an error and do nothing (`READONLY`, `MISCONF`).
  For a script that is a failed write or delete. For `PERSIST` it is not:
  `on_reply()` reports OK for any reply and `confirm_reply_cb()` does not look
  at it, so `confirm_cb()` accepts the session while its TTL is still set
  (`SessRun`, `persist_refused`). `refused` is a history variable: the sessions
  this happened to.

`Faults` is a constant; a run chooses the failures it admits:
`dispatch` (a call is refused at once), `lookup_err`, `read_err`, `cas_err`,
`confirm_err`, `del_err` (transport errors), `persist_refused` (an error reply
to `PERSIST`), `vdp_reject`, `vdp_timeout`,
`alloc` (a dry ring), `build` (build, modify or snapshot fails), `encode`,
`bg_lost`, `store_lost`, `rpush_lost` (a fire-and-forget command is lost),
`cache_expiry`, `hard_timeout`, `crash`.

Assumptions about what is not in the repository:

* Redis executes commands atomically and keeps what it acknowledged.
* The VDP refuses to modify a rule it does not have (PLAN.md 5.2, race
  outcomes). A VDP verdict may get lost (`vdp_timeout`).
* The hard timeout (2 s) is shorter than the pending TTL (30 s), so a pending
  record does not expire under the establishment that wrote it.
* Unless `Overlap` is set, the SMF retransmits only after the original flow is
  over: its timer is longer than the hard timeout (PLAN.md 3.5).
* An answer later than the hard timeout reaches no callback. The code does not
  guarantee this (see section 7).

### SessionRegistry

A session is fresh, pending, confirmed or gone, with a list of modifications.
It is created once, modifications are appended one at a time, only the last one
can be undone, and gone is for ever. `VpeFlowRefinement` maps a record to its
TTL and modifications; an absent record is fresh while its creating write may
still arrive, else gone. It also states `HistoryInv`, the inductive invariant
behind the refinement, so that TLC checks it with the rest.

### SeidLayout and IdAlloc

A shift by `n` bits is a product or a quotient by a field size, a mask a
remainder; field sizes are constants, with the one assumption that every
partition number fits in its field. `v_seid_validate()` returns the partition or
`Err`, in the order of the checks of the code.

`IdAlloc` is one partition: the ring pair of each pod, the flags, the counters
and the free list in Redis, and each pod's connection as a queue of commands and
a queue of replies. Redis keeps local indices; rings and callers hold encoded
words (`Encoded`), which for a TEID includes the cast to 32 bits that comes
before the encoder's own check. The loop of a refill callback appends the words
of the indices that encode (`Encodable`), in the one order in which it meets
them (`InOrder`), until the ring is full (`Enqueued`). Testing the ring and the
flag (`AllocCheck`),
setting the flag and dispatching (`AllocClaim`) and the dequeue (`AllocTake`)
are separate steps, so that lcores race as the code allows. Which lcores
allocate is a constant: as `main.c` is written, only the lcore that polls the
database does (as in the runs), while a comment in `v_id_alloc_init()` expects
any of the workers to. `Disconnect` calls every outstanding callback with an
error; `Exit` is a crash, or `main` giving up on the readiness gate. Callers are
environment: they hold a TEID and free it at most once, which `TeidExclusive`
of `VpeFlow` is about.

### DbScript and ScriptCalls

A connection is the queue of commands Redis has not run (`sent`) and the queue
of replies on their way back (`replies`); a pending object of `v_stub_db.c` is a
place in one of the two. The objects of `g_evalsha_pool` and `g_load_pool` are
found through them, so the pool counters can be compared with what is really in
use. A SHA is the hash of its script; the cache is the set of known ones. All
callbacks run in `v_port_db_poll()` on one lcore, so each action is one
callback with everything it calls: a reply, the retry it sends, or the reload it
asks for and the call it parks behind it. `RedisForgets` is a failover or a
restart that empties the script cache; `disconnect_cb` and
`v_stub_db_test_force_reconnect` tear a connection down, which calls back for
every outstanding command. What was written to a connection that was up may
still be run (`late`, `LateExec`), long after its caller was told of the failure
and in any order; its reply goes nowhere.

A connection attempt succeeds (`Connected`, with the reloads) or fails
(`ConnectFailed`), or cannot even begin (the second disjunct of
`shard_connect`). After a failure `connect_cb()` only logs: the
link is `failed`, `g_ctx` points to a context that hiredis has freed, and
nothing makes another attempt. A command for such a shard is refused or swallowed
(`CannotSend`, `CanSend`), which are the outcomes short of a crash that reading
the freed context can have.

`ScriptCalls` says what callers rely on: an accepted call is answered once, its
script runs at most once, a reply of Redis tells whether it ran, and the answer
comes in the end. A failure tells nothing: the script may have run, may run
later, or never. The mapping needs only the return code, the first answer and
the count of executions.

### NodeState

Pods go through the order of `main()`: init, load and wait, serve. The wait may
also run out, after which `main()` goes on without a timestamp. `time(NULL)` is a clock that
ticks between any two steps. Commands on the two keys may be on different shards
and overtake each other; those of a broken connection or a dead pod may
still be run (`late`). The kinds of replies are those of `convert_reply()`, an
error reply included. Beside the code's globals, `era` and `from` record which
cold start a value belongs to and what kind of reply it came from, `partner` the
association in force, so that what a pod was told can be compared with what was
true when Redis answered.

### Dispatch

DPDK rings and pools are safe to share, so one get, put, enqueue or dequeue is
one step, and lcores interleave between them. The search for a free transaction
slot and the store into it are two steps, as nothing in `v_stub_txn.c` joins
them. A worker handles a datagram up to the first command of its flow; the flow
itself is `VpeFlow`'s and appears as the request in `live` until the I/O lcore
runs the callback that calls `finish()`. `finish()` sends a reply, drops it at a
full ring or an empty pool, or has none (`unanswered`), and destroys the
transaction.

## 3. Runs

Violation runs end at the disagreement they document; all others pass.

| Run | Bounds | Shows |
|---|---|---|
| `race` | 2 pods, 1 establishment, 2 modifications, 1 deletion of one session, VDP refusals, lost compensating deletes; fair | flows end, contexts return to baseline, no rule without a record, a failed establishment leaves nothing, the TEID is reclaimed |
| `ref_faults` | the same, twelve kinds of failure, among them a refused `PERSIST`, crashes and timeouts | `DurabilityInv` and `HistoryInv`, accepted sessions are durable, accepted modifications stay, deleted sessions stay deleted, `VpeFlow` implements `SessionRegistry` |
| `teid` | 2 pods, 1 establishment and 1 deletion transmitted up to three times each without waiting for the reply, 2 SEIDs, one TEID, thirteen kinds of failure | the TEID is never in two sessions or two rules, nor on offer while in use |
| `retrans` | every request sent twice, one with a malformed SEID | both answers are the same |
| `id_unique` | 2 pods, all failures and restarts | no identifier is in two places; a block that arrives fits in its ring |
| `id_supply` | no failures, one lcore, TEIDs run out and the counter passes the local field; fair | no identifier lost; no block has the reserved TEID index 0; every identifier handed out is valid; the quarantine that the script does give; a refill in flight always ends |
| `retry` | 1 shard, 2 scripts, 2 calls, pools of 2 calls, 2 loads and 2 commands, the cache lost twice, failed connection attempts, broken connections with commands run late, one reconnect, error replies; fair | each call is answered once and truthfully, no object leaks, one retry is enough, `DbScript` implements `ScriptCalls`, a connection that is made loads every script |
| `node` | 2 pods, 2 SMFs, 2 seconds, 2 calls beside the loads, 1 crash or broken connection, error replies | pods that find a timestamp share it, none is backdated, queries tell the truth, no pending object is lost |
| `rings` | 2 workers and the I/O lcore, 6 datagrams, rings of 4, 2 transactions, 2 PFCP messages; fair | no object lost or returned twice, replies keep room in the pool, each datagram is handled once and ends, the table never points to a dead transaction |
| `timeout_leak` | violation of `CtxBaseline` | the sweeper does not free `t->impl` |
| `recovery_ts` | violation of `OneTimestamp` | the pod that wins the `SET NX` keeps another time than it stored |
| `id_wrap` | violation of `IdUnique` | the counter of an exhausted partition wraps in the cast to 32 bits |

Some properties hold only without some failures, and the runs say which.
`RuleHasRecord` and `TeidReclaimed` exclude crashes, lost VDP verdicts and a
refused `PERSIST`: a pod that dies between the VDP's acceptance and the
confirmation, or a confirmation that did nothing, leaves a rule whose
record expires and a TEID in no ring, and PLAN.md 5.1 and 9.3 accept only the
expiring record. `AcceptedDurable` excepts the sessions whose `PERSIST` Redis
refused. `RuleTeidExclusive` excludes `vdp_timeout`: the code frees the
TEID although the rule may be there. `NothingLost` excludes failures: a lease
whose answer is lost is gone, by design. `ZeroReserved` excludes them too: a
`SETNX` that could not be sent is not sent again. `NotBackdated` excludes a pod that got
an error reply to its `SET`, which the code takes for NIL. `BecomesReady` excludes
a refused `SCRIPT LOAD` and a failed connection attempt, which nothing repeats.
The fairness part of `ImplementsCalls` excludes a shard whose attempt failed for
good: what its queue has swallowed is never answered.

Bounds. Two pods with one transaction each give every pairwise interleaving of
flows; one slot per pod is enough because transactions of one pod share nothing
but the context pool, whose size (`CtxCap = 2`) lets one flow's snapshot fit and
not much more. Two modifications and a deletion are the least that produce a
conflict during a write-back. `V_CAS_MAX_RETRY = 2` (the code has 3) reaches
both a retry and its exhaustion. Two SEIDs and one TEID force reuse, and three
transmissions let a retransmitted establishment and deletion both overtake.
In `IdAlloc` a block is 2, the watermark 1, the ring holds 3: one block fits
above the watermark and two do not; the fields are a few values wide, so that
overflow happens. `MaxNext` stops callers once that many identifiers are leased,
never Redis, so that liveness is not cut short. In `DbScript` the pools of loads and of
commands hold exactly the reloads of one connection, so that one object too few
makes a start-up load fail, and the retries of two calls compete with the
reloads of a reconnect; two losses of the cache are what makes a retried call
fail, and two scripts let one call's reload and the other's run cross. In
`NodeState` two seconds give one tick, which is all that
the order of time stamps needs; two calls let a forced timestamp or a cleared
association race another call. In `Dispatch` rings of 4 and six datagrams are
the least with which the pool of 8 becomes empty; both workers can be in
the slot search at once.
`CHECK_DEADLOCK FALSE` everywhere: the environment sends finitely many requests,
and then the system rests. Symmetry is used in runs without liveness only.

Fairness. In `VpeFlow` weak fairness of each transaction's progress (event loops
run for ever; Redis and the VDP answer), of commands in flight, of cache stores
and of TTL expiry; in `IdAlloc` of Redis, of reply delivery and of an allocation
that began; in `DbScript` of Redis, of reply delivery and of the end of a
connection attempt (in success or in failure), per shard; in `Dispatch` of each
lcore, whose loops never
block. None for the SMF, for callers, for reconnection, or for any failure.

Each property of a passing run has a mutant in the module it is about, a
plausible slip in the mapped code (`Mutant of ...`), that the run detects.

## 4. Proofs

`VpeFlowProofs` proves, for any sets of pods, slots, requests, SEIDs and TEIDs,
any bounds and any set of failures, from the named assumptions of `VpeFlow`
alone (requests are of one kind, `NULL` is none of the values, bounds are
numbers):

* `TypeCorrect`: `Spec => []TypeOK`
* `InvariantHolds`: `Spec => []DurabilityInv`
* `AcceptedSessionsDurable`: `Spec => []AcceptedDurable`, a session the SMF
  was told of is in Redis without a TTL until the SMF asks for its deletion,
  except one whose `PERSIST` Redis refused (`refused`).
* `BelievedSessionsDurable`: the same without the exception, for any set of
  failures but `persist_refused`. This is PLAN.md's "every session the SMF
  believes exists is in Redis" (Change 1).

`AcceptedDurable` is not inductive: nothing in it forbids a delete or a TTL
write under way for an accepted session. `DurabilityInv` adds what does.
`SeidOnce`: a SEID belongs to one establishment, and the SMF hears of it only
when that is over. `TargetKnown`: the SMF names only sessions it was told of.
`FlowShape`: what a transaction holds, by the callback it waits for.
`CommandsOK`: a delete anywhere, in a transaction or in the background, is of a
session the SMF asked to delete or will never hear of (`Deletable`), and only a
creating write carries a TTL. `EstRecord`: from the acknowledged write on an
establishment's record exists, and from the acknowledged `PERSIST` on it has no
TTL, or Redis refused the `PERSIST`. `CacheRepeats`: the cache adds no new
answers. The proof has one lemma per
action; the callbacks and the timeout handler share a lemma (`FlowStep`) on what
a step of one transaction may do to the rest, and the steps of Redis, the VDP,
TTLs and crashes follow.

`VpeFlowHistoryProofs` proves, from the same assumptions:

* `HistoryHolds`: `Spec => []HistoryInv`
* `ModificationsKept`: `Spec => []AcceptedModsApplied`
* `DeletedStaysGone`: `Spec => []DeletedIsGone`
* `FlowsImplementRegistry`: `Spec => ImplementsRegistry`, the whole refinement
  (`SessionRegistry` states no fairness).

A version CAS protects a record only because of what the writers know, and that
is what `HistoryInv` adds to `DurabilityInv`. `UpdateOK`: a write under way, if
the record still has the version it names, appends one modification to it or
takes the last one back, and drops none that was or may yet be reported.
`Wrote`: while the record has the version a modification wrote, the snapshot its
compensation would write back keeps what the others reported. `LeftOK`: a write
that creates a record, or a rule, and that nobody waits for was left by a flow
that ended without the SMF hearing of the session (`Abandoned`), and there is
one at most. `TxnOK`: only the flow that owns a SEID creates its record, and a
deletion whose rule or record is gone finds it gone for good. The proof
splits steps in two: transactions move (`Moves`; a crash moves all of a pod's)
and leave records and rules alone, and Redis, the VDP and time change them
(`Effect`). Each sort preserves the invariant by one lemma, and each effect on a
record is one step of the registry.

`VpeFlowFaultProofs` proves, from the same assumptions and one more
(`CacheAssumption`: `NULL` is no reply), for any number of pods, slots, requests
and sessions:

| Theorem | States | For |
|---|---|---|
| `TeidsExclusive` | `Spec => []TeidExclusive` | every set of failures |
| `RuleTeidsExclusive` | `Spec => []RuleTeidExclusive` | no `vdp_timeout` |
| `RulesHaveRecords` | `Spec => []RuleHasRecord` | none of `RecordFaults`: `dispatch`, `confirm_err`, `persist_refused`, `vdp_timeout`, `hard_timeout`, `crash` |
| `AnswersRepeat` | `Spec => []SameAnswer` | no `Overlap`, none of `AnswerFaults`: `lookup_err`, `store_lost`, `cache_expiry` |
| `ContextsAccounted` | `Spec => []CtxBaseline` | no `hard_timeout`, finitely many slots |

The hypotheses are the failures against which the code does nothing. After
`vdp_timeout` it frees a TEID whose rule may be there. Each of `RecordFaults`
ends an establishment between its rule and a confirmation that takes effect, and
its record then expires. A retransmission that overlaps its original, or finds no cache entry,
is handled anew. And the sweeper forgets `t->impl` (run `timeout_leak`).

None of the five is inductive; each needs an invariant of its own besides
`HistoryInv`. `SessionInv` (`SessionsHold`, every set of failures): an
establishment the VDP has not accepted has no rule, one that is not confirmed
has a TTL, one deletion at most removes a record, and a `PERSIST` in the
background is of an abandoned session. `TeidInv` (`TeidsHold`, every set of
failures): a session says one TEID wherever it is written down, in
transactions, commands, record and rule (`Says`); a session that is being
established, is confirmed, may yet be, is being deleted or has a rule claims it
(`Claims`); a TEID is claimed by one session at most, and on offer at most once
and only when unclaimed. That is what makes the free of `del_delete_cb()` safe:
only the deletion that removed the record reaches it. `RuleInv` adds that a rule
with a pending record has its establishment, `AnswerInv` that one flow at a time
works on a request, and has no answer while it is past the cache, and `CtxInv`
which contexts a transaction holds by its callback. Each callback is described
once, as a `Turn` of its transaction that says what it does to all of these, and
each of the other steps as an effect; the invariants are preserved by turns and
effects.

`IdAllocProofs` proves, for any number of pods and lcores, any block, watermark,
floor, ring and field sizes that satisfy `SizeAssumption` and
`LayoutAssumption`:

| Theorem | States | For |
|---|---|---|
| `IdTypesHold` | `Spec => []IdTypeOK` | every set of failures |
| `IdsAlwaysValid` | `Spec => []IdsValid` | every set of failures |
| `QuarantineHolds` | `Spec => QuarantineLessBlock` | every set of failures |
| `IdsUnique` | `Spec => [](teidNext <= TeidWidth => IdUnique)` | every set of failures |
| `SeidsUnique` | a SEID is in one place at most, and only once leased | every set of failures and every counter |
| `BlocksFit` | `Spec => []RepliesFit` | one allocating lcore in each pod (`OneLcore`), every set of failures |
| `NoIdLost` | `NothingLost` while `teidNext <= TeidWidth` and no pod exits | `OneLcore`, no `dispatch` or `disconnect` |

The bound on the TEID counter is needed: `enqueue_teid()` casts to 32 bits, and
`id_wrap` shows two sessions with one TEID beyond it. A pod that exits drops its
rings, whether it crashed or `main()` gave up on a pod whose ring was dry, and a
lost command takes its block or its freed TEID with it; hence the hypotheses of
`NoIdLost`. With two allocating lcores both may pass the test of the flag, which
is what `OneLcore` excludes (see the hazard at `v_id_alloc.c:71`).

Each identifier is in a container: a ring, a reply, a session, the free list, or
an `RPUSH` under way (`Somewhere`). `LeaseInv` (`LeasesHold`) says that what is
somewhere was leased and that every word is one the encoder made. `UniqueInv`
(`IdsApart`) says that no container has an identifier twice and no two have the
same. A step then only has to show from which container it takes an identifier
and to which it gives it; a lease gives identifiers that were nowhere, because
they were not leased yet. `RoomInv` follows a refill from the test to the
callback: at most one of a kind is under way, as a command or a reply, and the
flag is set while it is; from the test until the block arrives the ring stays
below the watermark, because only callbacks fill it; and below the watermark
there is room for a block (`SizeAssumption`; the code has a watermark of 64,
blocks of 256 and rings of 1023). `AccountInv`, the converse of `LeaseInv`, says that
what was leased is somewhere; with `RoomInv` the callback drops nothing.

`TeidInv` and the invariants of `IdAllocProofs` quantify over all numbers and
values. TLC checked them with bounded quantifiers, and the other invariants of
the two modules as they stand, on the instances of `race`, `teid` and `retrans`
and of `id_unique` (with `MaxNext = 3`) and `id_supply`.

`DbScriptProofs` proves, for any number of shards, scripts and calls and any
pool sizes:

* `ScriptInvariant`: `Spec => [](ScriptInv /\ LateInv)`
* `ScriptTypeCorrect`, `CallsAnsweredOnce`, `PoolsWhole`, `OneRetrySuffices`:
  `ScriptTypeOK`, `AnsweredOnce`, `PoolsBaseline` and `RetrySuffices` hold
* `ScriptFollowsCalls`: `Spec => FollowsCalls`, the initial states and steps of
  `ScriptCalls`, with failed attempts and late runs. Its fairness is TLC's part
  of `ImplementsCalls`.

`ScriptInv` says where things are: a call is open exactly if one outstanding
command, at one place, is its owner (`CallOK`); a command names its call's shard
and script, and a load that has a call belongs to one that was retried
(`CommandOK`); Redis has not run the script of a call whose command is still to
be run (`SentOK`), and a reply says whether it has (`ReplyOK`); a NOSCRIPT, on
its way or to come, is explained by a loss of the cache (`Explained`). The
pools are counted over the places (`Counts`). `LateInv` says of what broken
connections left behind: a script is of a call that was told of the failure, and
whose script has not run. It is what lets a late run be `ScriptCalls!Run`, and it
is preserved because an answered call is answered for good and no open command
belongs to it. Every step removes some commands at
the front of one shard and adds some at the end; `StepInv` does the bookkeeping
of places once, and each callback only supplies what it removes and adds.

`NodeStateProofs` proves, for any number of pods and SMFs: `NodeInvariant`
(`Spec => []NodeInv`) and from it `NodeTypeCorrect`, `NodePoolWhole`,
`QueryIsTrue`, `NeverBackdated` and `FoundTimestampShared` (`NodeTypeOK`,
`NodePoolBaseline`, `QueryTruth`, `NotBackdated`, `FoundIsShared`). The queues
matter only as sets: `NodeInv` constrains every command that may still be run
and every reply still to be delivered, those of dead pods and broken
connections too. A reply keeps the cold start it belongs to, and
`OneValuePerEra` says that no two strings, delivered or under way, disagree
about one.

`DispatchProofs` proves, for any number of workers, datagrams and any ring and
pool sizes: `DispatchInvariant` (`Spec => []DispatchInv`) and from it
`DispatchTypeCorrect`, `MessagesAccounted`, `TransactionsHeld`,
`PoolLargeEnough` and `NothingHandledTwice` (`DispatchTypeOK`,
`MessagesBaseline`, `NoDanglingTransaction`, `RepliesHaveRoom`, `HandledOnce`).
`DispatchInv` gives each datagram one stage (a ring, an lcore, the live
requests, the ended ones) and each lcore's program counter what it holds;
the pools are then counted over the stages.

`ScriptInv`, `LateInv`, `NodeInv` and `DispatchInv` stand in the proof modules
and were checked with TLC on the instances of `retry`, `node` and `rings`, with
quantifiers over numbers, commands and replies bounded to those there are.

`SeidLayoutProofs` proves, for any field sizes that satisfy `LayoutAssumption`:

* `SeidRoundTrip`: what `v_seid_encode()` makes passes `v_seid_validate()` with
  its own partition and keeps its local index;
* `SeidAccepted`: an accepted word is the encoding of an in-range partition and
  its local index, so validation admits nothing else;
* `TeidRoundTrip`: the same for TEIDs, which are never 0.

They rest on two facts about a quotient and a remainder: a number is determined
by them, and the quotient and remainder of `a * m + b` with `b < m` are `a` and
`b`. The converse of `TeidRoundTrip` does not hold: `v_teid_validate()` accepts
local index 0 in every partition but 0, which no encoder makes; the program never
calls it.

Only model-checked:

* liveness, which is outside the prover: `EveryFlowEnds`,
  `EstablishmentResolves`, `TeidReclaimed`, `RefillEnds`, `BecomesReady`,
  `EveryDatagramEnds`, and the fairness of `ImplementsCalls`;
* `ZeroReserved`.

## 5. Findings

Three have a run, and PROJECT.json quotes the lines that disagree: the sweeper
forgets `t->impl` (`v_txn.c:97`), the winner of the `SET NX` takes the time again
when the reply comes (`v_node_state.c:126`), and a TEID's local index is cut to
32 bits before it is checked (`v_id_alloc.c:126`).

Others were met while modelling; the models have the code's behaviour:

* `v_txn.c:58` takes `db_ver == 0` for an establishment, but `cas_write_cb()`
  (`v_flow.c:169`) has stored the new version by then, so the sweeper never
  issues the delete its comment announces ("delete it now instead of waiting out
  the full pending TTL").
* `v_flow.c:200`: until `finish()` stores the reply a retransmission misses the
  cache and makes a second session. `v_retrans_cache.h:11` gives preventing that
  as the cache's purpose.
* `v_flow.c:282`: `mod_compensate_write_cb()` answers REJECTED whatever became
  of the write-back; after a conflict the refused modification stays in the
  record, where PLAN.md:390 has the old context written back.
* `v_flow.c:112`: when only the answer to a `PERSIST` is lost, the record has no
  TTL left for the comment's "rely on the pending TTL" to work.
* `v_sess_store.c:231`: `confirm_reply_cb()` ignores the reply, on the ground
  that "the integer result (0 or 1 ...) doesn't matter"; the reply may also be
  an error, which `on_reply()` reports as OK. A `PERSIST` that Redis refuses then
  ends in `REQUEST_ACCEPTED` (`v_flow.c:122`) for a session that expires with
  its pending TTL, against PLAN.md:87, "every session the SMF believes exists is
  in Redis". Without the exception for `refused`, `AcceptedDurable` is violated
  on the instance of `ref_faults`.
* `v_db_lua_scripts.h:45`: the refill script compares with the floor once and
  then pops a whole block; PLAN.md:611 calls the floor a minimum.
* `v_stub_txn.c:57`: two workers can take one slot. The first transaction is
  then in no table, has no hard timeout, and its object is not put back
  (`v_dispatch.h:21`: "any worker may process any message").
* `v_db_script.c:230`: with the shard down the callback gets an error and
  `v_db_evalsha()` returns OK; the header (lines 33-34) says `RET_CODE_ERR`.
* `v_stub_db.c:96`: after a failed connection attempt `g_ctx` still points to the
  context that hiredis frees, and the attempt is not repeated: the shard never
  becomes ready, and a call that its queue takes afterwards is never answered.
* `simple_ack_cb()` (`v_node_state.c:189`) reports OK for an error reply, and
  `recovery_reply_cb()` takes an error reply to the `SET` for NIL.

## 6. Plan

1. Done: all modules of section 2, both refinements, the theorems of section 4.
2. `TxnTable`: a transaction pool with generations and callbacks that arrive
   after the hard timeout; which of them can meet a reused transaction.

## 7. Not modelled

* Callbacks that arrive after the hard timeout (plan, item 2): the properties
  of `VpeFlow` hold for answers that arrive in time or never.
* Two threads inside one hiredis context: the workers and the I/O lcore share
  the connections of `v_stub_db.c`, and hiredis is not thread safe. A command is
  taken to be queued atomically.
* Partition choice, the PFCP stub's wire format, serialisation, node id
  formatting, logging: pure data.
* `v_dispatch_fini()`, EAL set-up and failing initialisation, after which the
  process exits; the simulated clock of `v_stub_txn.c`, which only tests drive;
  the VDP stub, which accepts everything at once.
* Loss of acknowledged writes on a Redis failover.
* A crash of the process when it uses the freed context of a failed connection
  attempt.
* In `IdAlloc`, a refill or free under way when its connection breaks is run
  before or never; run afterwards, it would only skip a block or
  offer a TEID later.
* The order in which two pods' pushes reach the VDP after their CAS writes: the
  VDP's record of a session may be older than Redis's; nothing is claimed about
  the context of a rule beyond its TEID.
