------------------------------ MODULE DbScript ------------------------------
(***************************************************************************)
(* v_db_script.c on the Redis connections of v_stub_db.c: EVALSHA by       *)
(* cached SHA, one reload and one retry when Redis answers NOSCRIPT, and a *)
(* reload of every script on each (re)connect.                             *)
(*                                                                         *)
(* A SHA is the hash of its script, so the cache g_sha is the set of the   *)
(* scripts whose SHA is known.  Every callback runs in v_port_db_poll() on *)
(* one lcore: an action is one callback with all that it calls.  hiredis   *)
(* keeps the commands of a connection in order and, when the connection    *)
(* breaks or cannot be made, calls back for each outstanding one without a *)
(* reply; Redis may still run what was written to a broken connection.     *)
(* User callbacks are the callers' code and appear as the answer they are  *)
(* given.                                                                  *)
(***************************************************************************)
EXTENDS Integers, Sequences, FiniteSetsExt

CONSTANTS
  Shard,
  ScriptCount,  \* V_SCRIPT_COUNT
  Call,         \* the calls of v_db_evalsha() in a behaviour
  NoCall,       \* resume = NULL of a plain SCRIPT LOAD
  EvalCap,      \* V_DB_EVALSHA_POOL_CAP
  LoadCap,      \* V_DB_SCRIPT_LOAD_POOL_CAP
  PendingCap,   \* V_STUB_DB_PENDING_CAP
  MaxFlush,     \* bound: how often a shard loses its script cache
  MaxConnect,   \* bound: how often a shard is reconnected
  Faults        \* the failures the environment may produce

ASSUME PoolAssumption ==
  /\ {ScriptCount, EvalCap, LoadCap, PendingCap} \subseteq Nat \ {0}
  /\ {MaxFlush, MaxConnect} \subseteq Nat
  /\ NoCall \notin Call

ASSUME ScriptFaultAssumption == Faults \subseteq {"connect", "disconnect", "error"}

Script == 0 .. ScriptCount - 1

VARIABLES
  g_sha,      \* scripts of each shard whose SHA is cached
  link,       \* g_ctx[shard]: "down" (NULL), "connecting", "up", or "failed"
              \* (the connection attempt failed: freed, but not NULL)
  sent,       \* commands on the connection that Redis has not run, in order
  late,       \* commands of broken connections that Redis may still run
  replies,    \* replies on their way back, in order
  call,       \* the calls: struct v_evalsha_pending and what the caller saw
  evalFree,   \* objects left in g_evalsha_pool
  loadFree,   \* objects left in g_load_pool
  dbFree,     \* objects left in g_pending_pool
  cache,      \* Redis: the scripts each shard knows
  flushes,    \* Redis: how often each shard lost them
  connects    \* how often each shard was reconnected

pools == <<evalFree, loadFree, dbFree>>
vars  == <<g_sha, link, sent, late, replies, call, pools, cache, flushes, connects>>

Command == [op : {"EVALSHA", "LOAD"}, script : Script, call : Call \cup {NoCall}]
Result == {"ok", "error", "noscript"}
Reply == [cmd : Command, result : Result]

(* shard, script and retried as the code keeps them.  ret is the return    *)
(* code, answers what the user callback was given, ran how often the       *)
(* script ran, and spared how many losses of the shard's cache the call    *)
(* must survive: one more than before it if Redis knew the script then.    *)
CallRecord ==
  [shard : Shard, script : Script, retried : BOOLEAN,
   ret : {"none", "OK", "ERR"}, answers : Seq(Result \cup {"fail"}),
   ran : Nat, spared : Nat]

(* Types, and no pool beyond its size: the state of v_db_script.c and of   *)
(* v_stub_db.c, and the script caches of the Redis masters.                *)
ScriptTypeOK ==
  /\ g_sha \in [Shard -> SUBSET Script]
  /\ link \in [Shard -> {"down", "connecting", "up", "failed"}]
  /\ sent \in [Shard -> Seq(Command)]
  /\ late \in [Shard -> SUBSET Command]
  /\ replies \in [Shard -> Seq(Reply)]
  /\ call \in [Call -> CallRecord]
  /\ evalFree \in 0 .. EvalCap /\ loadFree \in 0 .. LoadCap
  /\ dbFree \in 0 .. PendingCap
  /\ cache \in [Shard -> SUBSET Script]
  /\ flushes \in [Shard -> 0 .. MaxFlush]
  /\ connects \in [Shard -> 0 .. MaxConnect]

-----------------------------------------------------------------------------
(* The connections.                                                        *)

(* v_port_db_cmd() and v_port_db_cmd_argv(): a context and a pending       *)
(* object are needed.  A context that is still connecting queues.          *)
CanSend(s) == link[s] # "down" /\ dbFree > 0

(* They refuse otherwise.  A failed attempt leaves g_ctx pointing to freed *)
(* memory: hiredis may still find there that the context is closed, and    *)
(* refuse, or take the command into a queue that nothing empties.          *)
CannotSend(s) == ~CanSend(s) \/ link[s] = "failed"

Eval(c, k) == [op |-> "EVALSHA", script |-> k, call |-> c]
Load(c, k) == [op |-> "LOAD", script |-> k, call |-> c]

(* The command of every pending object of a shard, oldest first.           *)
Outstanding(s) == [i \in DOMAIN replies[s] |-> replies[s][i].cmd] \o sent[s]

(* The calls whose callback is still due from that shard.                  *)
Due(s) ==
  {c \in Call : \E i \in DOMAIN Outstanding(s) : Outstanding(s)[i].call = c}

Loads(s) == {i \in DOMAIN Outstanding(s) : Outstanding(s)[i].op = "LOAD"}

(* The user callback of c runs with a.                                     *)
Told(c, a) == [call EXCEPT ![c].answers = Append(@, a)]

-----------------------------------------------------------------------------
(* Calls.                                                                  *)

(* An empty SHA table and full pools.                                      *)
v_db_script_init ==
  /\ g_sha = [s \in Shard |-> {}]
  /\ evalFree = EvalCap /\ loadFree = LoadCap

(* v_port_db_init() after it: a connection attempt to every shard, whose   *)
(* master may or may not know the scripts from an earlier client.          *)
Init ==
  /\ v_db_script_init
  /\ link = [s \in Shard |-> "connecting"]
  /\ sent = [s \in Shard |-> << >>]
  /\ late = [s \in Shard |-> {}]
  /\ replies = [s \in Shard |-> << >>]
  /\ \E s \in Shard :
       call = [c \in Call |->
                 [shard |-> s, script |-> 0, retried |-> FALSE, ret |-> "none",
                  answers |-> << >>, ran |-> 0, spared |-> 0]]
  /\ dbFree = PendingCap
  /\ cache \in [Shard -> {{}, Script}]
  /\ flushes = [s \in Shard |-> 0]
  /\ connects = [s \in Shard |-> 0]

(* main() waits for it before anything calls a script.                     *)
v_db_script_ready == \A s \in Shard : g_sha[s] = Script

Called(c, s, k, ret, answers) ==
  call' = [call EXCEPT ![c] =
             [shard |-> s, script |-> k, retried |-> FALSE, ret |-> ret,
              answers |-> answers, ran |-> 0,
              spared |-> flushes[s] + IF k \in cache[s] THEN 1 ELSE 0]]

(* The early returns of v_db_evalsha().  A call may also have too many     *)
(* parts, or parts that do not fit the scratch buffer; the object taken    *)
(* for it is put back then.                                                *)
EvalRefused(c, s, k, fits) ==
  /\ k \notin g_sha[s] \/ evalFree = 0 \/ ~fits
  /\ Called(c, s, k, "ERR", << >>)
  /\ UNCHANGED <<g_sha, link, sent, late, replies, pools, cache, flushes, connects>>

(* Mutant of EvalIssued: the object of a call that could not be dispatched *)
(* is put back by issue_evalsha() and by its caller.                       *)
EvalIssuedPutsTwice(c, s, k, fits) ==
  /\ k \in g_sha[s] /\ evalFree > 0 /\ fits
  /\ \/ /\ CanSend(s)
        /\ sent' = [sent EXCEPT ![s] = Append(@, Eval(c, k))]
        /\ evalFree' = evalFree - 1 /\ dbFree' = dbFree - 1
        /\ Called(c, s, k, "OK", << >>)
     \/ /\ CannotSend(s)
        /\ Called(c, s, k, "OK", <<"fail">>)
        /\ evalFree' = evalFree + 1
        /\ UNCHANGED <<sent, dbFree>>
  /\ UNCHANGED <<g_sha, link, late, replies, loadFree, cache, flushes, connects>>

(* v_db_evalsha() with issue_evalsha(): when the command cannot be         *)
(* dispatched the callback runs at once, and OK is returned all the same.  *)
EvalIssued(c, s, k, fits) ==
  /\ k \in g_sha[s] /\ evalFree > 0 /\ fits
  /\ \/ /\ CanSend(s)
        /\ sent' = [sent EXCEPT ![s] = Append(@, Eval(c, k))]
        /\ evalFree' = evalFree - 1 /\ dbFree' = dbFree - 1
        /\ Called(c, s, k, "OK", << >>)
     \/ /\ CannotSend(s)
        /\ Called(c, s, k, "OK", <<"fail">>)
        /\ UNCHANGED <<sent, evalFree, dbFree>>
  /\ UNCHANGED <<g_sha, link, late, replies, loadFree, cache, flushes, connects>>

v_db_evalsha(c) ==
  /\ call[c].ret = "none" /\ v_db_script_ready
  /\ \E s \in Shard, k \in Script, fits \in BOOLEAN :
       EvalRefused(c, s, k, fits) \/ EvalIssued(c, s, k, fits)

-----------------------------------------------------------------------------
(* Replies.  The pending object of a reply is put back after its callback, *)
(* so a command sent from the callback needs another one.                  *)

Consumed(s) == replies' = [replies EXCEPT ![s] = Tail(@)]

(* Mutant of Retries: the first reply is not looked at.                    *)
RetriesAnything(c, result) == ~call[c].retried

(* Mutant of Retries: the caller gets the first NOSCRIPT.                  *)
RetriesNever(c, result) == FALSE

(* The first NOSCRIPT of a call.                                           *)
Retries(c, result) == result = "noscript" /\ ~call[c].retried

(* evalsha_reply_cb().  The reload that a retry needs may find a pool      *)
(* empty; the call fails then.                                             *)
evalsha_reply_cb(s, c, result) ==
  /\ \/ /\ Retries(c, result) /\ loadFree > 0 /\ CanSend(s)
        /\ call' = [call EXCEPT ![c].retried = TRUE]
        /\ sent' = [sent EXCEPT ![s] = Append(@, Load(c, call[c].script))]
        /\ loadFree' = loadFree - 1
        /\ UNCHANGED <<evalFree, dbFree>>
     \/ /\ Retries(c, result) /\ ~(loadFree > 0 /\ CanSend(s))
        /\ call' = [Told(c, "fail") EXCEPT ![c].retried = TRUE]
        /\ evalFree' = evalFree + 1 /\ dbFree' = dbFree + 1
        /\ UNCHANGED <<sent, loadFree>>
     \/ /\ ~Retries(c, result)
        /\ call' = Told(c, result)
        /\ evalFree' = evalFree + 1 /\ dbFree' = dbFree + 1
        /\ UNCHANGED <<sent, loadFree>>
  /\ UNCHANGED g_sha

(* Mutant of LoadFailed: the call that waits for the load is forgotten.    *)
LoadFailedSilently(c) ==
  /\ UNCHANGED <<call, evalFree>>
  /\ loadFree' = loadFree + 1 /\ dbFree' = dbFree + 1
  /\ UNCHANGED <<g_sha, sent>>

(* load_reply_cb() when SCRIPT LOAD failed: the resumed call fails too.    *)
LoadFailed(c) ==
  /\ IF c = NoCall THEN UNCHANGED <<call, evalFree>>
     ELSE call' = Told(c, "fail") /\ evalFree' = evalFree + 1
  /\ loadFree' = loadFree + 1 /\ dbFree' = dbFree + 1
  /\ UNCHANGED <<g_sha, sent>>

(* load_reply_cb() when it succeeded: the SHA is cached and the resumed    *)
(* call is issued again.                                                   *)
LoadOk(s, k, c) ==
  /\ g_sha' = [g_sha EXCEPT ![s] = @ \cup {k}]
  /\ loadFree' = loadFree + 1
  /\ \/ /\ c # NoCall /\ CanSend(s)
        /\ sent' = [sent EXCEPT ![s] = Append(@, Eval(c, k))]
        /\ UNCHANGED <<call, evalFree, dbFree>>
     \/ /\ c # NoCall /\ ~CanSend(s)
        /\ call' = Told(c, "fail")
        /\ evalFree' = evalFree + 1 /\ dbFree' = dbFree + 1
        /\ UNCHANGED sent
     \/ /\ c = NoCall
        /\ dbFree' = dbFree + 1
        /\ UNCHANGED <<sent, call, evalFree>>

(* on_reply() hands the oldest reply of a shard to the command's callback. *)
on_reply(s) ==
  /\ replies[s] # << >>
  /\ LET r == Head(replies[s]) IN
       \/ /\ r.cmd.op = "EVALSHA"
          /\ evalsha_reply_cb(s, r.cmd.call, r.result)
       \/ r.cmd.op = "LOAD" /\ r.result = "ok" /\ LoadOk(s, r.cmd.script, r.cmd.call)
       \/ r.cmd.op = "LOAD" /\ r.result # "ok" /\ LoadFailed(r.cmd.call)
  /\ Consumed(s)
  /\ UNCHANGED <<link, late, cache, flushes, connects>>

-----------------------------------------------------------------------------
(* Connecting and disconnecting.                                           *)

(* How many of the reloads of script_reconnect_cb() get the two objects    *)
(* they need; the rest are dropped, and never asked for again.             *)
ReloadCount == Min({ScriptCount, loadFree, dbFree})

(* Mutant of Teardown: the calls that wait for a SCRIPT LOAD are not told. *)
TeardownForgets(s) ==
  LET D == {c \in Due(s) : \E i \in DOMAIN Outstanding(s) :
                             Outstanding(s)[i] = Eval(c, call[c].script)} IN
  /\ call' = [c \in Call |-> IF c \in D THEN Told(c, "fail")[c] ELSE call[c]]
  /\ evalFree' = evalFree + Cardinality(D)
  /\ loadFree' = loadFree + Cardinality(Loads(s))
  /\ dbFree' = dbFree + Len(Outstanding(s))
  /\ sent' = [sent EXCEPT ![s] = << >>]
  /\ late' = IF link[s] = "up" THEN [late EXCEPT ![s] = @ \cup Range(sent[s])] ELSE late
  /\ replies' = [replies EXCEPT ![s] = << >>]

(* Mutant of Teardown: load_reply_cb() keeps its object when there is no   *)
(* reply, so that the reloads of the next connection find the pool empty.  *)
TeardownKeepsLoads(s) ==
  /\ call' = [c \in Call |-> IF c \in Due(s) THEN Told(c, "fail")[c] ELSE call[c]]
  /\ evalFree' = evalFree + Cardinality(Due(s))
  /\ dbFree' = dbFree + Len(Outstanding(s))
  /\ sent' = [sent EXCEPT ![s] = << >>]
  /\ late' = IF link[s] = "up" THEN [late EXCEPT ![s] = @ \cup Range(sent[s])] ELSE late
  /\ replies' = [replies EXCEPT ![s] = << >>]
  /\ UNCHANGED loadFree

(* The end of a context: on_reply() without a reply for every outstanding  *)
(* command.  evalsha_reply_cb() and load_reply_cb() then fail their calls. *)
(* Redis may yet run what is on its way; nothing leaves an attempt.        *)
Teardown(s) ==
  /\ call' = [c \in Call |-> IF c \in Due(s) THEN Told(c, "fail")[c] ELSE call[c]]
  /\ evalFree' = evalFree + Cardinality(Due(s))
  /\ loadFree' = loadFree + Cardinality(Loads(s))
  /\ dbFree' = dbFree + Len(Outstanding(s))
  /\ sent' = [sent EXCEPT ![s] = << >>]
  /\ late' = IF link[s] = "up" THEN [late EXCEPT ![s] = @ \cup Range(sent[s])] ELSE late
  /\ replies' = [replies EXCEPT ![s] = << >>]

(* connect_cb(): with script_reconnect_cb() in it when the attempt         *)
(* succeeded.                                                              *)
Connected(s) ==
  /\ link' = [link EXCEPT ![s] = "up"]
  /\ sent' = [sent EXCEPT ![s] = @ \o [i \in 1 .. ReloadCount |-> Load(NoCall, i - 1)]]
  /\ loadFree' = loadFree - ReloadCount /\ dbFree' = dbFree - ReloadCount
  /\ UNCHANGED <<late, replies, call, evalFree>>

(* When it failed connect_cb() only logs.  hiredis frees the context, and  *)
(* as it was never connected does not call disconnect_cb(), which would    *)
(* clear g_ctx.  No other attempt is made.                                 *)
ConnectFailed(s) ==
  /\ "connect" \in Faults
  /\ link' = [link EXCEPT ![s] = "failed"]
  /\ Teardown(s)

connect_cb(s) ==
  /\ link[s] = "connecting"
  /\ Connected(s) \/ ConnectFailed(s)
  /\ UNCHANGED <<g_sha, cache, flushes, connects>>

(* The connection breaks; v_stub_db.c does not reconnect by itself.        *)
disconnect_cb(s) ==
  /\ "disconnect" \in Faults /\ link[s] = "up"
  /\ link' = [link EXCEPT ![s] = "down"]
  /\ Teardown(s)
  /\ UNCHANGED <<g_sha, cache, flushes, connects>>

(* An attempt that cannot even begin leaves g_ctx as it is: cleared by     *)
(* disconnect_cb() if the old context was up, pointing to it if not.       *)
shard_connect(s) ==
  \/ link' = [link EXCEPT ![s] = "connecting"]
  \/ /\ "connect" \in Faults
     /\ link' = [link EXCEPT ![s] = IF @ \in {"up", "down"} THEN "down" ELSE "failed"]

(* The old context, if any, is freed and a new connection attempt is made. *)
(* Freeing a failed one again calls back what its queue has taken.         *)
v_stub_db_test_force_reconnect(s) ==
  /\ connects[s] < MaxConnect
  /\ connects' = [connects EXCEPT ![s] = @ + 1]
  /\ shard_connect(s)
  /\ Teardown(s)
  /\ UNCHANGED <<g_sha, cache, flushes>>

-----------------------------------------------------------------------------
(* Redis.                                                                  *)

(* What a command may be answered, given what the shard knows.  An error   *)
(* reply (out of memory, a replica that is read only) has no effect.       *)
Results(s, cmd) ==
  LET known == cmd.op = "LOAD" \/ cmd.script \in cache[s] IN
  (IF known THEN {"ok"} ELSE {"noscript"})
    \cup (IF "error" \in Faults THEN {"error"} ELSE {})

RedisExec(s) ==
  /\ link[s] = "up" /\ sent[s] # << >>
  /\ LET cmd == Head(sent[s]) IN
     \E result \in Results(s, cmd) :
       /\ replies' = [replies EXCEPT ![s] =
                        Append(@, [cmd |-> cmd, result |-> result])]
       /\ cache' = IF cmd.op = "LOAD" /\ result = "ok"
                   THEN [cache EXCEPT ![s] = @ \cup {cmd.script}] ELSE cache
       /\ call' = IF cmd.op = "EVALSHA" /\ result = "ok"
                  THEN [call EXCEPT ![cmd.call].ran = @ + 1] ELSE call
  /\ sent' = [sent EXCEPT ![s] = Tail(@)]
  /\ UNCHANGED <<g_sha, link, late, pools, flushes, connects>>

(* A command of a broken connection takes effect, and its reply goes       *)
(* nowhere.  One that has none, or is lost, stays in the set.  So does a   *)
(* SCRIPT LOAD: another broken connection may carry the same.              *)
LateExec(s, cmd) ==
  /\ cmd \in late[s]
  /\ \/ /\ cmd.op = "LOAD"
        /\ cache' = [cache EXCEPT ![s] = @ \cup {cmd.script}]
        /\ UNCHANGED <<late, call>>
     \/ /\ cmd.op = "EVALSHA" /\ cmd.script \in cache[s]
        /\ late' = [late EXCEPT ![s] = @ \ {cmd}]
        /\ call' = [call EXCEPT ![cmd.call].ran = @ + 1]
        /\ UNCHANGED cache
  /\ UNCHANGED <<g_sha, link, sent, replies, pools, flushes, connects>>

(* A promoted replica or a restarted master has an empty script cache.     *)
RedisForgets(s) ==
  /\ flushes[s] < MaxFlush
  /\ flushes' = [flushes EXCEPT ![s] = @ + 1]
  /\ cache' = [cache EXCEPT ![s] = {}]
  /\ UNCHANGED <<g_sha, link, sent, late, replies, call, pools, connects>>

-----------------------------------------------------------------------------

Next ==
  \/ \E c \in Call : v_db_evalsha(c)
  \/ \E s \in Shard :
       \/ on_reply(s)
       \/ connect_cb(s)
       \/ disconnect_cb(s)
       \/ v_stub_db_test_force_reconnect(s)
       \/ RedisExec(s)
       \/ RedisForgets(s)
       \/ \E cmd \in late[s] : LateExec(s, cmd)

(* The I/O lcore polls the event loop for ever, Redis answers a connection *)
(* that stays up, and a connection attempt succeeds or fails.              *)
Fairness ==
  \A s \in Shard : WF_vars(on_reply(s)) /\ WF_vars(RedisExec(s)) /\ WF_vars(connect_cb(s))

Spec == Init /\ [][Next]_vars /\ Fairness

-----------------------------------------------------------------------------
(* Properties.                                                             *)

(* Where a call's struct v_evalsha_pending is referred to.                 *)
Places(c) ==
  {sc \in Shard \X (1 .. PendingCap) :
     sc[2] \in DOMAIN Outstanding(sc[1]) /\ Outstanding(sc[1])[sc[2]].call = c}

(* v_db_evalsha(), evalsha_reply_cb(), load_reply_cb(): through retries,   *)
(* reloads and broken connections an accepted call is owned by exactly one *)
(* outstanding command or has been answered, once; a refused one is never  *)
(* answered.                                                               *)
AnsweredOnce ==
  \A c \in Call :
    Len(call[c].answers) + Cardinality(Places(c)) =
      IF call[c].ret = "OK" THEN 1 ELSE 0

(* rte_mempool_put() in the callbacks of v_db_script.c and v_stub_db.c:    *)
(* each pool holds what no outstanding command uses, so nothing leaks and  *)
(* nothing is put back twice on any error path.                            *)
PoolsBaseline ==
  /\ evalFree = EvalCap - Cardinality({c \in Call : Places(c) # {}})
  /\ loadFree = LoadCap - Cardinality({sc \in Shard \X (1 .. PendingCap) :
                                         sc[2] \in Loads(sc[1])})
  /\ dbFree = PendingCap - Cardinality({sc \in Shard \X (1 .. PendingCap) :
                                          sc[2] \in DOMAIN Outstanding(sc[1])})

(* evalsha_reply_cb(): one retry is enough.  A caller is told NOSCRIPT     *)
(* only when the shard lost its cache again after the call was accepted,   *)
(* twice if it knew the script then.                                       *)
RetrySuffices ==
  \A c \in Call :
    call[c].answers = <<"noscript">> => flushes[call[c].shard] > call[c].spared

(* The answer of a call, for the abstract specification.                   *)
FirstAnswer(c) == IF call[c].answers = << >> THEN "none" ELSE Head(call[c].answers)

Calls == INSTANCE ScriptCalls WITH
  accepted <- [c \in Call |-> call[c].ret],
  answer <- [c \in Call |-> FirstAnswer(c)],
  ran <- [c \in Call |-> call[c].ran]

(* v_db_script.c implements ScriptCalls: a reply never contradicts what    *)
(* Redis did, no script runs twice for one call although it may be sent    *)
(* twice and may run after its connection broke, and every accepted call   *)
(* is answered in the end unless the attempt to connect a shard failed for *)
(* good.                                                                   *)
ImplementsCalls ==
  /\ Calls!Init /\ [][Calls!Next]_(Calls!vars)
  /\ (\A s \in Shard : []<>(link[s] # "failed")) => Calls!Fairness

(* connect_cb(), script_reconnect_cb(), load_reply_cb(): unless Redis      *)
(* refuses a SCRIPT LOAD, a shard whose connection attempt succeeds and    *)
(* that does not lose the connection has every SHA in the end, so that     *)
(* main() gets past v_db_script_ready().                                   *)
BecomesReady ==
  \A s \in Shard :
    [](\A i \in DOMAIN replies[s] :
         replies[s][i].cmd.op = "LOAD" => replies[s][i].result = "ok")
      => (link[s] = "connecting" ~> (g_sha[s] = Script \/ link[s] \in {"down", "failed"}))
=============================================================================
