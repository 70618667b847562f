------------------------------ MODULE DNSClient ------------------------------
(***************************************************************************)
(* Exchange, ExchangeAsync and the lookups of dns/client.go for one        *)
(* question on one transport: the response cache, the sharing of queries   *)
(* through cacheLock, background refresh and the rejected-response cache.  *)
(*                                                                         *)
(* Cache and cacheLock are keyed by the network environment, which may     *)
(* change at any time; 0 is an environment that is not known.  All queries *)
(* are simple ones that may use the cache, and have the same timeout.      *)
(***************************************************************************)
EXTENDS Naturals

CONSTANTS
    Queries, None,
    Envs,        \* values of environmentHash, 0 among them
    Lookups,     \* queries that come from Lookup
    Asyncs,      \* queries that come from ExchangeAsync
    Checked,     \* queries with a responseChecker
    Impatient    \* queries with DisableOptimisticCache

ASSUME DNSClientAssumption ==
    /\ 0 \in Envs /\ Envs \subseteq Nat /\ None \notin Queries /\ None \notin Envs
    /\ Lookups \cup Asyncs \cup Checked \cup Impatient \subseteq Queries

VARIABLES
    env,        \* c.environmentHash(transport)
    cache,      \* c.cache or c.dnsCache: the entry of each key, or NoEntry
    rdrc,       \* c.rdrc holds the question
    refresh,    \* c.backgroundRefresh: keys of running refreshes
    cacheLock,  \* c.cacheLock: the query that stored the channel, or None
    closed,     \* queries whose channel has been closed
    op          \* of each query, its position and local variables:
                \* key is operation.cacheKey, cond the query whose channel it
                \* waits for, ctx that its context has ended

cacheVars == <<cache, rdrc, refresh>>
lockVars == <<cacheLock, closed>>
vars == <<env, cacheVars, lockVars, op>>

\* An entry remembers the environment under which its exchange began.
NoEntry == [began |-> None, age |-> None]

At(label) == [pc |-> label, key |-> None, cond |-> None, allowWait |-> TRUE, ctx |-> FALSE, reply |-> None]

Init ==
    /\ env \in Envs
    /\ cache = [e \in Envs |-> NoEntry] /\ rdrc = FALSE /\ refresh = {}
    /\ cacheLock = [e \in Envs |-> None] /\ closed = {}
    /\ op = [q \in Queries |-> [At("idle") EXCEPT !.allowWait = q \notin Asyncs]]

pc(q) == op[q].pc
key(q) == op[q].key
Goto(q, label) == op' = [op EXCEPT ![q] = IF label = "done" THEN At("done") ELSE [@ EXCEPT !.pc = label]]
Holds(q) == \E e \in Envs : cacheLock[e] = q

FinishUnlocked(q) == Goto(q, "done")   \* mutant: returns without operation.release

\* Return from beginExchange or Exchange, after operation.release.
Finish(q) == Goto(q, IF Holds(q) THEN "release" ELSE "done")

-----------------------------------------------------------------------------
(* beginExchange, and questionCache before it                              *)

Start(q) ==
    /\ pc(q) = "idle"
    /\ Goto(q, IF q \in Lookups THEN "lookup" ELSE "begin")
    /\ UNCHANGED <<env, cacheVars, lockVars>>

\* The context has ended, or the question is refused without an exchange.
BeginEarly(q) ==
    /\ pc(q) = "begin"
    /\ Goto(q, "done")
    /\ UNCHANGED <<env, cacheVars, lockVars>>

newCacheKey(q) ==
    /\ pc(q) \in {"begin", "loop", "lookup"} /\ ~(pc(q) = "begin" /\ op[q].ctx)
    /\ op' = [op EXCEPT ![q].key = env, ![q].pc = IF @ = "lookup" THEN "peek" ELSE "join"]
    /\ UNCHANGED <<env, cacheVars, lockVars>>

\* mutant: cacheLock.Store
JoinStore(q) ==
    /\ pc(q) = "join"
    /\ op' = [op EXCEPT ![q].pc = "load", ![q].cond = cacheLock[key(q)]]
    /\ cacheLock' = [cacheLock EXCEPT ![key(q)] = q]
    /\ UNCHANGED <<env, cacheVars, closed>>

\* cacheLock.LoadOrStore
Join(q) ==
    /\ pc(q) = "join"
    /\ op' = [op EXCEPT ![q].pc = "load", ![q].cond = cacheLock[key(q)]]
    /\ cacheLock' = [cacheLock EXCEPT ![key(q)] = IF @ = None THEN q ELSE @]
    /\ UNCHANGED <<env, cacheVars, closed>>

\* What loadResponse returns is fresh, or stale and good enough for q.
Usable(q) ==
    LET age == cache[key(q)].age
    IN  age = "fresh" \/ (age = "stale" /\ q \notin Impatient)

\* loadResponse has a response; a stale one is refreshed in the background.
LoadHit(q) ==
    /\ pc(q) \in {"load", "peek"} /\ Usable(q)
    /\ refresh' = IF cache[key(q)].age = "stale" THEN refresh \cup {key(q)} ELSE refresh
    /\ Finish(q)
    /\ UNCHANGED <<env, cache, rdrc, lockVars>>

\* Nothing usable: the query that stored the channel goes on to exchange,
\* the others wait for it; ExchangeAsync does so in a new call of Exchange.
LoadMiss(q) ==
    /\ pc(q) \in {"load", "peek"} /\ ~Usable(q)
    /\ \/ pc(q) = "peek" /\ Goto(q, "begin")
       \/ pc(q) = "load" /\ Holds(q) /\ Goto(q, "check")
       \/ pc(q) = "load" /\ ~Holds(q) /\ op[q].allowWait /\ Goto(q, "wait")
       \/ /\ pc(q) = "load" /\ ~Holds(q) /\ ~op[q].allowWait
          /\ op' = [op EXCEPT ![q] = [At("begin") EXCEPT !.ctx = op[q].ctx]]
    /\ UNCHANGED <<env, cacheVars, lockVars>>

\* The query it waited for is over: it tries again in the environment of now,
\* unless its own context has ended, too.
WaitOver(q) ==
    /\ pc(q) = "wait" /\ (op[q].cond \in closed \/ op[q].ctx)
    /\ IF op[q].ctx THEN Goto(q, "done") ELSE op' = [op EXCEPT ![q] = At("loop")]
    /\ UNCHANGED <<env, cacheVars, lockVars>>

\* The transport may be the one the query came from, or rdrc may know that
\* its answer is going to be rejected.
Check(q) ==
    /\ pc(q) = "check"
    /\ \/ Finish(q)
       \/ ~(q \in Checked /\ rdrc) /\ Goto(q, "exchange")
    /\ UNCHANGED <<env, cacheVars, lockVars>>

-----------------------------------------------------------------------------
(* The exchange, finishExchange and the release of cacheLock               *)

\* A response that fails the responseChecker of those that have one is
\* "unwanted"; "servfail" is any Rcode but success and name error.
Replies == {"ok", "unwanted", "servfail", "error"}

exchangeToTransport(q) ==
    /\ pc(q) = "exchange"
    /\ \E r \in Replies : op' = [op EXCEPT ![q].pc = "finish", ![q].reply = r]
    /\ UNCHANGED <<env, cacheVars, lockVars>>

finishCacheKeyNow(k) == {env}   \* mutant: the environment of now, whatever it was

\* The key to store under, if any.
finishCacheKey(k) == IF k \in {env, 0} THEN {env} ELSE {}

\* The response to an exchange that began with key k is stored, unless its
\* time to live is zero.  The environment is read in the same step: one that
\* changes before the store does not change the key.
storeCache(k) ==
    \/ cache' = [e \in Envs |-> IF e \in finishCacheKey(k) THEN [began |-> k, age |-> "fresh"] ELSE cache[e]]
    \/ UNCHANGED cache

\* What becomes of response r to an exchange that began with key k.
Settle(k, r, checked) ==
    \/ (r = "ok" \/ (r = "unwanted" /\ ~checked)) /\ storeCache(k) /\ UNCHANGED rdrc
    \/ r = "unwanted" /\ checked /\ rdrc' = TRUE /\ UNCHANGED cache
    \/ r \in {"servfail", "error"} /\ UNCHANGED <<cache, rdrc>>

finishExchange(q) ==
    /\ pc(q) = "finish"
    /\ Settle(key(q), op[q].reply, q \in Checked)
    /\ Finish(q)
    /\ UNCHANGED <<env, refresh, lockVars>>

releaseDelete(q) ==
    /\ pc(q) = "release"
    /\ cacheLock' = [cacheLock EXCEPT ![key(q)] = None]
    /\ Goto(q, "close")
    /\ UNCHANGED <<env, cacheVars, closed>>

releaseClose(q) ==
    /\ pc(q) = "close"
    /\ closed' = closed \cup {q}
    /\ Goto(q, "done")
    /\ UNCHANGED <<env, cacheVars, cacheLock>>

-----------------------------------------------------------------------------
(* Background refresh, ClearCache, time and the environment                *)

\* backgroundRefreshDNS ends, with the options of some query.  Unlike
\* finishExchange it remembers any Rcode it rejects.
RefreshEnd(k) ==
    /\ k \in refresh
    /\ refresh' = refresh \ {k}
    /\ \E q \in Queries, r \in Replies :
          \/ Settle(k, r, q \in Checked)
          \/ q \in Checked /\ r = "servfail" /\ rdrc' = TRUE /\ UNCHANGED cache
    /\ UNCHANGED <<env, lockVars, op>>

ClearCache ==
    /\ cache' = [e \in Envs |-> NoEntry]
    /\ UNCHANGED <<env, rdrc, refresh, lockVars, op>>

\* Entries expire, and are dropped once optimisticTimeout has passed as well
\* or to make room.
Age(e) ==
    /\ cache[e] # NoEntry
    /\ \E entry \in {NoEntry, [cache[e] EXCEPT !.age = "stale"]} : cache' = [cache EXCEPT ![e] = entry]
    /\ UNCHANGED <<env, rdrc, refresh, lockVars, op>>

ChangeEnvironment ==
    /\ env' \in Envs \ {env}
    /\ UNCHANGED <<cacheVars, lockVars, op>>

\* Later on the context only makes the transport fail.
EndContext(q) ==
    /\ pc(q) \in {"begin", "loop", "join", "load", "wait"} /\ ~op[q].ctx
    /\ op' = [op EXCEPT ![q].ctx = TRUE]
    /\ UNCHANGED <<env, cacheVars, lockVars>>

Step(q) ==
    \/ BeginEarly(q) \/ newCacheKey(q) \/ Join(q) \/ LoadHit(q) \/ LoadMiss(q) \/ WaitOver(q) \/ Check(q)
    \/ exchangeToTransport(q) \/ finishExchange(q) \/ releaseDelete(q) \/ releaseClose(q)

Next ==
    \/ \E q \in Queries : Start(q) \/ Step(q) \/ EndContext(q)
    \/ \E e \in Envs : RefreshEnd(e) \/ Age(e)
    \/ ClearCache \/ ChangeEnvironment

\* The goroutines run on and the transport answers or fails; no context need
\* ever end.
Fairness == \A q \in Queries : WF_vars(Step(q))

Spec == Init /\ [][Next]_vars /\ Fairness

-----------------------------------------------------------------------------
(* Properties                                                              *)

\* "old answer must not populate the new environment's cache"
\* (client_dedup_test.go:145): whoever stores it, and however the environment
\* changes meanwhile, the response to an exchange that began in a known
\* environment is never found in the cache of another.
OwnEnvironment == \A e \in Envs : cache[e] # NoEntry => cache[e].began \in {0, e}

\* cacheLock is held exactly by the queries between LoadOrStore and release:
\* two queries with one key never exchange at once, no query takes the lock
\* of another away, and "completed queries must release their locks"
\* (client_dedup_test.go:170), on the early returns too.
LocksExact ==
    /\ \A e \in Envs : cacheLock[e] # None =>
          key(cacheLock[e]) = e /\ pc(cacheLock[e]) \in {"load", "check", "exchange", "finish", "release"}
    /\ \A q \in Queries : pc(q) \in {"check", "exchange", "finish", "release"} => cacheLock[key(q)] = q

\* Every query comes to an end even if no context ever does: those that wait
\* for another one are woken by it, and do not wait in turns for ever.
EveryQueryEnds == \A q \in Queries : pc(q) \in {"begin", "lookup"} ~> pc(q) = "done"

-----------------------------------------------------------------------------
(* The inductive invariant                                                 *)

Working == {"check", "exchange", "finish", "release"}
Labels == {"idle", "lookup", "peek", "begin", "loop", "join", "load", "wait", "close", "done"} \cup Working
Operations ==
    [pc : Labels, key : Envs \cup {None}, cond : Queries \cup {None},
     allowWait : BOOLEAN, ctx : BOOLEAN, reply : Replies \cup {None}]
Entries == [began : Envs \cup {None}, age : {"fresh", "stale", None}]

TypeOK ==
    /\ env \in Envs
    /\ cache \in [Envs -> Entries] /\ rdrc \in BOOLEAN /\ refresh \subseteq Envs
    /\ cacheLock \in [Envs -> Queries \cup {None}] /\ closed \subseteq Queries
    /\ op \in [Queries -> Operations]

\* Between newCacheKey and the release a query has a key.
HasKey == \A q \in Queries : pc(q) \in {"peek", "join", "load"} \cup Working => key(q) \in Envs

Inv == TypeOK /\ HasKey /\ OwnEnvironment /\ LocksExact
=============================================================================
