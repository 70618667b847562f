------------------------------ MODULE DNSProofs ------------------------------
(***************************************************************************)
(* Proofs about three parts of the resolver, each for every value of its   *)
(* constants: the response cache and the locks of the client (DNSClient),  *)
(* the buffered cache in the database (DNSCacheFile) and the probing of    *)
(* shared connections (ReuseProbe).                                        *)
(***************************************************************************)
EXTENDS DNSClient, DNSCacheFile, ReuseProbe, FiniteSetTheorems, TLAPS

-----------------------------------------------------------------------------
(* DNSClient                                                               *)

\* Goto, the step of a query to its next position, keeps the types, its key
\* unless it is done, and every other query.
LEMMA GotoFacts ==
    ASSUME op \in [Queries -> Operations], NEW q \in Queries, NEW label \in Labels, Goto(q, label)
    PROVE  /\ op' \in [Queries -> Operations]
           /\ op'[q].pc = label
           /\ label # "done" => op'[q].key = op[q].key
           /\ \A p \in Queries \ {q} : op'[p] = op[p]
  BY DEF Goto, At, Operations, Labels

\* Finish goes to "release" or "done", as q holds a lock or not.
LEMMA FinishFacts ==
    ASSUME op \in [Queries -> Operations], NEW q \in Queries, Finish(q)
    PROVE  /\ op' \in [Queries -> Operations]
           /\ op'[q].pc = IF Holds(q) THEN "release" ELSE "done"
           /\ Holds(q) => op'[q].key = op[q].key
           /\ \A p \in Queries \ {q} : op'[p] = op[p]
  <1> DEFINE label == IF Holds(q) THEN "release" ELSE "done"
  <1>1. label \in Labels /\ Goto(q, label) /\ (Holds(q) => label # "done")
    BY DEF Labels, Working, Finish
  <1> HIDE DEF label
  <1>2. QED
    BY <1>1, GotoFacts DEF label

\* A step that leaves cacheLock and every query but q alone preserves
\* LocksExact if q does not hold a lock and does not get to work, or keeps its
\* key and goes on working.
LEMMA LocksKept ==
    ASSUME TypeOK, LocksExact, UNCHANGED cacheLock, NEW q \in Queries,
           \A p \in Queries \ {q} : op'[p] = op[p],
           \/ ~Holds(q) /\ op'[q].pc \notin Working
           \/ Holds(q) /\ op'[q].key = op[q].key /\ op'[q].pc \in {"load"} \cup Working
    PROVE  LocksExact'
  <1>1. ASSUME NEW e \in Envs, cacheLock[e] # None
        PROVE  op'[cacheLock[e]].key = e /\ op'[cacheLock[e]].pc \in {"load"} \cup Working
    <2>1. cacheLock[e] \in Queries
      BY <1>1 DEF TypeOK
    <2>2. CASE cacheLock[e] = q
      BY <1>1, <2>2 DEF LocksExact, Holds, key
    <2>3. CASE cacheLock[e] # q
      BY <1>1, <2>1, <2>3 DEF LocksExact, pc, key, Working
    <2>4. QED
      BY <2>2, <2>3
  <1>2. ASSUME NEW p \in Queries, op'[p].pc \in Working
        PROVE  cacheLock[op'[p].key] = p
    <2>1. CASE p = q
      <3>1. PICK e \in Envs : cacheLock[e] = q
        BY <1>2, <2>1 DEF Holds
      <3>2. op[q].key = e
        BY <3>1, DNSClientAssumption DEF LocksExact, key
      <3>3. QED
        BY <1>2, <2>1, <3>1, <3>2 DEF Holds
    <2>2. CASE p # q
      BY <1>2, <2>2 DEF LocksExact, pc, key, Working
    <2>3. QED
      BY <2>1, <2>2
  <1>3. QED
    BY <1>1, <1>2 DEF LocksExact, pc, key, Working

\* storeCache keeps what is in the cache of another environment out of it.
LEMMA StoreKeeps ==
    ASSUME TypeOK, OwnEnvironment, NEW k \in Envs, storeCache(k)
    PROVE  cache' \in [Envs -> Entries] /\ OwnEnvironment'
  <1>1. CASE UNCHANGED cache
    BY <1>1 DEF TypeOK, OwnEnvironment
  <1>2. CASE cache' = [e \in Envs |-> IF e \in finishCacheKey(k) THEN [began |-> k, age |-> "fresh"] ELSE cache[e]]
    <2>1. \A e \in finishCacheKey(k) : k \in {0, e}
      BY DEF finishCacheKey
    <2>2. [began |-> k, age |-> "fresh"] \in Entries
      BY DEF Entries
    <2>3. cache' \in [Envs -> Entries]
      BY <1>2, <2>2 DEF TypeOK
    <2>4. OwnEnvironment'
      BY <1>2, <2>1 DEF OwnEnvironment
    <2>5. QED
      BY <2>3, <2>4
  <1>3. QED
    BY <1>1, <1>2 DEF storeCache

\* What becomes of a response keeps the cache in order.
LEMMA SettleKeeps ==
    ASSUME TypeOK, OwnEnvironment, NEW k \in Envs, NEW r, NEW checked, Settle(k, r, checked)
    PROVE  cache' \in [Envs -> Entries] /\ rdrc' \in BOOLEAN /\ OwnEnvironment'
  <1>1. CASE storeCache(k) /\ UNCHANGED rdrc
    BY <1>1, StoreKeeps DEF TypeOK
  <1>2. CASE UNCHANGED cache /\ (rdrc' = TRUE \/ UNCHANGED rdrc)
    BY <1>2, Zenon DEF TypeOK, OwnEnvironment
  <1>3. QED
    BY <1>1, <1>2, Zenon DEF Settle

\* Every step of a query preserves the invariant.
LEMMA QueryStep ==
    ASSUME Inv, NEW q \in Queries, Start(q) \/ Step(q) \/ EndContext(q)
    PROVE  Inv'
  <1> USE DEF Inv
  <1> DEFINE Rest == /\ env' \in Envs /\ refresh' \subseteq Envs /\ closed' \subseteq Queries
                     /\ cache' \in [Envs -> Entries] /\ rdrc' \in BOOLEAN /\ OwnEnvironment'
             Others == \A p \in Queries \ {q} : op'[p] = op[p]
             Keyed == op'[q].pc \in {"peek", "join", "load"} \cup Working => op'[q].key \in Envs
  <1>a. ASSUME Rest, op' \in [Queries -> Operations], Others, Keyed, UNCHANGED cacheLock, LocksExact'
        PROVE  Inv'
    <2>1. TypeOK'
      BY <1>a DEF TypeOK
    <2>2. HasKey'
      BY <1>a DEF HasKey, pc, key
    <2>3. QED
      BY <1>a, <2>1, <2>2
  <1>b. ASSUME env' = env, cache' = cache, rdrc' = rdrc, refresh' = refresh, closed' = closed
        PROVE  Rest
    BY <1>b DEF TypeOK, OwnEnvironment
  <1>c. Holds(q) => pc(q) \in {"load"} \cup Working /\ key(q) \in Envs
    BY DNSClientAssumption DEF Holds, LocksExact, Working
  <1>d. pc(q) \in Working => Holds(q) /\ key(q) \in Envs
    BY DEF Holds, LocksExact, HasKey, Working
  <1>e. op \in [Queries -> Operations]
    BY DEF TypeOK
  <1> HIDE DEF Inv
  <1>f. Inv
    OBVIOUS
  <1>g. TypeOK /\ LocksExact /\ HasKey /\ OwnEnvironment
    BY <1>f DEF Inv
  <1>h. ASSUME Rest, Finish(q), UNCHANGED cacheLock
        PROVE  Inv'
    <2>1. op' \in [Queries -> Operations] /\ Others
      BY <1>e, <1>h, FinishFacts
    <2>2. /\ Holds(q) => op'[q].pc = "release" /\ op'[q].key = op[q].key
          /\ ~Holds(q) => op'[q].pc = "done"
      BY <1>e, <1>h, FinishFacts
    <2>3. Keyed
      BY <1>c, <2>2 DEF key, Working
    <2>4. LocksExact'
      BY <1>g, <1>h, <2>1, <2>2, LocksKept DEF Working
    <2>5. QED
      BY <1>a, <1>h, <2>1, <2>3, <2>4
  <1>i. ASSUME Rest, NEW label \in Labels, Goto(q, label), UNCHANGED cacheLock,
               \/ ~Holds(q) /\ label \notin {"peek", "join", "load"} \cup Working
               \/ Holds(q) /\ label \in Working
        PROVE  Inv'
    <2>1. op' \in [Queries -> Operations] /\ Others /\ op'[q].pc = label
      BY <1>e, <1>i, GotoFacts
    <2>2. Holds(q) => op'[q].key = op[q].key
      BY <1>e, <1>i, GotoFacts DEF Working
    <2>3. Keyed
      BY <1>c, <1>i, <2>1, <2>2 DEF key
    <2>4. LocksExact'
      BY <1>g, <1>i, <2>1, <2>2, LocksKept
    <2>5. QED
      BY <1>a, <1>i, <2>1, <2>3, <2>4
  <1> HIDE DEF Rest
  <1>1. CASE Start(q)
    <2>1. Rest /\ UNCHANGED cacheLock /\ ~Holds(q)
      BY <1>1, <1>b, <1>c DEF Start, cacheVars, lockVars, Working
    <2>2. PICK label \in {"lookup", "begin"} : Goto(q, label)
      BY <1>1 DEF Start
    <2>3. QED
      BY <1>i, <2>1, <2>2 DEF Labels, Working
  <1>2. CASE BeginEarly(q)
    <2>1. Rest /\ UNCHANGED cacheLock /\ ~Holds(q) /\ Goto(q, "done")
      BY <1>2, <1>b, <1>c DEF BeginEarly, cacheVars, lockVars, Working
    <2>2. QED
      BY <1>i, <2>1 DEF Labels, Working
  <1>3. CASE newCacheKey(q)
    <2>1. Rest /\ UNCHANGED cacheLock /\ ~Holds(q)
      BY <1>3, <1>b, <1>c DEF newCacheKey, cacheVars, lockVars, Working
    <2>2. op' \in [Queries -> Operations] /\ Others /\ op'[q].key = env /\ op'[q].pc \in {"peek", "join"}
      <3>1. op' = [op EXCEPT ![q].key = env, ![q].pc = IF @ = "lookup" THEN "peek" ELSE "join"]
        BY <1>3 DEF newCacheKey
      <3>2. env \in Envs
        BY <1>g DEF TypeOK
      <3>3. Others /\ op'[q].key = env /\ op'[q].pc \in {"peek", "join"}
        BY <1>e, <3>1 DEF Operations
      <3>4. op'[q] \in Operations
        BY <1>e, <3>1, <3>2, ZenonT(30) DEF Operations, Labels
      <3>5. QED
        BY <1>e, <3>1, <3>3, <3>4
    <2>3. Keyed
      BY <1>g, <2>2 DEF TypeOK
    <2>4. LocksExact'
      BY <1>g, <2>1, <2>2, LocksKept DEF Working
    <2>5. QED
      BY <1>a, <2>1, <2>2, <2>3, <2>4
  <1>4. CASE Join(q)
    <2>1. Rest
      <3>1. UNCHANGED <<env, cache, rdrc, refresh, closed>>
        BY <1>4 DEF Join, cacheVars
      <3>2. QED
        BY <3>1, <1>b
    <2>2. op' \in [Queries -> Operations] /\ Others /\ op'[q].key = op[q].key /\ op'[q].pc = "load"
      <3>1. op' = [op EXCEPT ![q].pc = "load", ![q].cond = cacheLock[key(q)]]
        BY <1>4 DEF Join
      <3>2. cacheLock[key(q)] \in Queries \cup {None}
        BY <1>4, <1>g DEF Join, TypeOK, HasKey
      <3>3. Others /\ op'[q].key = op[q].key /\ op'[q].pc = "load"
        BY <1>e, <3>1 DEF Operations
      <3>4. op'[q] \in Operations
        BY <1>e, <3>1, <3>2, ZenonT(30) DEF Operations, Labels
      <3>5. QED
        BY <1>e, <3>1, <3>3, <3>4
    <2>3. key(q) \in Envs /\ ~Holds(q)
      BY <1>4, <1>c, <1>g DEF Join, HasKey, Working
    <2>4. cacheLock' = [cacheLock EXCEPT ![key(q)] = IF @ = None THEN q ELSE @]
      BY <1>4 DEF Join
    <2>5. TypeOK'
      BY <1>g, <2>1, <2>2, <2>3, <2>4 DEF TypeOK, Rest
    <2>6. HasKey'
      BY <1>g, <2>2, <2>3 DEF HasKey, pc, key
    <2>7. ASSUME NEW e \in Envs, cacheLock'[e] # None
          PROVE  op'[cacheLock'[e]].key = e /\ op'[cacheLock'[e]].pc \in {"load"} \cup Working
      <3>1. CASE cacheLock'[e] = q
        BY <1>g, <2>2, <2>3, <2>4, <2>7, <3>1 DEF TypeOK, Holds, key
      <3>2. CASE cacheLock'[e] # q
        <4>1. cacheLock'[e] = cacheLock[e] /\ cacheLock[e] \in Queries
          BY <1>g, <2>3, <2>4, <2>7, <3>2 DEF TypeOK
        <4>2. QED
          BY <1>g, <2>2, <2>7, <3>2, <4>1 DEF LocksExact, pc, key, Working
      <3>3. QED
        BY <3>1, <3>2
    <2>8. ASSUME NEW p \in Queries, op'[p].pc \in Working
          PROVE  cacheLock'[op'[p].key] = p
      <3>1. p # q
        BY <2>2, <2>8 DEF Working
      <3>2. op'[p] = op[p] /\ cacheLock[op[p].key] = p /\ op[p].key \in Envs
        BY <1>g, <2>2, <2>8, <3>1 DEF LocksExact, HasKey, pc, key, Working
      <3>3. QED
        BY <1>g, <2>3, <2>4, <3>2, DNSClientAssumption DEF TypeOK
    <2>9. LocksExact'
      BY <2>7, <2>8 DEF LocksExact, pc, key, Working
    <2>10. QED
      BY <2>1, <2>5, <2>6, <2>9 DEF Inv, Rest
  <1>5. CASE LoadHit(q)
    <2>1. pc(q) \in {"load", "peek"} /\ key(q) \in Envs
      BY <1>5, <1>g DEF LoadHit, HasKey
    <2>2. Rest /\ Finish(q) /\ UNCHANGED cacheLock
      BY <1>5, <1>g, <2>1 DEF LoadHit, Rest, TypeOK, OwnEnvironment, lockVars
    <2>3. QED
      BY <1>h, <2>2
  <1>6. CASE LoadMiss(q)
    <2>1. Rest /\ UNCHANGED cacheLock
      BY <1>6, <1>b DEF LoadMiss, cacheVars, lockVars
    <2>2. CASE pc(q) = "peek" /\ Goto(q, "begin")
      BY <1>c, <1>i, <2>1, <2>2 DEF Labels, Working
    <2>3. CASE Holds(q) /\ Goto(q, "check")
      BY <1>i, <2>1, <2>3 DEF Labels, Working
    <2>4. CASE ~Holds(q) /\ Goto(q, "wait")
      BY <1>i, <2>1, <2>4 DEF Labels, Working
    <2>5. CASE ~Holds(q) /\ op' = [op EXCEPT ![q] = [At("begin") EXCEPT !.ctx = op[q].ctx]]
      <3>1. op' \in [Queries -> Operations] /\ Others /\ op'[q].pc = "begin"
        BY <1>e, <2>5, Zenon DEF At, Operations, Labels
      <3>2. LocksExact'
        BY <1>g, <2>1, <2>5, <3>1, LocksKept DEF Working
      <3>3. QED
        BY <1>a, <2>1, <3>1, <3>2 DEF Working
    <2>6. QED
      BY <1>6, <2>2, <2>3, <2>4, <2>5 DEF LoadMiss
  <1>7. CASE WaitOver(q)
    <2>1. Rest /\ UNCHANGED cacheLock /\ ~Holds(q)
      BY <1>7, <1>b, <1>c DEF WaitOver, cacheVars, lockVars, Working
    <2>2. CASE Goto(q, "done")
      BY <1>i, <2>1, <2>2 DEF Labels, Working
    <2>3. CASE op' = [op EXCEPT ![q] = At("loop")]
      <3>1. op' \in [Queries -> Operations] /\ Others /\ op'[q].pc = "loop"
        BY <1>e, <2>3 DEF At, Operations, Labels
      <3>2. LocksExact'
        BY <1>g, <2>1, <3>1, LocksKept DEF Working
      <3>3. QED
        BY <1>a, <2>1, <3>1, <3>2 DEF Working
    <2>4. QED
      BY <1>7, <2>2, <2>3 DEF WaitOver
  <1>8. CASE Check(q)
    <2>1. Rest /\ UNCHANGED cacheLock /\ Holds(q)
      BY <1>8, <1>b, <1>d DEF Check, cacheVars, lockVars, Working
    <2>2. CASE Finish(q)
      BY <1>h, <2>1, <2>2
    <2>3. CASE Goto(q, "exchange")
      BY <1>i, <2>1, <2>3 DEF Labels, Working
    <2>4. QED
      BY <1>8, <2>2, <2>3 DEF Check
  <1>9. CASE exchangeToTransport(q)
    <2>1. Rest /\ UNCHANGED cacheLock /\ Holds(q) /\ key(q) \in Envs
      BY <1>9, <1>b, <1>d DEF exchangeToTransport, cacheVars, lockVars, Working
    <2>2. PICK r \in Replies : op' = [op EXCEPT ![q].pc = "finish", ![q].reply = r]
      BY <1>9, Zenon DEF exchangeToTransport
    <2>3. op' \in [Queries -> Operations] /\ Others /\ op'[q].pc = "finish" /\ op'[q].key = op[q].key
      <3>1. Others /\ op'[q].pc = "finish" /\ op'[q].key = op[q].key
        BY <1>e, <2>2 DEF Operations
      <3>2. op'[q] \in Operations
        BY <1>e, <2>2, ZenonT(30) DEF Operations, Labels, Working
      <3>3. QED
        BY <1>e, <2>2, <3>1, <3>2
    <2>4. LocksExact'
      BY <1>g, <2>1, <2>3, LocksKept DEF Working
    <2>5. QED
      BY <1>a, <2>1, <2>3, <2>4 DEF key
  <1>10. CASE finishExchange(q)
    <2>1. key(q) \in Envs /\ Settle(key(q), op[q].reply, q \in Checked)
      BY <1>10, <1>d DEF finishExchange, Working
    <2>2. cache' \in [Envs -> Entries] /\ rdrc' \in BOOLEAN /\ OwnEnvironment'
      BY <1>g, <2>1, SettleKeeps
    <2>3. Rest /\ Finish(q) /\ UNCHANGED cacheLock
      BY <1>10, <1>g, <2>2 DEF finishExchange, Rest, TypeOK, lockVars
    <2>4. QED
      BY <1>h, <2>3
  <1>11. CASE releaseDelete(q)
    <2>1. Rest
      <3>1. UNCHANGED <<env, cache, rdrc, refresh, closed>>
        BY <1>11 DEF releaseDelete, cacheVars
      <3>2. QED
        BY <3>1, <1>b
    <2>2. op' \in [Queries -> Operations] /\ Others /\ op'[q].pc = "close"
      BY <1>11, <1>e, GotoFacts DEF releaseDelete, Labels
    <2>3. key(q) \in Envs /\ cacheLock[key(q)] = q
      BY <1>11, <1>g DEF releaseDelete, HasKey, LocksExact, Working
    <2>4. cacheLock' = [cacheLock EXCEPT ![key(q)] = None]
      BY <1>11 DEF releaseDelete
    <2>5. TypeOK'
      BY <1>g, <2>1, <2>2, <2>3, <2>4 DEF TypeOK, Rest
    <2>6. HasKey'
      BY <1>g, <2>2 DEF HasKey, pc, key, Working
    <2>7. ASSUME NEW e \in Envs, cacheLock'[e] # None
          PROVE  op'[cacheLock'[e]].key = e /\ op'[cacheLock'[e]].pc \in {"load"} \cup Working
      <3>1. e # key(q) /\ cacheLock'[e] = cacheLock[e] /\ cacheLock[e] \in Queries
        BY <1>g, <2>3, <2>4, <2>7 DEF TypeOK
      <3>2. cacheLock[e] # q
        BY <1>g, <3>1, DNSClientAssumption DEF LocksExact
      <3>3. QED
        BY <1>g, <2>2, <2>7, <3>1, <3>2 DEF LocksExact, pc, key, Working
    <2>8. ASSUME NEW p \in Queries, op'[p].pc \in Working
          PROVE  cacheLock'[op'[p].key] = p
      <3>1. p # q
        BY <2>2, <2>8 DEF Working
      <3>2. op'[p] = op[p] /\ cacheLock[op[p].key] = p /\ op[p].key \in Envs
        BY <1>g, <2>2, <2>8, <3>1 DEF LocksExact, HasKey, pc, key, Working
      <3>3. QED
        BY <1>g, <2>3, <2>4, <3>1, <3>2 DEF TypeOK
    <2>9. LocksExact'
      BY <2>7, <2>8 DEF LocksExact, pc, key, Working
    <2>10. QED
      BY <2>1, <2>5, <2>6, <2>9 DEF Inv, Rest
  <1>12. CASE releaseClose(q)
    <2>1. Rest /\ UNCHANGED cacheLock /\ ~Holds(q) /\ Goto(q, "done")
      BY <1>12, <1>c, <1>g, Zenon DEF releaseClose, cacheVars, Rest, TypeOK, OwnEnvironment, Working
    <2>2. QED
      BY <1>i, <2>1 DEF Labels, Working
  <1>13. CASE EndContext(q)
    <2>1. Rest /\ UNCHANGED cacheLock
      BY <1>13, <1>b DEF EndContext, cacheVars, lockVars
    <2>2. /\ op' \in [Queries -> Operations] /\ Others /\ op'[q].pc = op[q].pc /\ op'[q].key = op[q].key
          /\ op[q].pc \notin Working
      <3>1. op' = [op EXCEPT ![q].ctx = TRUE] /\ op[q].pc \notin Working
        BY <1>13 DEF EndContext, pc, Working
      <3>2. Others /\ op'[q].pc = op[q].pc /\ op'[q].key = op[q].key
        BY <1>e, <3>1 DEF Operations
      <3>3. op'[q] \in Operations
        BY <1>e, <3>1, Zenon DEF Operations
      <3>4. QED
        BY <1>e, <3>1, <3>2, <3>3
    <2>3. Keyed
      BY <1>g, <2>2 DEF HasKey, pc, key
    <2>4. LocksExact'
      BY <1>c, <1>g, <2>1, <2>2, LocksKept DEF pc
    <2>5. QED
      BY <1>a, <2>1, <2>2, <2>3, <2>4
  <1>14. QED
    BY <1>1, <1>2, <1>3, <1>4, <1>5, <1>6, <1>7, <1>8, <1>9, <1>10, <1>11, <1>12, <1>13 DEF Step

\* Refresh, expiry, ClearCache and the environment leave queries alone.
LEMMA OtherStep ==
    ASSUME Inv, \/ \E e \in Envs : RefreshEnd(e) \/ Age(e)
                \/ ClearCache \/ ChangeEnvironment \/ UNCHANGED vars
    PROVE  Inv'
  <1>1. UNCHANGED <<cacheLock, closed, op>>
    BY DEF RefreshEnd, Age, ClearCache, ChangeEnvironment, vars, lockVars
  <1>2. HasKey' /\ LocksExact'
    BY <1>1 DEF Inv, HasKey, LocksExact, pc, key
  <1>3. env' \in Envs /\ refresh' \subseteq Envs
    BY DEF Inv, TypeOK, RefreshEnd, Age, ClearCache, ChangeEnvironment, vars, cacheVars
  <1>4. cache' \in [Envs -> Entries] /\ rdrc' \in BOOLEAN /\ OwnEnvironment'
    <2>1. CASE \E e \in Envs : RefreshEnd(e)
      <3>1. PICK k \in Envs : RefreshEnd(k)
        BY <2>1
      <3>2. CASE rdrc' = TRUE /\ UNCHANGED cache
        BY <3>2 DEF Inv, TypeOK, OwnEnvironment
      <3>3. CASE \E q \in Queries, r \in Replies : Settle(k, r, q \in Checked)
        BY <3>3, SettleKeeps DEF Inv
      <3>4. QED
        BY <3>1, <3>2, <3>3, Zenon DEF RefreshEnd
    <2>2. CASE \E e \in Envs : Age(e)
      <3>1. PICK e \in Envs : Age(e)
        BY <2>2
      <3>2. PICK entry \in {NoEntry, [cache[e] EXCEPT !.age = "stale"]} : cache' = [cache EXCEPT ![e] = entry]
        BY <3>1, Zenon DEF Age
      <3>3. entry \in Entries /\ (entry # NoEntry => entry.began = cache[e].began)
        BY <3>2 DEF Inv, TypeOK, Entries, NoEntry
      <3>4. QED
        BY <3>1, <3>2, <3>3 DEF Inv, TypeOK, OwnEnvironment, Age
    <2>3. CASE ClearCache
      BY <2>3 DEF Inv, TypeOK, OwnEnvironment, ClearCache, Entries, NoEntry
    <2>4. CASE ChangeEnvironment \/ UNCHANGED vars
      BY <2>4 DEF Inv, TypeOK, OwnEnvironment, ChangeEnvironment, vars, cacheVars
    <2>5. QED
      BY <2>1, <2>2, <2>3, <2>4
  <1>5. QED
    BY <1>1, <1>2, <1>3, <1>4 DEF Inv, TypeOK

\* The initial states of NewClient satisfy the invariant.
LEMMA InvInit == Init => Inv
  <1> SUFFICES ASSUME Init PROVE Inv
    OBVIOUS
  <1>1. op \in [Queries -> Operations] /\ \A q \in Queries : op[q].pc = "idle"
    BY Zenon DEF Init, At, Operations, Labels
  <1>2. cache \in [Envs -> Entries] /\ \A e \in Envs : cache[e] = NoEntry /\ cacheLock[e] = None
    BY DEF Init, Entries, NoEntry
  <1>3. TypeOK
    BY <1>1, <1>2, Zenon DEF Init, TypeOK
  <1>4. HasKey /\ OwnEnvironment /\ LocksExact
    BY <1>1, <1>2 DEF HasKey, OwnEnvironment, LocksExact, Working, pc
  <1>5. QED
    BY <1>3, <1>4 DEF Inv

\* The invariant holds in every state.
THEOREM ClientInvariant == Spec => []Inv
  <1>1. Inv /\ [Next]_vars => Inv'
    BY QueryStep, OtherStep DEF Next
  <1>2. QED
    BY InvInit, <1>1, PTL DEF Spec

\* No response to an exchange that began in a known environment is ever in
\* the cache of another (finishCacheKey), for any number of queries,
\* background refreshes and environments.
THEOREM AnswersStayInTheirEnvironment == Spec => []OwnEnvironment
  BY ClientInvariant, PTL DEF Inv

\* cacheLock is exact (beginExchange, release): one query per key exchanges,
\* and a query that is over holds no lock, for any number of queries.
THEOREM LocksAreExact == Spec => []LocksExact
  BY ClientInvariant, PTL DEF Inv

-----------------------------------------------------------------------------
(* DNSCacheFile                                                            *)

FileTypeOK ==
    /\ pending \in [Keys -> Nat] /\ writing \in [Keys -> Nat] /\ disk \in [Keys -> Nat]
    /\ latest \in [Keys -> Nat]
    /\ saves \in Nat
    /\ lock \in [who : {"none", "loop", "caller", "delete", "clear"}, key : Keys \cup {"none"}, msg : Nat]
    /\ lock.who = "delete" => lock.key \in Keys
    /\ reader \in [pc : {"idle", "disk", "done"}, key : Keys \cup {"none"}, result : Nat, seen : SUBSET Nat]
    /\ reader.pc = "disk" => reader.key \in Keys
    /\ removed \in [Keys -> BOOLEAN]

\* Only a flush keeps messages in writing, and only as long as it has the lock.
WritingInv == lock.who \notin {"loop", "caller"} => writing = Nothing

\* A message that ClearDNSCache does not mean to remove is in the buffer, out
\* of reach of its second step.
ClearInv == lock.who = "clear" => \A k \in Keys : removed[k] \/ pending[k] # 0

\* Whatever a lookup may still come across has been there for a single look.
ReaderInv ==
    reader.pc = "disk" =>
        /\ pending[reader.key] \in reader.seen \cup {0}
        /\ writing[reader.key] \in reader.seen \cup {0}
        /\ disk[reader.key] \in reader.seen \cup {0}

Buffered == {k \in Keys : pending[k] # 0}

\* c.pending.count, on which the flush loop goes to sleep, is exact.
CountExact == count = Cardinality(Buffered)

FileInv == FileTypeOK /\ WritingInv /\ ClearInv /\ ReaderInv /\ LastSaveWins /\ LoadIsCurrent

\* A new cache file is empty, and so is its buffer.
LEMMA FileInitInv == FileInit => FileInv /\ CountExact
<1> SUFFICES ASSUME FileInit PROVE FileInv /\ CountExact OBVIOUS
<1>1. FileTypeOK BY DEF FileInit, FileTypeOK, Nothing, Free, NoReader
<1>2. WritingInv /\ ClearInv /\ ReaderInv /\ LoadIsCurrent
  BY DEF FileInit, WritingInv, ClearInv, ReaderInv, LoadIsCurrent, Free, NoReader
<1>3. LastSaveWins BY DEF FileInit, LastSaveWins, View, Nothing
<1>4. Buffered = {} BY DEF FileInit, Buffered, Nothing
<1>5. CountExact BY <1>4, FS_EmptySet DEF FileInit, CountExact
<1> QED BY <1>1, <1>2, <1>3, <1>5 DEF FileInv

\* What a lookup in one step finds is a message or nothing.
LEMMA ViewType == FileTypeOK => \A k \in Keys : View(k) \in Nat
BY DEF FileTypeOK, View

\* What Observe does to a lookup that is between its two looks.
LEMMA Observed ==
  ASSUME FileTypeOK, Observe
  PROVE  /\ UNCHANGED <<reader.pc, reader.key, reader.result>>
         /\ reader.seen \subseteq reader'.seen
         /\ reader.pc = "disk" => \A k \in {reader.key} : reader'.seen = reader.seen \cup {View(k)'}
         /\ reader.pc # "disk" => reader' = reader
<1>1. CASE reader.pc = "disk"
  <2>1. reader' = [reader EXCEPT !.seen = reader.seen \cup {View(k)' : k \in {reader.key}}] BY <1>1 DEF Observe
  <2>2. \A k \in {reader.key} : {View(x)' : x \in {reader.key}} = {View(k)'} BY DEF View
  <2> QED BY <1>1, <2>1, <2>2 DEF FileTypeOK
<1>2. CASE reader.pc # "disk" BY <1>2 DEF Observe
<1> QED BY <1>1, <1>2

-----------------------------------------------------------------------------
(* Types                                                                   *)

\* What the buffers and the database may become.
LEMMA FileTypeStep ==
  ASSUME FileTypeOK, [FileNext]_fileVars PROVE FileTypeOK'
<1> DEFINE Stores == /\ pending' \in [Keys -> Nat] /\ writing' \in [Keys -> Nat] /\ disk' \in [Keys -> Nat]
                     /\ latest' \in [Keys -> Nat] /\ saves' \in Nat
           Locks == /\ lock' \in [who : {"none", "loop", "caller", "delete", "clear"}, key : Keys \cup {"none"}, msg : Nat]
                    /\ lock'.who = "delete" => lock'.key \in Keys
           Readers == /\ reader' \in [pc : {"idle", "disk", "done"}, key : Keys \cup {"none"}, result : Nat, seen : SUBSET Nat]
                      /\ reader'.pc = "disk" => reader'.key \in Keys
           Removals == removed' \in [Keys -> BOOLEAN]
<1>1. ASSUME NEW k \in Keys, Save(k) PROVE Stores /\ Locks /\ Removals
  BY <1>1 DEF Save, FileTypeOK
<1>2. ASSUME LoopWake \/ FlushNothing PROVE Stores /\ Locks /\ Removals
  BY <1>2 DEF LoopWake, FlushNothing, FileTypeOK, buffer, ghosts, bounds
<1>3. ASSUME NEW w \in {"loop", "caller"}, FlushTake(w) PROVE Stores /\ Locks /\ Removals
  BY <1>3 DEF FlushTake, FileTypeOK, Nothing, Free, ghosts, bounds
<1>4. ASSUME NEW w \in {"loop", "caller"}, FlushCommit(w) PROVE Stores /\ Locks /\ Removals
  BY <1>4 DEF FlushCommit, FileTypeOK, Nothing, Free, buffer, ghosts, bounds
<1>5. ASSUME NEW w \in {"loop", "caller"}, FlushFail(w) PROVE Stores /\ Locks /\ Removals
  <2>1. Stores BY <1>5 DEF FlushFail, Restore, FileTypeOK, Nothing
  <2>2. Locks BY <1>5 DEF FlushFail, Free
  <2>3. Removals BY <1>5 DEF FlushFail, FileTypeOK
  <2> QED BY <2>1, <2>2, <2>3
<1>6. ASSUME NEW k \in Keys, NEW m \in 1 .. saves, DeletePending(k, m) PROVE Stores /\ Locks /\ Removals
  <2>1. Stores BY <1>6 DEF DeletePending, FileTypeOK, buffer
  <2>2. Locks BY <1>6 DEF DeletePending, FileTypeOK
  <2>3. Removals BY <1>6, Zenon DEF DeletePending, FileTypeOK
  <2> QED BY <2>1, <2>2, <2>3
<1>7. ASSUME DeleteDisk PROVE Stores /\ Locks /\ Removals
  <2>1. Stores BY <1>7 DEF DeleteDisk, FileTypeOK, buffer, bounds
  <2>2. Locks BY <1>7 DEF DeleteDisk, Free
  <2>3. Removals BY <1>7 DEF DeleteDisk, FileTypeOK
  <2> QED BY <2>1, <2>2, <2>3
<1>8. ASSUME DeleteFail \/ ClearDisk PROVE Stores /\ Locks /\ Removals
  BY <1>8 DEF DeleteFail, ClearDisk, FileTypeOK, Nothing, Free, buffer, ghosts
<1>9. ASSUME ClearPending PROVE Stores /\ Locks /\ Removals
  BY <1>9 DEF ClearPending, FileTypeOK, Nothing, Free
<1>10. ASSUME Cleanup PROVE Stores /\ Locks /\ Removals
  BY <1>10 DEF Cleanup, FileTypeOK, buffer, flushVars
<1>11. ASSUME resetDB PROVE Stores /\ Locks /\ Removals
  BY <1>11 DEF resetDB, FileTypeOK, Nothing, buffer, flushVars
<1>12. ASSUME Load \/ UNCHANGED fileVars PROVE Stores /\ Locks /\ Removals
  BY <1>12, Zenon DEF Load, LoadStart, LoadDisk, LoadReturn, FileTypeOK, fileVars, buffer, flushVars, ghosts, bounds
<1>13. Stores /\ Locks /\ Removals
  BY <1>1, <1>2, <1>3, <1>4, <1>5, <1>6, <1>7, <1>8, <1>9, <1>10, <1>11, <1>12 DEF FileNext, Change, LoopStep, FlushStep
<1>14. ASSUME NEW k \in Keys PROVE View(k)' \in Nat BY <1>13 DEF View
<1>15. ASSUME Observe PROVE Readers
  <2>1. CASE reader.pc = "disk"
    <3>1. reader' = [reader EXCEPT !.seen = reader'.seen] BY <1>15, <2>1, Observed DEF Observe, FileTypeOK
    <3>2. reader'.seen \in SUBSET Nat BY <1>14, <1>15, <2>1, Observed DEF FileTypeOK
    <3> QED BY <2>1, <3>1, <3>2 DEF FileTypeOK
  <2>2. CASE reader.pc # "disk" BY <1>15, <2>2 DEF Observe, FileTypeOK
  <2> QED BY <2>1, <2>2
<1>16. ASSUME NEW k \in Keys, LoadStart(k) PROVE Readers
  BY <1>16, ViewType DEF LoadStart, LoadBuffers, FileTypeOK
<1>17. ASSUME LoadDisk \/ LoadReturn \/ UNCHANGED fileVars PROVE Readers
  <2>1. CASE LoadDisk
    <3>1. disk[reader.key] \in Nat BY <2>1 DEF LoadDisk, FileTypeOK
    <3> QED BY <2>1, <3>1, Zenon DEF LoadDisk, FileTypeOK
  <2>2. CASE LoadReturn \/ UNCHANGED fileVars BY <2>2 DEF LoadReturn, NoReader, FileTypeOK, fileVars
  <2> QED BY <1>17, <2>1, <2>2
<1>18. Readers BY <1>15, <1>16, <1>17 DEF FileNext, Load
<1> QED BY <1>13, <1>18 DEF FileTypeOK

-----------------------------------------------------------------------------
(* The lock, and what it protects                                          *)

\* Every step keeps what holds of the flushes and of ClearDNSCache.
LEMMA LockStep ==
  ASSUME FileTypeOK, WritingInv, ClearInv, [FileNext]_fileVars PROVE WritingInv' /\ ClearInv'
<1> USE DEF FileTypeOK, WritingInv, ClearInv
<1>1. ASSUME NEW k \in Keys, Save(k) PROVE WritingInv' /\ ClearInv'
  BY <1>1 DEF Save
<1>2. ASSUME LoopWake \/ FlushNothing PROVE WritingInv' /\ ClearInv'
  BY <1>2 DEF LoopWake, FlushNothing, buffer, ghosts
<1>3. ASSUME NEW w \in {"loop", "caller"}, FlushTake(w) PROVE WritingInv' /\ ClearInv'
  BY <1>3 DEF FlushTake, Free
<1>4. ASSUME NEW w \in {"loop", "caller"}, FlushCommit(w) \/ FlushFail(w) PROVE WritingInv' /\ ClearInv'
  BY <1>4 DEF FlushCommit, FlushFail, Free
<1>5. ASSUME NEW k \in Keys, NEW m \in 1 .. saves, DeletePending(k, m) PROVE WritingInv' /\ ClearInv'
  BY <1>5 DEF DeletePending, Free
<1>6. ASSUME DeleteDisk \/ DeleteFail \/ ClearDisk PROVE WritingInv' /\ ClearInv'
  BY <1>6 DEF DeleteDisk, DeleteFail, ClearDisk, Free
<1>7. ASSUME ClearPending PROVE WritingInv' /\ ClearInv'
  BY <1>7 DEF ClearPending, Free
<1>8. ASSUME Cleanup PROVE WritingInv' /\ ClearInv'
  BY <1>8 DEF Cleanup, buffer, flushVars
<1>9. ASSUME resetDB PROVE WritingInv' /\ ClearInv'
  BY <1>9 DEF resetDB, buffer, flushVars
<1>10. ASSUME Load \/ UNCHANGED fileVars PROVE WritingInv' /\ ClearInv'
  BY <1>10 DEF Load, LoadStart, LoadDisk, LoadReturn, fileVars, buffer, flushVars, ghosts
<1> QED BY <1>1, <1>2, <1>3, <1>4, <1>5, <1>6, <1>7, <1>8, <1>9, <1>10 DEF FileNext, Change, LoopStep, FlushStep

\* A flush, whether it commits or fails, changes nothing that can be seen.
LEMMA FlushKeepsView ==
  ASSUME FileTypeOK, WritingInv, NEW w \in {"loop", "caller"},
         FlushTake(w) \/ FlushCommit(w) \/ (FlushFail(w) /\ disk' = disk)
  PROVE  \A k \in Keys : View(k)' = View(k)
<1>1. CASE FlushTake(w)
  BY <1>1 DEF FlushTake, FileTypeOK, WritingInv, View, Nothing, Free
<1>2. CASE FlushCommit(w)
  BY <1>2 DEF FlushCommit, FileTypeOK, View, Nothing, buffer
<1>3. CASE FlushFail(w) /\ disk' = disk
  <2>1. writing' = Nothing /\ \A k \in Keys : pending'[k] = IF writing[k] # 0 /\ pending[k] = 0 THEN writing[k] ELSE pending[k]
    BY <1>3, Zenon DEF FlushFail, Restore, Back
  <2> QED BY <1>3, <2>1, Zenon DEF FileTypeOK, View, Nothing
<1> QED BY <1>1, <1>2, <1>3

\* Every step keeps the newest message in sight.
LEMMA ViewStep ==
  ASSUME FileTypeOK, WritingInv, ClearInv, LastSaveWins, [FileNext]_fileVars PROVE LastSaveWins'
<1> USE DEF FileTypeOK, LastSaveWins
<1>0. ASSUME UNCHANGED <<latest, removed>>, \A k \in Keys : View(k)' = View(k) PROVE LastSaveWins'
  BY <1>0
<1>1. ASSUME NEW k \in Keys, Save(k) PROVE LastSaveWins'
  BY <1>1 DEF Save, View
<1>2. ASSUME LoopWake \/ FlushNothing \/ DeleteFail \/ Load \/ UNCHANGED fileVars PROVE LastSaveWins'
  BY <1>2 DEF LoopWake, FlushNothing, DeleteFail, Load, LoadStart, LoadDisk, LoadReturn,
              View, fileVars, buffer, flushVars, ghosts
<1>3. ASSUME NEW w \in {"loop", "caller"}, FlushTake(w) \/ FlushCommit(w) PROVE LastSaveWins'
  <2>1. UNCHANGED <<latest, removed>> BY <1>3 DEF FlushTake, FlushCommit, ghosts
  <2> QED BY <1>0, <1>3, <2>1, FlushKeepsView
<1>4. ASSUME NEW w \in {"loop", "caller"}, FlushFail(w) PROVE LastSaveWins'
  <2>1. CASE disk' = disk
    <3>1. latest' = latest /\ \A k \in Keys : removed'[k] = removed[k] BY <1>4, <2>1 DEF FlushFail
    <3>2. \A k \in Keys : View(k)' = View(k) BY <1>4, <2>1, FlushKeepsView
    <3> QED BY <3>1, <3>2
  <2>2. CASE disk' # disk
    <3>1. latest' = latest /\ \A k \in Keys : ~removed'[k] => ~removed[k] /\ pending'[k] # 0 BY <1>4, <2>2, Zenon DEF FlushFail
    <3>2. \A k \in Keys : pending'[k] = IF writing[k] # 0 /\ pending[k] = 0 THEN writing[k] ELSE pending[k]
      BY <1>4 DEF FlushFail, Restore, Back
    <3> QED BY <3>1, <3>2 DEF View
  <2> QED BY <2>1, <2>2
<1>5. ASSUME NEW k \in Keys, NEW m \in 1 .. saves, DeletePending(k, m) PROVE LastSaveWins'
  BY <1>5 DEF DeletePending, View, buffer
<1>6. ASSUME DeleteDisk PROVE LastSaveWins'
  BY <1>6, Zenon DEF DeleteDisk, View, buffer
<1>7. ASSUME ClearPending PROVE LastSaveWins'
  BY <1>7 DEF ClearPending
<1>8. ASSUME ClearDisk PROVE LastSaveWins'
  BY <1>8 DEF ClearDisk, ClearInv, View, buffer, ghosts
<1>9. ASSUME Cleanup PROVE LastSaveWins'
  BY <1>9, ZenonT(30) DEF Cleanup, View, buffer, flushVars
<1>10. ASSUME resetDB PROVE LastSaveWins'
  BY <1>10, Zenon DEF resetDB, View, buffer, flushVars
<1> QED BY <1>1, <1>2, <1>3, <1>4, <1>5, <1>6, <1>7, <1>8, <1>9, <1>10 DEF FileNext, Change, LoopStep, FlushStep

\* A step puts nothing into the buffers and the database that was not there
\* or can be seen at once.
LEMMA NothingHidden ==
  ASSUME FileTypeOK, Change, NEW k \in Keys
  PROVE  /\ pending'[k] \in {pending[k], writing[k], View(k)', 0}
         /\ writing'[k] \in {pending[k], writing[k], 0}
         /\ disk'[k] \in {writing[k], disk[k], 0}
<1> USE DEF FileTypeOK
<1> DEFINE Goal == /\ pending'[k] \in {pending[k], writing[k], View(k)', 0}
                   /\ writing'[k] \in {pending[k], writing[k], 0}
                   /\ disk'[k] \in {writing[k], disk[k], 0}
<1>1. ASSUME NEW x \in Keys, Save(x) PROVE Goal BY <1>1 DEF Save, View
<1>2. ASSUME LoopWake \/ FlushNothing \/ DeleteFail PROVE Goal BY <1>2 DEF LoopWake, FlushNothing, DeleteFail, buffer
<1>3. ASSUME NEW w \in {"loop", "caller"}, FlushTake(w) PROVE Goal BY <1>3 DEF FlushTake, Nothing
<1>4. ASSUME NEW w \in {"loop", "caller"}, FlushCommit(w) PROVE Goal BY <1>4 DEF FlushCommit, Nothing, buffer
<1>5. ASSUME NEW w \in {"loop", "caller"}, FlushFail(w) PROVE Goal BY <1>5 DEF FlushFail, Restore, Nothing
<1>6. ASSUME NEW x \in Keys, NEW m \in 1 .. saves, DeletePending(x, m) PROVE Goal BY <1>6 DEF DeletePending, buffer
<1>7. ASSUME DeleteDisk PROVE Goal BY <1>7 DEF DeleteDisk, buffer
<1>8. ASSUME ClearPending \/ ClearDisk PROVE Goal BY <1>8 DEF ClearPending, ClearDisk, Nothing, buffer
<1>9. ASSUME Cleanup PROVE Goal BY <1>9 DEF Cleanup, buffer, flushVars
<1>10. ASSUME resetDB PROVE Goal BY <1>10, Zenon DEF resetDB, Nothing, buffer, flushVars
<1> QED BY <1>1, <1>2, <1>3, <1>4, <1>5, <1>6, <1>7, <1>8, <1>9, <1>10 DEF Change, LoopStep, FlushStep

\* Every step keeps what holds of the lookup.
LEMMA ReaderStep ==
  ASSUME FileTypeOK, ReaderInv, LoadIsCurrent, [FileNext]_fileVars PROVE ReaderInv' /\ LoadIsCurrent'
<1> USE DEF FileTypeOK, ReaderInv, LoadIsCurrent
<1>1. ASSUME Change, Observe PROVE ReaderInv' /\ LoadIsCurrent'
  <2>1. CASE reader.pc = "disk"
    <3>1. PICK k \in Keys : k = reader.key BY <2>1
    <3>2. reader'.pc = "disk" /\ reader'.key = k /\ reader'.seen = reader.seen \cup {View(k)'} BY <1>1, <2>1, <3>1, Observed
    <3>3. /\ pending'[k] \in {pending[k], writing[k], View(k)', 0}
          /\ writing'[k] \in {pending[k], writing[k], 0}
          /\ disk'[k] \in {writing[k], disk[k], 0}
      BY <1>1, NothingHidden
    <3> QED BY <2>1, <3>1, <3>2, <3>3
  <2>2. CASE reader.pc # "disk" BY <1>1, <2>2, Observed, Zenon
  <2> QED BY <2>1, <2>2
<1>2. ASSUME NEW k \in Keys, LoadStart(k) PROVE ReaderInv' /\ LoadIsCurrent'
  BY <1>2 DEF LoadStart, LoadBuffers, View, buffer, flushVars
<1>3. ASSUME LoadDisk PROVE ReaderInv' /\ LoadIsCurrent' BY <1>3 DEF LoadDisk
<1>4. ASSUME LoadReturn PROVE ReaderInv' /\ LoadIsCurrent' BY <1>4 DEF LoadReturn, NoReader
<1>5. ASSUME UNCHANGED fileVars PROVE ReaderInv' /\ LoadIsCurrent' BY <1>5 DEF fileVars, buffer, flushVars
<1> QED BY <1>1, <1>2, <1>3, <1>4, <1>5, Zenon DEF FileNext, Load

-----------------------------------------------------------------------------
(* The size of the buffer                                                  *)

\* Every step keeps the count exact.
LEMMA CountStep ==
  ASSUME FileTypeOK, CountExact, [FileNext]_fileVars PROVE CountExact'
<1> USE DEF FileTypeOK
<1> IsFiniteSet(Keys) BY CacheFileAssumption
<1>0. IsFiniteSet(Buffered) /\ Cardinality(Buffered) \in Nat /\ count = Cardinality(Buffered)
  BY FS_Subset, FS_CardinalityType DEF Buffered, CountExact
<1>1. ASSUME pending' = pending, count' = count PROVE CountExact'
  BY <1>1 DEF CountExact, Buffered
<1>2. ASSUME pending' = Nothing, count' = 0 PROVE CountExact'
  <2>1. Buffered' = {} BY <1>2 DEF Buffered, Nothing
  <2> QED BY <1>2, <2>1, FS_EmptySet DEF CountExact
<1>3. ASSUME NEW k \in Keys, Save(k) PROVE CountExact'
  <2>1. Buffered' = Buffered \cup {k} BY <1>3 DEF Save, Buffered
  <2>2. count' = IF k \in Buffered THEN count ELSE count + 1 BY <1>3 DEF Save, Enqueue, Buffered
  <2>3. Cardinality(Buffered \cup {k}) = IF k \in Buffered THEN Cardinality(Buffered) ELSE Cardinality(Buffered) + 1
    BY <1>0, FS_AddElement, Zenon
  <2> QED BY <1>0, <2>1, <2>2, <2>3 DEF CountExact
<1>4. ASSUME NEW w \in {"loop", "caller"}, FlushFail(w) PROVE CountExact'
  <2>1. Buffered' = Buffered \cup Back BY <1>4 DEF FlushFail, Restore, Back, Buffered
  <2>2. count' = count + Cardinality(Back) BY <1>4 DEF FlushFail, Restore
  <2>3. IsFiniteSet(Back) /\ Cardinality(Back) \in Nat BY FS_Subset, FS_CardinalityType DEF Back
  <2>4. Buffered \cap Back = {} BY DEF Buffered, Back
  <2>5. Cardinality(Buffered \cup Back) = Cardinality(Buffered) + Cardinality(Back)
    <3>1. Cardinality(Buffered \cap Back) = 0 BY <2>4, FS_EmptySet, Zenon
    <3>2. Cardinality(Buffered \cup Back) = Cardinality(Buffered) + Cardinality(Back) - Cardinality(Buffered \cap Back)
      BY <1>0, <2>3, FS_Union
    <3> QED BY <1>0, <2>3, <3>1, <3>2
  <2> QED BY <1>0, <2>1, <2>2, <2>5, SMTT(30) DEF CountExact
<1>5. ASSUME NEW k \in Keys, NEW m \in 1 .. saves, DeletePending(k, m) PROVE CountExact'
  <2>1. CASE pending[k] = m
    <3>1. k \in Buffered /\ Buffered' = Buffered \ {k} /\ count' = count - 1 BY <1>5, <2>1, SMTT(30) DEF DeletePending, Buffered
    <3> QED BY <1>0, <3>1, FS_RemoveElement, Zenon DEF CountExact
  <2>2. CASE pending[k] # m BY <1>1, <1>5, <2>2 DEF DeletePending, buffer
  <2> QED BY <2>1, <2>2
<1>6. ASSUME ClearPending PROVE CountExact'
  <2>1. count' = count - Cardinality(Buffered) BY <1>6 DEF ClearPending, Buffered
  <2> QED BY <1>0, <1>2, <1>6, <2>1 DEF ClearPending
<1>7. ASSUME NEW w \in {"loop", "caller"}, FlushTake(w) PROVE CountExact' BY <1>2, <1>7 DEF FlushTake
<1>8. ASSUME NEW w \in {"loop", "caller"}, FlushCommit(w) PROVE CountExact' BY <1>1, <1>8 DEF FlushCommit, buffer
<1>9. ASSUME LoopWake \/ FlushNothing \/ DeleteDisk \/ DeleteFail \/ ClearDisk \/ Cleanup \/ resetDB \/ Load \/ UNCHANGED fileVars PROVE CountExact'
  BY <1>1, <1>9 DEF LoopWake, FlushNothing, DeleteDisk, DeleteFail, ClearDisk, Cleanup, resetDB,
                    Load, LoadStart, LoadDisk, LoadReturn, fileVars, buffer
<1> QED BY <1>3, <1>4, <1>5, <1>6, <1>7, <1>8, <1>9 DEF FileNext, Change, LoopStep, FlushStep

-----------------------------------------------------------------------------
(* The theorems                                                            *)

\* The invariant always holds.
LEMMA FileInvariance == FileSpec => []FileInv
<1>1. FileInv /\ [FileNext]_fileVars => FileInv'
  BY FileTypeStep, LockStep, ViewStep, ReaderStep DEF FileInv
<1> QED BY <1>1, FileInitInv, PTL DEF FileSpec

\* LoadDNSCache finds the last message that SaveDNSCacheAsync was given,
\* through flushes that commit, fail or overlap with saves, unless the entry
\* was removed on purpose or with the file.
THEOREM NewestIsFound == FileSpec => []LastSaveWins
BY FileInvariance, PTL DEF FileInv

\* The two looks of LoadDNSCache, without a lock between them, return a
\* message that one look could have seen.
THEOREM LookupIsCurrent == FileSpec => []LoadIsCurrent
BY FileInvariance, PTL DEF FileInv

\* pendingData.count is the number of buffered messages, also after a failed
\* flush has put its messages back among newer ones, so that Flush never
\* takes a buffer with messages for an empty one.
THEOREM BufferCountExact == FileSpec => [](count = Cardinality({k \in Keys : pending[k] # 0}))
<1>1. CountExact <=> count = Cardinality({k \in Keys : pending[k] # 0}) BY DEF CountExact, Buffered
<1>2. FileInv /\ CountExact /\ [FileNext]_fileVars => CountExact' BY CountStep DEF FileInv
<1> QED BY <1>1, <1>2, FileInitInv, FileInvariance, PTL DEF FileSpec

\* DeleteDNSCache takes away the message it was given and no other, in both
\* of its steps, whatever is saved in between.
THEOREM DeletesAreExact == FileSpec => DeletesOnlyMatching
<1> DEFINE Act == /\ \A k \in Keys : \A m \in 1 .. saves : DeletePending(k, m) => View(k)' = View(k) \/ View(k) = m
                  /\ DeleteDisk => \A k \in Keys : View(k)' = View(k) \/ (k = lock.key /\ View(k) = lock.msg)
<1>1. FileTypeOK /\ [FileNext]_fileVars => [Act]_fileVars
  <2> SUFFICES ASSUME FileTypeOK PROVE Act BY SMTT(30)
  <2>1. ASSUME NEW k \in Keys, NEW m \in 1 .. saves, DeletePending(k, m) PROVE View(k)' = View(k) \/ View(k) = m
    BY <2>1 DEF DeletePending, View, FileTypeOK, buffer
  <2>2. ASSUME DeleteDisk, NEW k \in Keys PROVE View(k)' = View(k) \/ (k = lock.key /\ View(k) = lock.msg)
    BY <2>2 DEF DeleteDisk, View, FileTypeOK, buffer
  <2> QED BY <2>1, <2>2
<1> QED BY <1>1, FileInvariance, PTL DEF FileSpec, FileInv, DeletesOnlyMatching

-----------------------------------------------------------------------------
(* ReuseProbe                                                              *)

ProbeRecord ==
    [pc : {"none", "dial", "read", "apply"}, epoch : Nat, started : Nat, seen : SUBSET ProbeKinds,
     outcome : {"none", "dialFailed", "failed", "supported"}]

ProbeTypeOK ==
    /\ reuseState \in States
    /\ probeEpoch \in Nat /\ resets \in Nat /\ proof \in Nat
    /\ demoteFailures \in Nat /\ clearing \in Nat
    /\ probe \in [Probes -> ProbeRecord]
    /\ dpc \in [Deaths -> {"idle", "count", "add", "demote", "clear"}]

\* The epoch a probe has read is the number of Resets before it began.
EpochInv == probeEpoch = resets /\ \A p \in Probes : probe[p].epoch = probe[p].started

\* The calls of recordConnDeath that have seen the limit.
Handling == {d \in Deaths : dpc[d] \in {"demote", "clear"}}

ProbeInv == ProbeTypeOK /\ EpochInv /\ SupportedIsProven

\* Before the first probe nothing is known and nothing counted.
LEMMA ProbeInitInv == ProbeInit => ProbeInv
<1> SUFFICES ASSUME ProbeInit PROVE ProbeInv OBVIOUS
<1>1. ProbeTypeOK BY DEF ProbeInit, ProbeTypeOK, States, NoProbe, ProbeRecord, ProbeKinds
<1>2. EpochInv BY DEF ProbeInit, EpochInv, NoProbe
<1>3. SupportedIsProven BY DEF ProbeInit, SupportedIsProven
<1> QED BY <1>1, <1>2, <1>3, SMTT(30) DEF ProbeInv

\* No call of recordConnDeath has been made either.
LEMMA NoFailures == ProbeInit => FailuresHandled
<1> SUFFICES ASSUME ProbeInit PROVE FailuresHandled OBVIOUS
<1>1. Handling = {} BY DEF ProbeInit, Handling
<1>2. Cardinality(Handling) = 0 BY <1>1, FS_EmptySet, SMTT(30)
<1> QED BY <1>2, ProbeAssumption DEF ProbeInit, FailuresHandled, Handling

\* Type correctness of a step.
LEMMA ProbeTypeStep == ProbeTypeOK /\ [ProbeNext]_probeVars => ProbeTypeOK'
<1> SUFFICES ASSUME ProbeTypeOK, [ProbeNext]_probeVars PROVE ProbeTypeOK' OBVIOUS
<1> USE DEF ProbeTypeOK
<1>1. ASSUME NEW q \in Dispatches, Dispatch(q) \/ SkipProbe(q) \/ ExchangeSingle(q) PROVE ProbeTypeOK'
  BY <1>1 DEF Dispatch, SkipProbe, ExchangeSingle, muxVars
<1>2. ASSUME NEW q \in Dispatches, StartProbe(q) PROVE ProbeTypeOK'
  <2>1. [NoProbe EXCEPT !.pc = "dial", !.epoch = probeEpoch, !.started = resets] \in ProbeRecord
    BY Zenon DEF NoProbe, ProbeRecord
  <2>2. probe' \in [Probes -> ProbeRecord] BY <1>2, <2>1 DEF StartProbe
  <2> QED BY <1>2, <2>2 DEF StartProbe, States
<1>3. ASSUME NEW p \in Probes, ProbeDial(p) \/ ProbeFail(p) PROVE ProbeTypeOK'
  BY <1>3 DEF ProbeDial, ProbeFail, ProbeRecord, muxVars
<1>4. ASSUME NEW p \in Probes, ProbeAnswer(p) PROVE ProbeTypeOK'
  <2>1. PICK kind \in ProbeKinds : probe' = [probe EXCEPT ![p] =
            IF probe[p].seen \cup {kind} = ProbeKinds THEN [@ EXCEPT !.pc = "apply", !.seen = {}, !.outcome = "supported"]
                                                      ELSE [@ EXCEPT !.seen = probe[p].seen \cup {kind}]]
    BY <1>4, Zenon DEF ProbeAnswer
  <2>2. [probe[p] EXCEPT !.pc = "apply", !.seen = {}, !.outcome = "supported"] \in ProbeRecord
    BY Zenon DEF ProbeRecord
  <2>3. [probe[p] EXCEPT !.seen = probe[p].seen \cup {kind}] \in ProbeRecord
    BY DEF ProbeRecord
  <2>4. probe' \in [Probes -> ProbeRecord] BY <2>1, <2>2, <2>3
  <2> QED BY <1>4, <2>4 DEF ProbeAnswer, muxVars
<1>5. ASSUME NEW p \in Probes, ApplyStale(p) \/ Apply(p) PROVE ProbeTypeOK'
  <2>1. NoProbe \in ProbeRecord BY DEF NoProbe, ProbeRecord
  <2>2. probe' \in [Probes -> ProbeRecord] BY <1>5, <2>1 DEF ApplyStale, Apply, ProbeEnd
  <2> QED BY <1>5, <2>2, SMTT(30) DEF ApplyStale, Apply, States, ProbeRecord, muxVars
<1>6. ASSUME NEW d \in Deaths, DeathLoad(d) \/ DeathCount(d) \/ DeathAdd(d) \/ DeathDemote(d) \/ DeathClear(d) PROVE ProbeTypeOK'
  <2>1. dpc' \in [Deaths -> {"idle", "count", "add", "demote", "clear"}]
    BY <1>6 DEF DeathLoad, DeathCount, DeathAdd, DeathDemote, DeathClear, DeathAt
  <2>2. demoteFailures' \in Nat BY <1>6, SMTT(30) DEF DeathLoad, DeathCount, DeathAdd, DeathDemote, DeathClear, muxVars
  <2>3. reuseState' \in States BY <1>6 DEF DeathLoad, DeathCount, DeathAdd, DeathDemote, DeathClear, States, muxVars
  <2>4. UNCHANGED <<probeEpoch, probe, clearing, resets, proof>>
    BY <1>6 DEF DeathLoad, DeathCount, DeathAdd, DeathDemote, DeathClear, muxVars
  <2> QED BY <2>1, <2>2, <2>3, <2>4, SMTT(30)
<1>7. ASSUME Reset \/ ResetClear \/ Elapse PROVE ProbeTypeOK'
  BY <1>7 DEF Reset, ResetClear, Elapse, States
<1>8. ASSUME UNCHANGED probeVars PROVE ProbeTypeOK' BY <1>8 DEF probeVars, muxVars
<1> QED BY <1>1, <1>2, <1>3, <1>4, <1>5, <1>6, <1>7, <1>8 DEF ProbeNext, ProbeStep

\* A result is only applied in the epoch in which its probe began.
LEMMA ProvenStep ==
  ASSUME ProbeTypeOK, EpochInv, SupportedIsProven, [ProbeNext]_probeVars PROVE EpochInv' /\ SupportedIsProven'
<1> USE DEF ProbeTypeOK, ProbeRecord, EpochInv, SupportedIsProven
<1>1. ASSUME NEW q \in Dispatches, Dispatch(q) \/ SkipProbe(q) \/ ExchangeSingle(q) PROVE EpochInv' /\ SupportedIsProven'
  BY <1>1 DEF Dispatch, SkipProbe, ExchangeSingle, muxVars
<1>2. ASSUME NEW q \in Dispatches, StartProbe(q) PROVE EpochInv' /\ SupportedIsProven'
  BY <1>2 DEF StartProbe, NoProbe
<1>3. ASSUME NEW p \in Probes, ProbeDial(p) \/ ProbeFail(p) PROVE EpochInv' /\ SupportedIsProven'
  <2>1. \A x \in Probes : probe'[x].epoch = probe[x].epoch /\ probe'[x].started = probe[x].started
    BY <1>3 DEF ProbeDial, ProbeFail
  <2> QED BY <1>3, <2>1 DEF ProbeDial, ProbeFail, muxVars
<1>4. ASSUME NEW p \in Probes, ProbeAnswer(p) PROVE EpochInv' /\ SupportedIsProven'
  <2>1. \A x \in Probes : probe'[x].epoch = probe[x].epoch /\ probe'[x].started = probe[x].started
    BY <1>4 DEF ProbeAnswer
  <2> QED BY <1>4, <2>1 DEF ProbeAnswer, muxVars
<1>5. ASSUME NEW p \in Probes, ApplyStale(p) \/ Apply(p) PROVE EpochInv' /\ SupportedIsProven'
  BY <1>5, SMTT(30) DEF ApplyStale, Apply, ProbeEnd, NoProbe, muxVars
<1>6. ASSUME NEW d \in Deaths, DeathLoad(d) \/ DeathCount(d) \/ DeathAdd(d) \/ DeathDemote(d) \/ DeathClear(d) PROVE EpochInv' /\ SupportedIsProven'
  BY <1>6 DEF DeathLoad, DeathCount, DeathAdd, DeathDemote, DeathClear, DeathAt, muxVars
<1>7. ASSUME Reset \/ ResetClear \/ Elapse PROVE EpochInv' /\ SupportedIsProven'
  BY <1>7 DEF Reset, ResetClear, Elapse
<1>8. ASSUME UNCHANGED probeVars PROVE EpochInv' /\ SupportedIsProven' BY <1>8 DEF probeVars, muxVars
<1> QED BY <1>1, <1>2, <1>3, <1>4, <1>5, <1>6, <1>7, <1>8, Zenon DEF ProbeNext, ProbeStep

\* A step adds at most the failure of a call that goes on to demote, and no
\* call stops before the counter is cleared.
LEMMA FailuresStep ==
  ASSUME ProbeTypeOK, FailuresHandled, [ProbeNext]_probeVars PROVE FailuresHandled'
<1> USE DEF ProbeTypeOK
<1>0. IsFiniteSet(Handling) /\ Cardinality(Handling) \in Nat /\ IsFiniteSet(Handling') /\ Cardinality(Handling') \in Nat
  BY ProbeAssumption, FS_Subset, FS_CardinalityType DEF Handling
<1>1. demoteFailures < Limit + Cardinality(Handling) BY DEF FailuresHandled, Handling
<1>2. SUFFICES demoteFailures' < Limit + Cardinality(Handling') BY DEF FailuresHandled, Handling
<1>3. ASSUME demoteFailures' = 0 PROVE demoteFailures' < Limit + Cardinality(Handling')
  BY <1>0, <1>3, ProbeAssumption
<1>4. ASSUME demoteFailures' = demoteFailures, Handling' = Handling PROVE demoteFailures' < Limit + Cardinality(Handling')
  BY <1>1, <1>4
<1>5. ASSUME UNCHANGED <<demoteFailures, dpc>> PROVE demoteFailures' < Limit + Cardinality(Handling')
  BY <1>4, <1>5 DEF Handling
<1>6. ASSUME NEW p \in Probes, Apply(p) PROVE demoteFailures' = 0 \/ UNCHANGED <<demoteFailures, dpc>>
  BY <1>6 DEF Apply
<1>7. ASSUME NEW d \in Deaths, DeathLoad(d) \/ DeathDemote(d) PROVE demoteFailures' < Limit + Cardinality(Handling')
  <2>1. demoteFailures' = demoteFailures BY <1>7 DEF DeathLoad, DeathDemote, muxVars
  <2>2. Handling' = Handling BY <1>7 DEF DeathLoad, DeathDemote, DeathAt, Handling
  <2> QED BY <2>1, <2>2, <1>4
<1>8. ASSUME NEW d \in Deaths, DeathCount(d) \/ DeathClear(d) PROVE demoteFailures' < Limit + Cardinality(Handling')
  <2>1. demoteFailures' = 0 \/ (demoteFailures' = demoteFailures /\ Handling' = Handling)
    BY <1>8 DEF DeathCount, DeathClear, DeathAt, Handling
  <2> QED BY <2>1, <1>3, <1>4
<1>9. ASSUME NEW d \in Deaths, DeathAdd(d) PROVE demoteFailures' < Limit + Cardinality(Handling')
  <2>1. CASE demoteFailures + 1 < Limit
    <3>1. demoteFailures' = demoteFailures + 1 BY <1>9 DEF DeathAdd
    <3> QED BY <1>0, <2>1, <3>1, ProbeAssumption
  <2>2. CASE ~(demoteFailures + 1 < Limit)
    <3>1. demoteFailures' = demoteFailures + 1 /\ d \notin Handling /\ Handling' = Handling \cup {d}
      BY <1>9, <2>2 DEF DeathAdd, DeathAt, Handling
    <3>2. Cardinality(Handling') = Cardinality(Handling) + 1 BY <1>0, <3>1, FS_AddElement
    <3> QED BY <1>0, <1>1, <3>1, <3>2, ProbeAssumption
  <2> QED BY <2>1, <2>2
<1>10. ASSUME NEW q \in Dispatches, Dispatch(q) \/ StartProbe(q) \/ SkipProbe(q) \/ ExchangeSingle(q) PROVE UNCHANGED <<demoteFailures, dpc>>
  BY <1>10 DEF Dispatch, StartProbe, SkipProbe, ExchangeSingle, muxVars
<1>11. ASSUME NEW p \in Probes, ProbeDial(p) \/ ProbeAnswer(p) \/ ProbeFail(p) \/ ApplyStale(p) PROVE UNCHANGED <<demoteFailures, dpc>>
  BY <1>11 DEF ProbeDial, ProbeAnswer, ProbeFail, ApplyStale, muxVars
<1>12. ASSUME Reset \/ Elapse \/ UNCHANGED probeVars PROVE UNCHANGED <<demoteFailures, dpc>> BY <1>12 DEF Reset, Elapse, probeVars, muxVars
<1>13. ASSUME ResetClear PROVE demoteFailures' = 0 BY <1>13 DEF ResetClear
<1> QED BY <1>3, <1>5, <1>6, <1>7, <1>8, <1>9, <1>10, <1>11, <1>12, <1>13, ZenonT(30) DEF ProbeNext, ProbeStep

\* The invariant always holds.
LEMMA ProbeInvariance == ProbeSpec => []ProbeInv
<1>1. ProbeInv /\ [ProbeNext]_probeVars => ProbeInv' BY ProbeTypeStep, ProvenStep DEF ProbeInv
<1> QED BY <1>1, ProbeInitInv, PTL DEF ProbeSpec

\* Connections are only shared on the word of a probe that began after the
\* last Reset (applyReuseProbe and Reset of multiplexer.go), however many
\* probes and Resets overlap.
THEOREM SharingIsProven == ProbeSpec => []SupportedIsProven
BY ProbeInvariance, PTL DEF ProbeInv

\* recordConnDeath never leaves the counter at the limit: what it is above
\* the limit is the failures of calls that are about to clear it.
THEOREM FailuresAreHandled == ProbeSpec => []FailuresHandled
<1>1. ProbeInv /\ FailuresHandled /\ [ProbeNext]_probeVars => FailuresHandled' BY FailuresStep DEF ProbeInv
<1> QED BY <1>1, NoFailures, ProbeInvariance, PTL DEF ProbeSpec
=============================================================================
