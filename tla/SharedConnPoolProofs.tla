------------------------ MODULE SharedConnPoolProofs ------------------------
(***************************************************************************)
(* The inductive invariant of SharedConnPool, the theorems that follow     *)
(* from it, and that SharedConnPool implements AbstractConnPool, for any   *)
(* sets of callers, connects and states.  In order: lemmas about counting  *)
(* callers and what the critical sections preserve; the steps of a caller; *)
(* the remaining steps and the theorems; the refinement.  A step of a      *)
(* connect appears in AbstractConnPool when it installs its connection, a  *)
(* swap of the state as the loss of the current connection, and closeState *)
(* as the late closing of past ones.                                       *)
(***************************************************************************)
EXTENDS SharedConnPool, FiniteSetTheorems, TLAPS

-----------------------------------------------------------------------------
(* Counting callers                                                        *)

\* The callers that hold a connection or wait for one can be counted.
LEMMA CallersFinite ==
  /\ \A k : IsFiniteSet(Holders(k))
  /\ \A g : IsFiniteSet(WaitersOf(g))
  BY FiniteAssumption, FS_Subset DEF Holders, WaitersOf

\* What leaves waiters and waiting callers alone keeps sharedWaiters exact.
LEMMA KeepWaiters ==
  ASSUME WaitersExact, waiters' = waiters,
         \A c \in Callers : /\ pc'[c] = "wait" <=> pc[c] = "wait"
                            /\ pc[c] = "wait" => cgen'[c] = cgen[c]
  PROVE  WaitersExact'
<1>1. \A g \in Gens : WaitersOf(g)' = WaitersOf(g)
  BY DEF WaitersOf
<1> QED BY <1>1 DEF WaitersExact

\* A caller that stops waiting, and its decrement.
LEMMA LeaveWait ==
  ASSUME TypeOK, CallerInv, WaitersExact, NEW c \in Callers, pc[c] = "wait",
         waiters' = [waiters EXCEPT ![cgen[c]] = @ - 1],
         \A x \in Callers : x # c => pc'[x] = pc[x] /\ cgen'[x] = cgen[x],
         pc'[c] # "wait"
  PROVE  WaitersExact'
<1>1. PICK g \in Gens : g = cgen[c]
  BY DEF CallerInv
<1>2. \A h \in Gens : h # g => WaitersOf(h)' = WaitersOf(h) /\ waiters'[h] = waiters[h]
  BY <1>1 DEF WaitersOf, TypeOK, PoolTypes, DialTypes, CallerTypes
<1>3. WaitersOf(g)' = WaitersOf(g) \ {c} /\ c \in WaitersOf(g)
  BY <1>1 DEF WaitersOf
<1>4. Cardinality(WaitersOf(g) \ {c}) = Cardinality(WaitersOf(g)) - 1
  BY <1>3, CallersFinite, FS_RemoveElement, Zenon
<1>5. waiters'[g] = waiters[g] - 1
  BY <1>1 DEF TypeOK, PoolTypes, DialTypes, CallerTypes
<1> QED BY <1>2, <1>3, <1>4, <1>5 DEF WaitersExact

\* A caller that starts waiting, and its increment.
LEMMA EnterWait ==
  ASSUME TypeOK, WaitersExact, NEW c \in Callers, NEW g \in Gens, pc[c] # "wait",
         waiters' = [waiters EXCEPT ![g] = @ + 1],
         \A x \in Callers : x # c => pc'[x] = pc[x] /\ cgen'[x] = cgen[x],
         pc'[c] = "wait", cgen'[c] = g
  PROVE  WaitersExact'
<1>1. \A h \in Gens : h # g => WaitersOf(h)' = WaitersOf(h) /\ waiters'[h] = waiters[h]
  BY DEF WaitersOf, TypeOK, PoolTypes, DialTypes, CallerTypes
<1>2. WaitersOf(g)' = WaitersOf(g) \cup {c} /\ c \notin WaitersOf(g)
  BY DEF WaitersOf
<1>3. Cardinality(WaitersOf(g) \cup {c}) = Cardinality(WaitersOf(g)) + 1
  BY <1>2, CallersFinite, FS_AddElement, Zenon
<1>4. waiters'[g] = waiters[g] + 1
  BY DEF TypeOK, PoolTypes, DialTypes, CallerTypes
<1> QED BY <1>1, <1>2, <1>3, <1>4 DEF WaitersExact

\* What leaves the shared connection, its count and its holders alone keeps
\* sharedUsers exact.
LEMMA KeepUsers ==
  ASSUME UsersExact, UNCHANGED <<closed, state, shared, users>>,
         \A c \in Callers : /\ pc'[c] = "hold" <=> pc[c] = "hold"
                            /\ pc[c] = "hold" => cconn'[c] = cconn[c]
  PROVE  UsersExact'
<1>1. \A k : Holders(k)' = Holders(k)
  BY DEF Holders
<1> QED BY <1>1 DEF UsersExact

\* A caller that is handed the shared connection, and its increment.
LEMMA EnterHold ==
  ASSUME TypeOK, StateInv, UsersExact, NEW c \in Callers, ~closed, UNCHANGED <<closed, state, shared>>,
         pc[c] # "hold", users' = [users EXCEPT ![state] = @ + 1],
         \A x \in Callers : x # c => pc'[x] = pc[x] /\ cconn'[x] = cconn[x],
         pc'[c] = "hold", cconn'[c] = shared[state]
  PROVE  UsersExact'
<1>1. PICK g \in Gens : g = state
  BY DEF TypeOK, PoolTypes, StateInv
<1>2. SUFFICES ASSUME shared[g] # None PROVE users'[g] = Cardinality(Holders(shared[g])')
  BY <1>1 DEF UsersExact, Holders
<1>3. PICK k : k = shared[g]
  OBVIOUS
<1>4. Holders(k)' = Holders(k) \cup {c} /\ c \notin Holders(k)
  BY <1>1, <1>3 DEF Holders
<1>5. Cardinality(Holders(k) \cup {c}) = Cardinality(Holders(k)) + 1
  BY <1>4, CallersFinite, FS_AddElement, Zenon
<1>6. users'[g] = users[g] + 1 /\ users[g] = Cardinality(Holders(k))
  BY <1>1, <1>2, <1>3 DEF TypeOK, PoolTypes, DialTypes, CallerTypes, UsersExact
<1>7. Holders(shared[g])' = Holders(k)'
  BY <1>1, <1>3 DEF Holders
<1> QED BY <1>4, <1>5, <1>6, <1>7

\* A holder of the shared connection that gives it back for reuse.
LEMMA LeaveHold ==
  ASSUME TypeOK, StateInv, UsersExact, NEW c \in Callers, ~closed, UNCHANGED <<closed, state, shared>>,
         pc[c] = "hold", cconn[c] = shared[state], shared[state] # None,
         users' = [users EXCEPT ![state] = IF @ > 0 THEN @ - 1 ELSE @],
         \A x \in Callers : x # c => pc'[x] = pc[x] /\ cconn'[x] = cconn[x],
         pc'[c] # "hold"
  PROVE  UsersExact'
<1>1. PICK g \in Gens, k \in Dials \cup {None} : g = state /\ k = shared[g]
  BY DEF TypeOK, PoolTypes, StateInv
<1>2. Holders(k)' = Holders(k) \ {c} /\ c \in Holders(k)
  BY <1>1 DEF Holders
<1>3. Cardinality(Holders(k) \ {c}) = Cardinality(Holders(k)) - 1 /\ Cardinality(Holders(k)) # 0
  BY <1>2, CallersFinite, FS_RemoveElement, FS_EmptySet
<1>4. users[g] = Cardinality(Holders(k)) /\ users[g] \in Nat
  BY <1>1 DEF UsersExact, TypeOK, PoolTypes, DialTypes, CallerTypes
<1>5. users'[g] = users[g] - 1
  BY <1>1, <1>3, <1>4 DEF TypeOK, PoolTypes, DialTypes, CallerTypes
<1> QED BY <1>1, <1>2, <1>3, <1>4, <1>5, Zenon DEF UsersExact, Holders

-----------------------------------------------------------------------------
(* What the shared helpers of the critical sections preserve               *)

\* removeConn, applied to a connection that the live state tracks.
LEMMA RemoveKeeps ==
  ASSUME Inv, NEW k \in Dials, Tracked(k), RemoveConn(state, k),
         UNCHANGED <<poolVars, connecting, dialVars, dead, creators>>
  PROVE  PoolInv' /\ UsersExact'
<1>1. PICK g \in Gens : g = state
  BY DEF Inv, PoolInv, TypeOK, PoolTypes, DialTypes, CallerTypes, StateInv, Tracked
<1> USE <1>1, NoneAssumption DEF Inv, PoolInv, TypeOK, PoolTypes, DialTypes, CallerTypes, Tracked, poolVars, dialVars, RemoveConn
<1>2. shared[g] = k /\ all[g] = {k} /\ connecting[g] = None
  BY DEF SingleTracked
<1>3. all'[g] = {} /\ shared'[g] = None
  BY <1>2
<1>4. \A h \in Gens : h # g => all'[h] = all[h] /\ shared'[h] = shared[h]
  OBVIOUS
<1>6. StateInv'
  BY DEF StateInv
<1>7. DialInv'
  BY DEF DialInv, DialOK, StateInv, SingleTracked
<1>8. SingleTracked'
  BY <1>2, <1>3, <1>4, ZenonT(30) DEF SingleTracked
<1>9. NoLeak'
  BY DEF SingleTracked, NoLeak, DialInv, DialOK, StateInv
<1>10. ClaimInv'
  BY DEF ClaimInv
<1>11. UsersExact'
  BY <1>3 DEF UsersExact
<1> QED BY <1>6, <1>7, <1>8, <1>9, <1>10, <1>11 DEF PoolInv

\* A step that touches no variable of the pool.
LEMMA PoolKept ==
  ASSUME PoolInv,
         UNCHANGED <<poolVars, all, shared, claimed, users, connecting, dpc, dgen, derr, connVars, creators>>
  PROVE  PoolInv'
<1> USE DEF PoolInv, poolVars, connVars
<1>1. StateInv' BY DEF StateInv
<1>2. DialInv' BY DEF DialInv, DialOK
<1>3. SingleTracked' BY DEF SingleTracked
<1>4. NoLeak' BY DEF NoLeak
<1>5. ClaimInv' BY DEF ClaimInv
<1> QED BY <1>1, <1>2, <1>3, <1>4, <1>5

\* Handing out the live shared connection.
LEMMA HandOutKeeps ==
  ASSUME Inv, NEW c \in Callers, ~closed, shared[state] # None, pc[c] # "hold", HandOut(c, state),
         UNCHANGED <<poolVars, all, shared, connecting, dialVars, connVars>>
  PROVE  PoolInv' /\ UsersExact' /\ OneCreator' /\ CallerInv'
<1>1. PICK g \in Gens, k \in Dials : g = state /\ k = shared[g]
  BY DEF Inv, PoolInv, TypeOK, PoolTypes, DialTypes, CallerTypes, StateInv
<1> USE <1>1, NoneAssumption DEF Inv, PoolInv, TypeOK, PoolTypes, DialTypes, CallerTypes, poolVars, dialVars, connVars, HandOut, Goto
<1>3. StateInv' /\ SingleTracked' /\ NoLeak'
  BY DEF StateInv, SingleTracked, NoLeak
<1>4. DialInv'
  BY DEF DialInv, DialOK
<1>5. k \in all[g] /\ dpc[k] \in {"installed", "done"} /\ dgen[k] = g
  BY DEF SingleTracked, DialInv, DialOK
<1>6. \A h \in Gens : shared[h] = k => h = g
  BY <1>5 DEF SingleTracked, DialInv, DialOK
<1>7. creators[k] = IF claimed[g] THEN 1 ELSE 0
  BY DEF ClaimInv
<1>8. creators'[k] = 1 /\ \A j \in Dials : j # k => creators'[j] = creators[j]
  BY <1>7
<1>9. claimed'[g] /\ \A h \in Gens : h # g => claimed'[h] = claimed[h] /\ users'[h] = users[h]
  OBVIOUS
<1>10. ClaimInv'
  BY <1>5, <1>6, <1>8, <1>9 DEF ClaimInv
<1>11. OneCreator'
  BY <1>8 DEF OneCreator, Holders
<1>12. CallerInv'
  BY DEF CallerInv
<1>13. UsersExact'
  BY EnterHold DEF CountsExact
<1> QED BY <1>3, <1>4, <1>10, <1>11, <1>12, <1>13 DEF PoolInv

-----------------------------------------------------------------------------
(* Type correctness                                                        *)

\* A new pool is type correct.
LEMMA TypeInit == Init => TypeOK
<1> SUFFICES ASSUME Init PROVE TypeOK
  OBVIOUS
<1>1. PoolTypes
  <2>1. phase \in [Gens -> Phases] BY DEF Init, Phases
  <2>2. users \in [Gens -> Nat] /\ waiters \in [Gens -> Int] BY DEF Init
  <2> QED BY <2>1, <2>2, Zenon DEF Init, PoolTypes
<1>2. DialTypes BY DEF Init, DialTypes
<1>3. CallerTypes BY DEF Init, CallerTypes
<1> QED BY <1>1, <1>2, <1>3 DEF TypeOK

\* A caller that moves on keeps the types.
LEMMA GotoTypes ==
  ASSUME CallerTypes, NEW c \in Callers, NEW label \in {"idle", "acquire", "hold"},
         NEW k \in Dials \cup {None}, Goto(c, label, k)
  PROVE  CallerTypes'
  BY DEF CallerTypes, Goto

\* A caller that returns from Acquire or tries again keeps the types.
LEMMA ReturnTypes ==
  ASSUME CallerTypes, NEW c \in Callers, Return(c) \/ Retry(c)
  PROVE  CallerTypes'
  BY GotoTypes DEF Return, Retry

\* removeConn keeps the types; sharedUsers does not go below zero in it.
LEMMA RemoveTypes ==
  ASSUME TypeOK, ~closed, state \in Gens, NEW k \in Dials, RemoveConn(state, k),
         UNCHANGED <<poolVars, connecting, dialVars, dead, creators>>, waiters' \in [Gens -> Int]
  PROVE  PoolTypes' /\ DialTypes'
<1> USE DEF TypeOK, PoolTypes, RemoveConn
<1>1. all' \in [Gens -> SUBSET Dials] /\ shared' \in [Gens -> Dials \cup {None}]
  OBVIOUS
<1>2. claimed' \in [Gens -> BOOLEAN]
  BY Zenon
<1>3. users' \in [Gens -> Nat]
  OBVIOUS
<1>4. PoolTypes'
  BY <1>1, <1>2, <1>3, Zenon DEF poolVars
<1>5. removed' \in SUBSET Dials /\ open' \in SUBSET Dials
  BY DEF DialTypes
<1>6. DialTypes'
  BY <1>5 DEF DialTypes, dialVars
<1> QED BY <1>4, <1>6, Zenon

\* Handing out the shared connection keeps the types.
LEMMA HandOutTypes ==
  ASSUME TypeOK, ~closed, state \in Gens, shared[state] # None, NEW c \in Callers, HandOut(c, state),
         UNCHANGED <<poolVars, all, shared, connecting, dialVars, connVars>>, waiters' \in [Gens -> Int]
  PROVE  TypeOK'
<1>1. PoolTypes'
  <2> USE DEF TypeOK, PoolTypes, HandOut
  <2>1. claimed' \in [Gens -> BOOLEAN]
    OBVIOUS
  <2>2. users' \in [Gens -> Nat]
    OBVIOUS
  <2> QED BY <2>1, <2>2 DEF poolVars
<1>2. DialTypes'
  BY DEF TypeOK, PoolTypes, DialTypes, HandOut, dialVars, connVars
<1>3. CallerTypes'
  BY GotoTypes DEF TypeOK, PoolTypes, HandOut
<1> QED BY <1>1, <1>2, <1>3 DEF TypeOK

\* Every step keeps the types.
LEMMA TypeStep == Inv /\ [Next]_vars => TypeOK'
<1> SUFFICES ASSUME Inv, [Next]_vars PROVE TypeOK'
  OBVIOUS
<1>0. /\ TypeOK /\ PoolTypes /\ DialTypes /\ CallerTypes
      /\ ~closed => state \in Gens
      /\ \A d \in Dials : dpc[d] # "unused" => dgen[d] \in Gens
      /\ \A c \in Callers : pc[c] = "wait" => cgen[c] \in Gens /\ cdial[c] \in Dials
      /\ \A c \in Callers : pc[c] = "hold" => cconn[c] \in Dials
  BY SMTT(30) DEF Inv, PoolInv, TypeOK, PoolTypes, DialTypes, StateInv, DialInv, DialOK, CallerInv
<1>w. ASSUME NEW c \in Callers, pc[c] = "wait", waiters' = [waiters EXCEPT ![cgen[c]] = @ - 1]
      PROVE  waiters' \in [Gens -> Int]
  BY <1>0, <1>w, SMTT(30) DEF PoolTypes
<1> USE <1>0, NoneAssumption
<1>1. ASSUME NEW c \in Callers, CallerStep(c) PROVE TypeOK'
  <2> USE DEF TypeOK
  <2>a. ASSUME UNCHANGED <<poolVars, stateVars>> PROVE PoolTypes'
    BY <2>a DEF PoolTypes, poolVars, stateVars
  <2>b. ASSUME UNCHANGED <<poolVars, all, shared, claimed, users, connecting>>, waiters' \in [Gens -> Int]
        PROVE  PoolTypes'
    BY <2>b DEF PoolTypes, poolVars
  <2>c. ASSUME UNCHANGED <<dialVars, connVars, creators>> PROVE DialTypes'
    BY <2>c DEF DialTypes, dialVars, connVars
  <2>1. CASE Acquire(c) BY <2>1, <2>a, <2>c, ReturnTypes DEF Acquire
  <2>2. CASE AcquireClosed(c) BY <2>2, <2>a, <2>c, ReturnTypes DEF AcquireClosed
  <2>3. CASE AcquireShared(c) BY <2>3, HandOutTypes DEF AcquireShared, PoolTypes
  <2>4. CASE AcquireDead(c)
    <3>1. CallerTypes' BY <2>4 DEF AcquireDead, CallerTypes, callerVars
    <3> QED BY <3>1, <2>4, RemoveTypes DEF AcquireDead, PoolTypes
  <2>5. CASE AcquireWait(c)
    <3>a. UNCHANGED <<poolVars, all, shared, claimed, users>> /\ waiters' = [waiters EXCEPT ![state] = @ + 1]
      BY <2>5 DEF AcquireWait
    <3>s. state \in Gens BY <2>5 DEF AcquireWait
    <3>w. waiters \in [Gens -> Int] /\ waiters[state] + 1 \in Int BY <3>s DEF PoolTypes
    <3>b. waiters' \in [Gens -> Int] BY <3>a, <3>s, <3>w
    <3>c. connecting' \in [Gens -> Dials \cup {None}] BY <2>5, Zenon DEF AcquireWait, PoolTypes
    <3>1. PoolTypes' BY <3>a, <3>b, <3>c DEF PoolTypes, poolVars
    <3>2. DialTypes' BY <2>5, SMTT(30) DEF AcquireWait, DialTypes, dialVars, connVars
    <3>3. cdial' \in [Callers -> Dials \cup {None}] BY <2>5, SMTT(30) DEF AcquireWait, CallerTypes, PoolTypes
    <3>4. cstart' \in [Callers -> BOOLEAN] BY <2>5, Zenon DEF AcquireWait, CallerTypes
    <3>5. CallerTypes' BY <2>5, <3>3, <3>4, Zenon DEF AcquireWait, CallerTypes
    <3> QED BY <3>1, <3>2, <3>5
  <2>6. CASE CancelCaller(c)
    <3>1. DialTypes' BY <2>6 DEF CancelCaller, DialTypes, connVars
    <3>2. CallerTypes' BY <2>6 DEF CancelCaller, CallerTypes
    <3> QED BY <2>6, <2>a, <3>1, <3>2 DEF CancelCaller
  <2>7. CASE WaitCtxDone(c) BY <2>7, <1>w, <2>b, <2>c, ReturnTypes, Zenon DEF WaitCtxDone
  <2>8. CASE WaitStateDone(c) BY <2>8, <1>w, <2>b, <2>c, ReturnTypes, Zenon DEF WaitStateDone
  <2>9. CASE CollectShared(c)
    <3>1. CASE CollectError(c) BY <2>9, <3>1, <1>w, <2>b, <2>c, ReturnTypes, Zenon DEF CollectShared, CollectError
    <3>2. CASE CollectStale(c) BY <2>9, <3>2, <1>w, <2>b, <2>c, ReturnTypes, Zenon DEF CollectShared, CollectStale
    <3>3. CASE CollectGone(c) BY <2>9, <3>3, <1>w, <2>b, <2>c, ReturnTypes, Zenon DEF CollectShared, CollectGone
    <3>4. CASE CollectDead(c)
      BY <2>9, <3>4, <1>w, RemoveTypes, ReturnTypes, Zenon DEF CollectShared, CollectDead, PoolTypes
    <3>5. CASE CollectConn(c) BY <2>9, <3>5, <1>w, HandOutTypes, Zenon DEF CollectShared, CollectConn
    <3> QED BY <2>9, <3>1, <3>2, <3>3, <3>4, <3>5 DEF CollectShared
  <2>10. CASE Release(c)
    <3>1. CallerTypes' BY <2>10, ReturnTypes, Zenon DEF Release
    <3>2. CASE ReleaseUntracked(cconn[c])
      BY <2>10, <3>1, <3>2, <2>a, Zenon DEF Release, ReleaseUntracked, DialTypes, dialVars, stateVars
    <3>3. ASSUME NEW reuse \in BOOLEAN, ReleaseUnusable(cconn[c], reuse) PROVE TypeOK'
      BY <2>10, <3>1, <3>3, RemoveTypes DEF Release, ReleaseUnusable, Tracked, PoolTypes
    <3>4. ASSUME NEW reuse \in BOOLEAN, ReleaseReusable(cconn[c], reuse) PROVE TypeOK'
      <4>a. /\ UNCHANGED <<poolVars, all, shared, claimed, waiters, connecting>>
            /\ users' = [users EXCEPT ![state] = IF shared[state] = cconn[c] /\ @ > 0 THEN @ - 1 ELSE @]
        BY <2>10, <3>4, Zenon DEF Release, ReleaseReusable
      <4>s. state \in Gens BY <3>4 DEF ReleaseReusable, Tracked
      <4>n. (IF shared[state] = cconn[c] /\ users[state] > 0 THEN users[state] - 1 ELSE users[state]) \in Nat
        BY <4>s DEF PoolTypes
      <4>b. users' \in [Gens -> Nat] BY <4>a, <4>n, <4>s DEF PoolTypes
      <4>1. PoolTypes' BY <4>a, <4>b DEF PoolTypes, poolVars
      <4>2. DialTypes' BY <2>10, <3>4 DEF Release, ReleaseReusable, DialTypes, dialVars
      <4> QED BY <3>1, <4>1, <4>2
    <3> QED BY <2>10, <3>2, <3>3, <3>4, Zenon DEF Release
  <2>11. CASE InvalidateHeld(c)
    <3>1. CallerTypes' BY <2>11, ReturnTypes DEF InvalidateHeld
    <3>2. CASE ~Tracked(cconn[c])
      <4>1. PoolTypes' BY <2>11, <3>2, <2>a DEF InvalidateHeld, Invalidate, stateVars
      <4>2. DialTypes' BY <2>11, <3>2, Zenon DEF InvalidateHeld, Invalidate, DialTypes, dialVars
      <4> QED BY <3>1, <4>1, <4>2
    <3>3. CASE Tracked(cconn[c])
      BY <2>11, <3>1, <3>3, RemoveTypes, Zenon DEF InvalidateHeld, Invalidate, Tracked, PoolTypes
    <3> QED BY <3>2, <3>3
  <2>12. CASE Forget(c) BY <2>12, <2>a, <2>c, ReturnTypes, Zenon DEF Forget
  <2> QED BY <1>1, <2>1, <2>2, <2>3, <2>4, <2>5, <2>6, <2>7, <2>8, <2>9, <2>10, <2>11, <2>12 DEF CallerStep
<1>2. ASSUME NEW d \in Dials, DialStep(d) PROVE TypeOK'
  <2>1. CallerTypes' BY <1>2 DEF DialStep, DialReturn, Install, CloseDone, CallerTypes, callerVars
  <2>2. CASE DialReturn(d)
    <3>1. PoolTypes' BY <2>2, Zenon DEF DialReturn, PoolTypes, poolVars, stateVars
    <3>2. DialTypes' BY <2>2, ZenonT(30) DEF DialReturn, DialTypes
    <3> QED BY <2>1, <3>1, <3>2 DEF TypeOK
  <2>3. CASE Install(d)
    <3>a. /\ UNCHANGED <<poolVars, claimed, users, waiters>>
          /\ connecting' = [connecting EXCEPT ![dgen[d]] = None]
          /\ \/ UNCHANGED <<all, shared>>
             \/ /\ shared' = [shared EXCEPT ![dgen[d]] = d]
                /\ all' = [all EXCEPT ![dgen[d]] = @ \cup {d}]
      BY <2>3, Zenon DEF Install, InstallShared
    <3>b. connecting' \in [Gens -> Dials \cup {None}] BY <3>a, Zenon DEF PoolTypes
    <3>c. shared' \in [Gens -> Dials \cup {None}] BY <3>a DEF PoolTypes
    <3>d. all' \in [Gens -> SUBSET Dials] BY <3>a DEF PoolTypes
    <3>1. PoolTypes' BY <3>a, <3>b, <3>c, <3>d DEF PoolTypes, poolVars
    <3>2. DialTypes' BY <2>3, Zenon DEF Install, InstallShared, DialTypes
    <3> QED BY <2>1, <3>1, <3>2 DEF TypeOK
  <2>4. CASE CloseDone(d)
    <3>1. PoolTypes' BY <2>4, Zenon DEF CloseDone, PoolTypes, poolVars, stateVars
    <3>2. DialTypes' BY <2>4 DEF CloseDone, DialTypes, connVars
    <3> QED BY <2>1, <3>1, <3>2 DEF TypeOK
  <2> QED BY <1>2, <2>2, <2>3, <2>4, Zenon DEF DialStep
<1>3. ASSUME NEW d \in Dials, InvalidateByReader(d) PROVE TypeOK'
  <2>1. CallerTypes' BY <1>3 DEF InvalidateByReader, CallerTypes, callerVars
  <2>2. CASE ~Tracked(d)
    <3>1. PoolTypes' BY <1>3, <2>2, Zenon DEF InvalidateByReader, Invalidate, PoolTypes, poolVars
    <3>2. DialTypes' BY <1>3, <2>2, Zenon DEF InvalidateByReader, Invalidate, DialTypes, dialVars
    <3> QED BY <2>1, <3>1, <3>2 DEF TypeOK
  <2>3. CASE Tracked(d)
    BY <1>3, <2>1, <2>3, RemoveTypes, Zenon DEF InvalidateByReader, Invalidate, Tracked, TypeOK, PoolTypes
  <2> QED BY <2>2, <2>3
<1>4. ASSUME NEW d \in Dials, Die(d) PROVE TypeOK'
  BY <1>4 DEF Die, TypeOK, PoolTypes, DialTypes, CallerTypes, poolVars, stateVars, dialVars, callerVars
<1>5. CASE CloseIdle
  <2>1. CallerTypes' BY <1>5, Zenon DEF CloseIdle, CallerTypes, callerVars
  <2> QED BY <1>5, <2>1, RemoveTypes, Zenon DEF CloseIdle, TypeOK, PoolTypes
<1>6. ASSUME Reset \/ Close \/ \E g \in Gens : CancelState(g) \/ SweepState(g) PROVE TypeOK'
  <2> USE <1>6 DEF Reset, Close, CancelState, SweepState
  <2>1. PoolTypes' BY Zenon DEF PoolTypes, Phases, stateVars
  <2>2. DialTypes' BY Zenon DEF DialTypes, dialVars, connVars
  <2>3. CallerTypes' BY Zenon DEF CallerTypes, callerVars
  <2> QED BY <2>1, <2>2, <2>3, Zenon DEF TypeOK
<1>7. CASE UNCHANGED vars
  BY <1>7 DEF vars, TypeOK, PoolTypes, DialTypes, CallerTypes, poolVars, stateVars, dialVars, connVars, callerVars
<1> QED BY <1>1, <1>2, <1>3, <1>4, <1>5, <1>6, <1>7 DEF Next

-----------------------------------------------------------------------------
(* The inductive invariant                                                 *)

\* A new pool, with no connection and no caller in it, satisfies the invariant.
LEMMA InvInit == Init => Inv
<1> SUFFICES ASSUME Init PROVE Inv
  OBVIOUS
<1>1. TypeOK BY TypeInit
<1>2. StateInv BY NoneAssumption DEF Init, StateInv
<1>3. DialInv BY NoneAssumption DEF Init, DialInv, DialOK
<1>4. SingleTracked /\ NoLeak BY DEF Init, SingleTracked, NoLeak
<1>5. ClaimInv BY NoneAssumption DEF Init, ClaimInv
<1>6. CallerInv BY DEF Init, CallerInv
<1>7. \A k : Holders(k) = {} /\ WaitersOf(k) = {} BY DEF Init, Holders, WaitersOf
<1>8. OneCreator BY <1>7 DEF Init, OneCreator
<1>9. CountsExact BY <1>7, FS_EmptySet, Zenon DEF Init, CountsExact, UsersExact, WaitersExact
<1> QED BY <1>1, <1>2, <1>3, <1>4, <1>5, <1>6, <1>8, <1>9 DEF Inv, PoolInv

\* A caller that returns or retries.
LEMMA LeaveKeeps ==
  ASSUME Inv, NEW c \in Callers, Return(c) \/ Retry(c), UNCHANGED <<dgen, creators>>
  PROVE  /\ CallerInv' /\ OneCreator'
         /\ \A x \in Callers : x # c => pc'[x] = pc[x] /\ cgen'[x] = cgen[x] /\ cconn'[x] = cconn[x]
         /\ pc'[c] \in {"idle", "acquire"}
<1> USE DEF Inv, TypeOK, CallerTypes, Return, Retry, Goto
<1>1. CallerInv' BY DEF CallerInv
<1>2. OneCreator' BY DEF OneCreator, Holders
<1> QED BY <1>1, <1>2

\* A step that leaves the callers alone.
LEMMA StayKeeps ==
  ASSUME Inv, UNCHANGED <<callerVars, creators, waiters, dgen>>
  PROVE  CallerInv' /\ OneCreator' /\ WaitersExact' /\ \A k : Holders(k)' = Holders(k)
<1> USE DEF Inv, callerVars
<1>1. CallerInv' BY DEF CallerInv
<1>2. OneCreator' BY DEF OneCreator, Holders
<1>3. WaitersExact' BY KeepWaiters DEF CountsExact
<1> QED BY <1>1, <1>2, <1>3, Zenon DEF Holders

\* A caller only holds connections whose connect has installed them.
LEMMA HeldInstalled ==
  ASSUME Inv, NEW c \in Callers, pc[c] = "hold"
  PROVE  cconn[c] \in Dials /\ dpc[cconn[c]] \in {"installed", "done"}
<1>1. PICK k \in Dials : k = cconn[c]
  BY DEF Inv, CallerInv
<1>2. creators[k] = 1
  BY <1>1 DEF Inv, OneCreator, Holders
<1> QED BY <1>1, <1>2 DEF Inv, PoolInv, ClaimInv

\* Closing a connection that the live state does not track.
LEMMA UntrackedKeeps ==
  ASSUME Inv, NEW k \in Dials, ~Tracked(k), dpc[k] \in {"installed", "done"},
         open' = open \ {k} \/ open' = open,
         UNCHANGED <<poolVars, all, shared, claimed, users, removed, connecting, dialVars, dead, creators>>
  PROVE  PoolInv'
<1> USE DEF Inv, PoolInv, poolVars, dialVars
<1>1. StateInv' /\ SingleTracked' /\ ClaimInv' BY Zenon DEF StateInv, SingleTracked, ClaimInv
<1>2. DialInv'
  <2>1. \A x \in Dials : DialOK(x) BY Zenon DEF DialInv
  <2>2. \A g \in Gens : phase[g] = "live" => g = state /\ ~closed BY NoneAssumption, Zenon DEF StateInv
  <2> HIDE DEF Inv, PoolInv
  <2> SUFFICES ASSUME NEW x \in Dials PROVE DialOK(x)' BY Zenon DEF DialInv
  <2>3. \A g \in Gens : phase[g] = "live" /\ k \in all[g] => FALSE BY <2>2, Zenon DEF Tracked
  <2>4. DialOK(x) BY <2>1
  <2>5. CASE x # k BY <2>4, <2>5, Zenon DEF DialOK
  <2>6. CASE x = k BY <2>3, <2>4, <2>6, Zenon DEF DialOK
  <2> QED BY <2>5, <2>6
<1>3. NoLeak' BY DEF NoLeak
<1> QED BY <1>1, <1>2, <1>3

\* A holder of a connection that the live state does not track leaves.
LEMMA DropHold ==
  ASSUME Inv, NEW c \in Callers, pc[c] = "hold", ~Tracked(cconn[c]), pc'[c] # "hold",
         \A x \in Callers : x # c => pc'[x] = pc[x] /\ cconn'[x] = cconn[x],
         UNCHANGED <<closed, state, shared, users>>
  PROVE  UsersExact'
<1> SUFFICES ASSUME ~closed, shared[state] # None
             PROVE  users[state] = Cardinality(Holders(shared[state])')
  BY DEF UsersExact, Holders
<1>1. PICK g \in Gens, k \in Dials \cup {None} : g = state /\ k = shared[g]
  BY DEF Inv, TypeOK, PoolTypes, PoolInv, StateInv
<1>2. cconn[c] # k
  BY <1>1, Zenon DEF Tracked, Inv, PoolInv, SingleTracked
<1>3. Holders(k)' = Holders(k)
  BY <1>2 DEF Holders
<1>4. Holders(shared[state])' = Holders(k)' /\ users[state] = Cardinality(Holders(k))
  BY <1>1 DEF Holders, Inv, CountsExact, UsersExact
<1> QED BY <1>3, <1>4

\* A decrement of sharedUsers.
LEMMA SharedReleased ==
  ASSUME Inv, ~closed, state \in Gens, shared[state] # None,
         users' = [users EXCEPT ![state] = IF @ > 0 THEN @ - 1 ELSE @],
         UNCHANGED <<poolVars, all, shared, claimed, removed, open, connecting, dialVars, dead, creators>>
  PROVE  PoolInv'
<1> USE DEF Inv, PoolInv, poolVars, dialVars
<1>1. StateInv' /\ SingleTracked' /\ NoLeak' BY Zenon DEF StateInv, SingleTracked, NoLeak
<1>2. DialInv' BY DEF DialInv, DialOK
<1>3. ClaimInv' BY Zenon DEF ClaimInv, TypeOK, PoolTypes
<1> QED BY <1>1, <1>2, <1>3

\* A caller joins the connect in progress or starts one.
LEMMA WaitKeeps ==
  ASSUME Inv, NEW c \in Callers, AcquireWait(c)
  PROVE  PoolInv' /\ CallerInv' /\ OneCreator' /\ UsersExact' /\ WaitersExact'
<1>1. PICK g \in Gens : g = state
  BY DEF AcquireWait, Inv, TypeOK, PoolTypes, PoolInv, StateInv
<1> USE <1>1, NoneAssumption DEF Inv, poolVars, connVars
<1>2. UsersExact' BY DEF AcquireWait, UsersExact
<1>3. /\ \A x \in Callers : x # c => pc'[x] = pc[x] /\ cgen'[x] = cgen[x] /\ cconn'[x] = cconn[x] /\ cdial'[x] = cdial[x]
      /\ pc'[c] = "wait" /\ cgen'[c] = g /\ pc[c] = "acquire"
  BY DEF AcquireWait, TypeOK, CallerTypes
<1>4. WaitersExact' BY <1>3, EnterWait, Zenon DEF AcquireWait, CountsExact
<1>5. OneCreator' BY <1>3 DEF AcquireWait, OneCreator, Holders
<1>6. CASE connecting[state] # None
  <2>1. PICK d \in Dials : d = connecting[g]
    BY <1>6 DEF TypeOK, PoolTypes
  <2>2. UNCHANGED <<connecting, dialVars>> /\ cdial'[c] = d
    BY <1>6, <2>1, SMTT(30) DEF AcquireWait, TypeOK, CallerTypes
  <2>3. dgen[d] = g BY <2>1 DEF PoolInv, DialInv, DialOK
  <2>4. CallerInv' BY <1>3, <2>2, <2>3 DEF CallerInv, dialVars
  <2>5. PoolInv' BY <2>2, PoolKept DEF AcquireWait, dialVars
  <2> QED BY <2>4, <2>5, <1>2, <1>4, <1>5
<1>7. CASE connecting[state] = None
  <2>1. PICK d \in Dials :
            /\ dpc[d] = "unused" /\ cdial'[c] = d
            /\ connecting' = [connecting EXCEPT ![g] = d]
            /\ dpc' = [dpc EXCEPT ![d] = "dialing"] /\ dgen' = [dgen EXCEPT ![d] = g]
            /\ UNCHANGED <<poolVars, all, shared, claimed, users, derr, connVars, creators>>
    BY <1>7, Zenon DEF AcquireWait, TypeOK, CallerTypes
  <2> USE <1>7, <2>1 DEF TypeOK, PoolTypes, DialTypes
  <2>2. /\ dgen[d] = None /\ dgen'[d] = g /\ dpc'[d] = "dialing"
        /\ \A x \in Dials : x # d => dgen'[x] = dgen[x] /\ dpc'[x] = dpc[x]
        /\ connecting'[g] = d /\ \A h \in Gens : h # g => connecting'[h] = connecting[h]
    BY DEF PoolInv, DialInv, DialOK
  <2>3. CallerInv'
    <3>1. CallerInv BY Zenon
    <3> HIDE DEF TypeOK, PoolTypes, DialTypes, Inv
    <3> SUFFICES ASSUME NEW x \in Callers
                 PROVE  /\ pc'[x] = "wait" => cgen'[x] \in Gens /\ cdial'[x] \in Dials /\ dgen'[cdial'[x]] = cgen'[x]
                        /\ pc'[x] = "hold" => cconn'[x] \in Dials
      BY Zenon DEF CallerInv
    <3>2. CASE x = c BY <1>3, <2>2, <3>2, Zenon
    <3>3. CASE x # c
      <4>1. pc'[x] = pc[x] /\ cgen'[x] = cgen[x] /\ cconn'[x] = cconn[x] /\ cdial'[x] = cdial[x] BY <1>3, <3>3, Zenon
      <4>2. ASSUME pc[x] = "wait" PROVE cdial[x] \in Dials /\ dgen'[cdial[x]] = dgen[cdial[x]]
        <5>1. cdial[x] \in Dials /\ dgen[cdial[x]] \in Gens BY <3>1, <4>2, Zenon DEF CallerInv
        <5>2. cdial[x] # d BY <2>2, <5>1, ZenonT(30)
        <5> QED BY <2>2, <5>1, <5>2, Zenon
      <4> QED BY <3>1, <4>1, <4>2, Zenon DEF CallerInv
    <3> QED BY <3>2, <3>3, Zenon
  <2>4. StateInv' BY DEF PoolInv, StateInv
  <2>5. SingleTracked'
    <3>1. SingleTracked BY Zenon DEF PoolInv
    <3>2. UNCHANGED <<all, shared>> /\ shared[g] = None BY Zenon DEF AcquireWait
    <3> HIDE DEF TypeOK, PoolTypes, DialTypes, Inv
    <3> QED BY <2>2, <3>1, <3>2 DEF SingleTracked
  <2>6. NoLeak'
    <3>1. NoLeak /\ d \notin open BY DEF PoolInv, DialInv, DialOK
    <3>2. \A k \in open : k \in Dials OBVIOUS
    <3>3. UNCHANGED <<open, all, phase>> BY Zenon DEF poolVars, connVars
    <3> HIDE DEF TypeOK, PoolTypes, DialTypes
    <3> QED BY <3>1, <3>2, <3>3, <2>2, Zenon DEF NoLeak
  <2>7. ClaimInv' BY <2>2 DEF PoolInv, ClaimInv
  <2>8. phase[g] = "live" BY Zenon DEF PoolInv, StateInv
  <2>9. DialInv' BY <2>2, <2>8 DEF PoolInv, DialInv, DialOK
  <2> QED BY <1>2, <1>4, <1>5, <2>3, <2>4, <2>5, <2>6, <2>7, <2>9, Zenon DEF PoolInv
<1> QED BY <1>6, <1>7, Zenon

\* Every step of a caller of the pool preserves the invariant.
LEMMA CallerStepInv ==
  ASSUME Inv, TypeOK', NEW c \in Callers, CallerStep(c)
  PROVE  Inv'
<1>0. TypeOK /\ PoolInv /\ CallerInv /\ OneCreator /\ UsersExact /\ WaitersExact
  BY DEF Inv, CountsExact
<1>g. ~closed => state \in Gens
  BY <1>0 DEF TypeOK, PoolTypes, PoolInv, StateInv
<1>q. SUFFICES PoolInv' /\ CallerInv' /\ OneCreator' /\ UsersExact' /\ WaitersExact'
  BY DEF Inv, CountsExact
<1>t. \A k \in Dials : Tracked(k) => ~closed /\ state \in Gens
  BY <1>g DEF Tracked
<1>s. ~closed /\ shared[state] # None => shared[state] \in Dials /\ Tracked(shared[state])
  BY <1>0, <1>g DEF PoolInv, SingleTracked, TypeOK, PoolTypes, Tracked
<1> USE <1>0
\* Steps on which the caller leaves a label other than "wait" and "hold".
<1>a. ASSUME pc[c] \in {"idle", "acquire"}, Return(c) \/ Retry(c),
             UNCHANGED <<poolVars, stateVars, dialVars, connVars, creators>>
      PROVE  PoolInv' /\ CallerInv' /\ OneCreator' /\ UsersExact' /\ WaitersExact'
  <2>1. CallerInv' /\ OneCreator' BY <1>a, LeaveKeeps DEF dialVars
  <2>2. PoolInv' BY <1>a, PoolKept, Zenon DEF stateVars, dialVars
  <2>3. UsersExact' BY <1>a, KeepUsers, LeaveKeeps DEF poolVars, stateVars, dialVars
  <2>4. WaitersExact' BY <1>a, KeepWaiters, LeaveKeeps DEF stateVars, dialVars
  <2> QED BY <2>1, <2>2, <2>3, <2>4
\* Steps on which a waiting caller gives up or retries.
<1>b. ASSUME pc[c] = "wait", Return(c) \/ Retry(c), waiters' = [waiters EXCEPT ![cgen[c]] = @ - 1],
             UNCHANGED <<poolVars, all, shared, claimed, users, connecting, dialVars, connVars, creators>>
      PROVE  PoolInv' /\ CallerInv' /\ OneCreator' /\ UsersExact' /\ WaitersExact'
  <2>1. CallerInv' /\ OneCreator' BY <1>b, LeaveKeeps, Zenon DEF dialVars
  <2>2. PoolInv' BY <1>b, PoolKept, Zenon DEF dialVars
  <2>3. UsersExact' BY <1>b, KeepUsers, LeaveKeeps DEF poolVars, dialVars
  <2>4. WaitersExact' BY <1>b, LeaveWait, LeaveKeeps, Zenon DEF dialVars
  <2> QED BY <2>1, <2>2, <2>3, <2>4
<1>1. CASE Acquire(c) BY <1>1, <1>a DEF Acquire
<1>2. CASE AcquireClosed(c) BY <1>2, <1>a DEF AcquireClosed
<1>3. CASE AcquireShared(c)
  <2>1. PoolInv' /\ UsersExact' /\ OneCreator' /\ CallerInv'
    BY <1>3, HandOutKeeps DEF AcquireShared
  <2>2. WaitersExact'
    BY <1>3, KeepWaiters DEF AcquireShared, HandOut, Goto, TypeOK, CallerTypes
  <2> QED BY <2>1, <2>2
<1>4. CASE AcquireDead(c)
  <2>1. PoolInv' /\ UsersExact' BY <1>4, <1>s, RemoveKeeps DEF AcquireDead
  <2>2. CallerInv' /\ OneCreator' /\ WaitersExact' BY <1>4, StayKeeps DEF AcquireDead, dialVars
  <2> QED BY <2>1, <2>2
<1>5. CASE AcquireWait(c)
  BY <1>5, WaitKeeps
<1>6. CASE CancelCaller(c)
  <2>1. PoolInv' BY <1>6, PoolKept DEF CancelCaller, stateVars
  <2>2. UsersExact' BY <1>6, KeepUsers, Zenon DEF CancelCaller, poolVars, stateVars
  <2>3. WaitersExact' BY <1>6, KeepWaiters, Zenon DEF CancelCaller, stateVars
  <2>4. CallerInv' /\ OneCreator' BY <1>6 DEF CancelCaller, CallerInv, OneCreator, Holders
  <2> QED BY <2>1, <2>2, <2>3, <2>4
<1>7. CASE WaitCtxDone(c) BY <1>7, <1>b, Zenon DEF WaitCtxDone
<1>8. CASE WaitStateDone(c) BY <1>8, <1>b, Zenon DEF WaitStateDone
<1>9. CASE CollectShared(c)
  <2>1. CASE CollectError(c) BY <1>9, <2>1, <1>b, Zenon DEF CollectShared, CollectError
  <2>2. CASE CollectStale(c) BY <1>9, <2>2, <1>b, Zenon DEF CollectShared, CollectStale
  <2>3. CASE CollectGone(c) BY <1>9, <2>3, <1>b, Zenon DEF CollectShared, CollectGone
  <2>4. CASE CollectDead(c)
    <3>1. PoolInv' /\ UsersExact'
      BY <1>9, <2>4, <1>s, RemoveKeeps, Zenon DEF CollectShared, CollectDead
    <3>2. CallerInv' /\ OneCreator'
      BY <1>9, <2>4, LeaveKeeps, Zenon DEF CollectShared, CollectDead, dialVars
    <3>3. WaitersExact'
      BY <1>9, <2>4, LeaveKeeps, LeaveWait, Zenon DEF CollectShared, CollectDead, dialVars
    <3> QED BY <3>1, <3>2, <3>3, Zenon
  <2>5. CASE CollectConn(c)
    <3>1. PoolInv' /\ UsersExact' /\ OneCreator' /\ CallerInv'
      BY <1>9, <2>5, HandOutKeeps, Zenon DEF CollectShared, CollectConn
    <3>2. WaitersExact'
      BY <1>9, <2>5, LeaveWait, Zenon DEF CollectShared, CollectConn, HandOut, Goto, TypeOK, CallerTypes
    <3> QED BY <3>1, <3>2
  <2> QED BY <1>9, <2>1, <2>2, <2>3, <2>4, <2>5 DEF CollectShared
\* Steps on which a holder gives its connection back.
<1>c. ASSUME pc[c] = "hold", Return(c), UNCHANGED <<poolVars, waiters, connecting, dialVars, dead, creators>>
      PROVE  /\ CallerInv' /\ OneCreator' /\ WaitersExact'
             /\ cconn[c] \in Dials /\ dpc[cconn[c]] \in {"installed", "done"}
             /\ \A x \in Callers : x # c => pc'[x] = pc[x] /\ cconn'[x] = cconn[x]
             /\ pc'[c] # "hold"
  <2>1. CallerInv' /\ OneCreator' BY <1>c, LeaveKeeps, Zenon DEF dialVars
  <2>2. WaitersExact' BY <1>c, LeaveKeeps, KeepWaiters, Zenon DEF dialVars
  <2>3. cconn[c] \in Dials /\ dpc[cconn[c]] \in {"installed", "done"} BY <1>c, HeldInstalled, Zenon
  <2> QED BY <1>c, <2>1, <2>2, <2>3, LeaveKeeps, Zenon DEF dialVars
<1>10. CASE Release(c)
  <2>0. PICK reuse \in BOOLEAN, k \in Dials :
            /\ k = cconn[c] /\ dpc[k] \in {"installed", "done"}
            /\ ReleaseUntracked(k) \/ ReleaseUnusable(k, reuse) \/ ReleaseReusable(k, reuse)
    BY <1>10, <1>c, Zenon DEF Release
  <2>c. CallerInv' /\ OneCreator' /\ WaitersExact' BY <1>10, <1>c, Zenon DEF Release
  <2>1. CASE ReleaseUntracked(k)
    <3>1. PoolInv' BY <1>10, <2>0, <2>1, UntrackedKeeps, Zenon DEF Release, ReleaseUntracked
    <3>2. UsersExact' BY <1>10, <1>c, <2>0, <2>1, DropHold, Zenon DEF Release, ReleaseUntracked, poolVars
    <3> QED BY <3>1, <3>2, <2>c
  <2>2. CASE ReleaseUnusable(k, reuse)
    <3>1. PoolInv' /\ UsersExact' BY <1>10, <2>2, RemoveKeeps, Zenon DEF Release, ReleaseUnusable
    <3> QED BY <3>1, <2>c, ZenonT(30)
  <2>3. CASE ReleaseReusable(k, reuse)
    <3>0. Tracked(k) BY <2>3 DEF ReleaseReusable
    <3>1. shared[state] = k /\ ~closed /\ state \in Gens
      <4>1. ~closed /\ state \in Gens /\ k \in all[state] BY <3>0, <1>t DEF Tracked
      <4>2. all[state] = IF shared[state] = None THEN {} ELSE {shared[state]}
        BY <4>1 DEF PoolInv, SingleTracked
      <4> QED BY <4>1, <4>2
    <3>2. users' = [users EXCEPT ![state] = IF @ > 0 THEN @ - 1 ELSE @]
      BY <2>3, <3>1 DEF ReleaseReusable
    <3>3. UsersExact'
      BY <1>10, <1>c, <2>0, <2>3, <3>1, <3>2, LeaveHold, NoneAssumption, Zenon
      DEF Release, ReleaseReusable, poolVars, PoolInv
    <3>4. PoolInv'
      BY <1>10, <2>3, <3>1, <3>2, SharedReleased, NoneAssumption, Zenon DEF Release, ReleaseReusable
    <3> QED BY <3>3, <3>4, <2>c
  <2> QED BY <2>0, <2>1, <2>2, <2>3, Zenon
<1>11. CASE InvalidateHeld(c)
  <2>0. PICK k \in Dials : k = cconn[c] /\ dpc[k] \in {"installed", "done"} /\ Invalidate(k)
    BY <1>11, <1>c, ZenonT(30) DEF InvalidateHeld
  <2>c. CallerInv' /\ OneCreator' /\ WaitersExact' BY <1>11, <1>c DEF InvalidateHeld
  <2>1. CASE Tracked(k)
    <3>1. PoolInv' /\ UsersExact' BY <1>11, <2>0, <2>1, RemoveKeeps, Zenon DEF InvalidateHeld, Invalidate, Tracked
    <3> QED BY <3>1, <2>c, Zenon
  <2>2. CASE ~Tracked(k)
    <3>1. PoolInv' BY <1>11, <2>0, <2>2, UntrackedKeeps, Zenon DEF InvalidateHeld, Invalidate
    <3>2. UsersExact' BY <1>11, <1>c, <2>0, <2>2, DropHold, Zenon DEF InvalidateHeld, Invalidate, poolVars
    <3> QED BY <3>1, <3>2, <2>c
  <2> QED BY <2>1, <2>2
<1>12. CASE Forget(c)
  <2>c. CallerInv' /\ OneCreator' /\ WaitersExact' BY <1>12, <1>c, Zenon DEF Forget, stateVars, connVars
  <2>1. PoolInv' BY <1>12, PoolKept, Zenon DEF Forget, stateVars, dialVars
  <2>2. cconn[c] \in Dials /\ ~Tracked(cconn[c])
    <3>1. PICK k \in Dials : k = cconn[c] BY <1>12, Zenon DEF Forget, CallerInv
    <3>2. ~Tracked(k)
      BY <1>12, <3>1, <1>t DEF Forget, ConnCtxDone, Cancelled, Tracked, PoolInv, DialInv, DialOK, StateInv
    <3> QED BY <3>1, <3>2
  <2>3. UsersExact'
    BY <1>12, <2>2, DropHold, LeaveKeeps, Zenon DEF Forget, poolVars, stateVars, dialVars
  <2> QED BY <2>c, <2>1, <2>3
<1> QED BY <1>1, <1>2, <1>3, <1>4, <1>5, <1>6, <1>7, <1>8, <1>9, <1>10, <1>11, <1>12 DEF CallerStep

-----------------------------------------------------------------------------
(* The remaining steps, and the theorems                                   *)

\* A dial that returns preserves the pool invariant and the users.
LEMMA DialReturnInv ==
  ASSUME Inv, TypeOK', NEW d \in Dials, DialReturn(d)
  PROVE  PoolInv' /\ UsersExact'
<1> USE DEF Inv, PoolInv, poolVars, stateVars, callerVars
<1>1. PICK ok \in BOOLEAN, e \in BOOLEAN :
          /\ derr' = [derr EXCEPT ![d] = ~ok \/ e]
          /\ open' = IF ok /\ ~e THEN open \cup {d} ELSE open
          /\ dpc[d] = "dialing" /\ dpc' = [dpc EXCEPT ![d] = "dialed"]
          /\ UNCHANGED <<poolVars, stateVars, dgen, dead, removed, callerVars, creators>>
  BY Zenon DEF DialReturn
<1>2. /\ dpc'[d] = "dialed" /\ d \notin open
      /\ \A x \in Dials : x # d => derr'[x] = derr[x] /\ dpc'[x] = dpc[x] /\ (x \in open' <=> x \in open)
      /\ d \in open' <=> ~derr'[d]
  <2>1. d \notin open BY <1>1, Zenon DEF DialInv, DialOK
  <2>2. CASE ok /\ ~e BY <1>1, <2>1, <2>2, Zenon DEF TypeOK, DialTypes
  <2>3. CASE ~(ok /\ ~e) BY <1>1, <2>1, <2>3, Zenon DEF TypeOK, DialTypes
  <2> QED BY <2>2, <2>3, Zenon
<1>3. StateInv' /\ SingleTracked' BY <1>1 DEF StateInv, SingleTracked
<1>4. \A x \in open' : x \in Dials BY Zenon DEF TypeOK, DialTypes
<1>5. NoLeak' BY <1>1, <1>2, <1>4, Zenon DEF NoLeak
<1>6. ClaimInv' BY <1>1, <1>2, Zenon DEF ClaimInv
<1>7. DialInv'
  <2>1. \A x \in Dials : DialOK(x) BY Zenon DEF DialInv
  <2> HIDE DEF Inv, PoolInv
  <2> SUFFICES ASSUME NEW x \in Dials PROVE DialOK(x)' BY Zenon DEF DialInv
  <2>2. DialOK(x) BY <2>1
  <2>3. CASE x # d BY <1>1, <1>2, <2>2, <2>3, ZenonT(30) DEF DialOK
  <2>4. CASE x = d BY <1>1, <1>2, <2>2, <2>4 DEF DialOK
  <2> QED BY <2>3, <2>4
<1>8. UsersExact' BY <1>1, KeepUsers, Zenon DEF CountsExact
<1> QED BY <1>3, <1>5, <1>6, <1>7, <1>8

\* Installing a dialled connection preserves the pool invariant and the users.
LEMMA InstallInv ==
  ASSUME Inv, TypeOK', NEW d \in Dials, Install(d)
  PROVE  PoolInv' /\ UsersExact'
<1> USE NoneAssumption DEF Inv, PoolInv, poolVars, callerVars
<1>1. PICK g \in Gens : g = dgen[d]
  <2>1. DialOK(d) /\ dpc[d] = "dialed" BY Zenon DEF Install, DialInv
  <2>2. dgen[d] \in Gens \cup {None} BY ZenonT(30) DEF TypeOK, DialTypes
  <2> HIDE DEF Inv, PoolInv
  <2> QED BY <2>1, <2>2, Zenon DEF DialOK
<1>2. /\ dpc[d] = "dialed" /\ connecting[g] = d /\ shared[g] = None /\ all[g] = {}
      /\ dpc'[d] = "installed" /\ connecting'[g] = None
      /\ \A x \in Dials : x # d => dpc'[x] = dpc[x]
      /\ \A h \in Gens : h # g => connecting'[h] = connecting[h]
      /\ UNCHANGED <<poolVars, claimed, users, waiters, dgen, dcancel, dead, removed, callerVars, creators>>
  BY <1>1 DEF Install, InstallShared, TypeOK, PoolTypes, DialTypes, DialInv, DialOK, SingleTracked
<1>3. StateInv' BY <1>2, Zenon DEF StateInv
<1>4. creators[d] = 0 /\ ~claimed[g] /\ users[g] = 0 BY <1>2, Zenon DEF ClaimInv
<1>h. Holders(d) = {} /\ Holders(d)' = {}
  <2>1. Holders(d) # {} => creators[d] = 1 BY DEF OneCreator
  <2>2. Holders(d)' = Holders(d) BY <1>2, Zenon DEF Holders
  <2> HIDE DEF Inv, PoolInv
  <2> QED BY <1>4, <2>1, <2>2
<1>5. CASE d \notin open' /\ UNCHANGED <<all, shared>> /\ \A x \in Dials : x # d => (x \in open' <=> x \in open) /\ derr'[x] = derr[x]
  <2> USE <1>1, <1>2, <1>4, <1>5
  <2>1. SingleTracked' BY Zenon DEF SingleTracked
  <2>2. NoLeak' BY Zenon DEF NoLeak, TypeOK, DialTypes
  <2>3. ClaimInv' BY Zenon DEF ClaimInv
  <2>4. \A h \in Gens : d \notin all[h] BY Zenon DEF DialInv, DialOK
  <2>5. DialInv'
    <3> SUFFICES ASSUME NEW x \in Dials PROVE DialOK(x)'
      BY Zenon DEF DialInv
    <3>0. DialOK(d) /\ \A h \in Gens : connecting'[h] # d
      <4>1. DialOK(d) BY Zenon DEF DialInv
      <4> HIDE DEF Inv, PoolInv
      <4>2. \A h \in Gens : h # g => connecting[h] # d BY <4>1, Zenon DEF DialOK
      <4> QED BY <4>1, <4>2, Zenon
    <3>1. DialOK(d)'
      <4>1. dgen'[d] = g /\ g # None /\ phase'[g] # "new" /\ d \notin removed'
        BY <3>0, Zenon DEF DialOK
      <4>2. \A h \in Gens : d \in all'[h] => g = h /\ (phase'[h] = "live" => d \in open')
        BY <3>0, <2>4, Zenon DEF DialOK
      <4> QED BY <3>0, <4>1, <4>2, Zenon DEF DialOK
    <3>2. CASE x # d
      <4>1. /\ dpc'[x] = dpc[x] /\ dgen'[x] = dgen[x] /\ derr'[x] = derr[x]
            /\ x \in open' <=> x \in open
            /\ \A h \in Gens : connecting'[h] = x <=> connecting[h] = x
            /\ \A h \in Gens : x \in all'[h] <=> x \in all[h]
        BY <3>2, Zenon
      <4>2. DialOK(x) BY Zenon DEF DialInv
      <4>3. dpc[x] # "unused" => dgen[x] \in Gens BY <4>2 DEF DialOK, TypeOK, DialTypes
      <4> QED BY <4>1, <4>2, <4>3, Zenon DEF DialOK
    <3> QED BY <3>1, <3>2, Zenon
  <2>6. UsersExact' BY KeepUsers, Zenon DEF CountsExact
  <2> QED BY <1>3, <2>1, <2>2, <2>3, <2>5, <2>6, Zenon
<1>6. CASE /\ ~derr[d] /\ ~Superseded(d) /\ UNCHANGED <<derr, open>>
           /\ shared' = [shared EXCEPT ![g] = d] /\ all' = [all EXCEPT ![g] = @ \cup {d}]
  <2> USE <1>1, <1>2, <1>4, <1>6
  <2>0. /\ d \in open /\ phase[g] = "live" /\ g = state /\ ~closed
        /\ shared'[g] = d /\ all'[g] = {d}
        /\ \A h \in Gens : h # g => shared'[h] = shared[h] /\ all'[h] = all[h]
    <3>1. g = state /\ ~closed BY Zenon DEF Superseded
    <3>2. phase[g] = "live" BY <3>1, Zenon DEF StateInv
    <3>3. d \in open BY Zenon DEF DialInv, DialOK
    <3>4. shared \in [Gens -> Dials \cup {None}] /\ all \in [Gens -> SUBSET Dials] BY Zenon DEF TypeOK, PoolTypes
    <3> HIDE DEF Inv, PoolInv
    <3> QED BY <3>1, <3>2, <3>3, <3>4, Zenon
  <2>1. SingleTracked' BY <2>0, ZenonT(30) DEF SingleTracked
  <2>2. NoLeak' BY <2>0, Zenon DEF NoLeak, TypeOK, DialTypes
  <2>3. \A h \in Gens : h # g => shared[h] # d BY ZenonT(60) DEF SingleTracked, DialInv, DialOK
  <2>4. ClaimInv'
    <3>1. ClaimInv BY Zenon
    <3> HIDE DEF Inv, PoolInv
    <3>2. UNCHANGED <<claimed, users, creators>> /\ g \in Gens /\ d \in Dials BY Zenon
    <3>3. \A h \in Gens : shared'[h] = None => ~claimed'[h] /\ users'[h] = 0
      BY <2>0, <3>1, <3>2, Zenon DEF ClaimInv
    <3>4. ASSUME NEW k \in Dials, dpc'[k] \notin {"installed", "done"} PROVE creators'[k] = 0
      BY <3>1, <3>2, <3>4, Zenon DEF ClaimInv
    <3>5. ASSUME NEW k \in Dials, NEW h \in Gens, shared'[h] = k PROVE creators'[k] = IF claimed'[h] THEN 1 ELSE 0
      <4>1. CASE h = g BY <2>0, <3>2, <3>5, <4>1, Zenon
      <4>2. CASE h # g
        <5>1. shared[h] = k /\ claimed'[h] = claimed[h] /\ creators'[k] = creators[k] BY <2>0, <3>2, <3>5, <4>2, Zenon
        <5>2. creators[k] = IF claimed[h] THEN 1 ELSE 0 BY <3>1, <5>1, Zenon DEF ClaimInv
        <5> QED BY <5>1, <5>2, Zenon
      <4> QED BY <4>1, <4>2, Zenon
    <3> QED BY <3>3, <3>4, <3>5, Zenon DEF ClaimInv
  <2>5. DialInv'
    <3> SUFFICES ASSUME NEW x \in Dials PROVE DialOK(x)'
      BY Zenon DEF DialInv
    <3>0. DialOK(d) /\ \A h \in Gens : connecting'[h] # d
      <4>1. DialOK(d) BY Zenon DEF DialInv
      <4> HIDE DEF Inv, PoolInv
      <4>2. \A h \in Gens : h # g => connecting[h] # d BY <4>1, Zenon DEF DialOK
      <4> QED BY <4>1, <4>2, Zenon
    <3>1. DialOK(d)'
      <4>1. dgen'[d] = g /\ g # None /\ phase'[g] # "new" /\ d \notin removed'
        BY <3>0, Zenon DEF DialOK
      <4>2. \A h \in Gens : d \in all'[h] => g = h /\ (phase'[h] = "live" => d \in open')
        BY <3>0, <2>0, Zenon DEF DialOK
      <4> QED BY <3>0, <4>1, <4>2, Zenon DEF DialOK
    <3>2. CASE x # d
      <4>1. /\ dpc'[x] = dpc[x] /\ dgen'[x] = dgen[x] /\ derr'[x] = derr[x]
            /\ x \in open' <=> x \in open
            /\ \A h \in Gens : connecting'[h] = x <=> connecting[h] = x
            /\ \A h \in Gens : x \in all'[h] <=> x \in all[h]
        <5> HIDE DEF Inv, PoolInv
        <5>1. \A h \in Gens : connecting'[h] = x <=> connecting[h] = x BY <3>2, Zenon
        <5>2. ASSUME NEW h \in Gens PROVE x \in all'[h] <=> x \in all[h]
          <6>1. CASE h = g
            <7>1. all'[h] = {d} /\ all[h] = {} BY <2>0, <6>1, Zenon
            <7> QED BY <3>2, <7>1, Zenon
          <6>2. CASE h # g BY <2>0, <6>2, Zenon
          <6> QED BY <6>1, <6>2, Zenon
        <5> QED BY <3>2, <5>1, <5>2, Zenon
      <4>2. DialOK(x) BY Zenon DEF DialInv
      <4>3. dpc[x] # "unused" => dgen[x] \in Gens BY <4>2 DEF DialOK, TypeOK, DialTypes
      <4> QED BY <4>1, <4>2, <4>3, Zenon DEF DialOK
    <3> QED BY <3>1, <3>2, Zenon
  <2>6. Holders(d) = {} /\ Holders(d)' = {}
    BY <1>h, Zenon
  <2>7. Holders(shared[state])' = Holders(d)' /\ users'[state'] = 0
    <3>1. shared'[state'] = d /\ users'[state'] = 0 BY <2>0, Zenon
    <3> HIDE DEF Inv, PoolInv
    <3> QED BY <3>1, Zenon DEF Holders
  <2>8. UsersExact' BY <2>6, <2>7, FS_EmptySet, Zenon DEF UsersExact
  <2> QED BY <1>3, <2>1, <2>2, <2>4, <2>5, <2>8, Zenon
<1>7. derr[d] => d \notin open BY <1>2, Zenon DEF DialInv, DialOK
<1>8. CASE derr[d] BY <1>8, <1>7, <1>5, Zenon DEF Install, InstallShared
<1>9. CASE ~derr[d] /\ Superseded(d)
  <2>1. UNCHANGED <<all, shared>> /\ open' = open \ {d} /\ derr' = [derr EXCEPT ![d] = TRUE]
    BY <1>9, Zenon DEF Install, InstallShared
  <2> QED BY <2>1, <1>5, Zenon DEF TypeOK, DialTypes
<1>10. CASE ~derr[d] /\ ~Superseded(d) BY <1>10, <1>1, <1>6, Zenon DEF Install, InstallShared
<1> QED BY <1>8, <1>9, <1>10, Zenon

\* What moves the phases of states forward and closes only connections of
\* states that are not live keeps the invariant of the connects.
LEMMA PhaseKeeps ==
  ASSUME TypeOK, DialInv, UNCHANGED <<all, connecting, dialVars, removed>>,
         \A g \in Gens : phase[g] # "new" => phase'[g] # "new",
         \A g \in Gens : phase'[g] = "live" /\ phase[g] # "live" => all[g] = {},
         \A x \in Dials : x \in open' => x \in open,
         \A x \in Dials : x \in open /\ x \notin open' =>
             dpc[x] # "dialed" /\ \A g \in Gens : x \in all[g] => phase'[g] # "live"
  PROVE  DialInv'
<1> SUFFICES ASSUME NEW x \in Dials PROVE DialOK(x)'
  BY DEF DialInv
<1>1. DialOK(x) BY Zenon DEF DialInv
<1>2. dgen[x] # None => dgen[x] \in Gens BY DEF TypeOK, DialTypes
<1>3. /\ dpc'[x] = dpc[x] /\ dgen'[x] = dgen[x] /\ derr'[x] = derr[x]
      /\ all' = all /\ connecting' = connecting /\ removed' = removed
  BY Zenon DEF dialVars
<1>4. dgen'[x] # None => phase'[dgen'[x]] # "new" BY <1>1, <1>2, <1>3 DEF DialOK
<1>5. \A g \in Gens : x \in all'[g] /\ phase'[g] = "live" => x \in open'
  <2> SUFFICES ASSUME NEW g \in Gens, x \in all[g], phase'[g] = "live" PROVE x \in open'
    BY <1>3
  <2>1. phase[g] = "live" BY Zenon
  <2>2. x \in open BY <1>1, <2>1 DEF DialOK
  <2> QED BY <2>2
<1>6. dpc'[x] = "dialed" => (x \in open' <=> ~derr'[x]) BY <1>1, <1>3, Zenon DEF DialOK
<1>7. x \in open' => dpc'[x] \in {"dialed", "installed", "done"} BY <1>1, <1>3, Zenon DEF DialOK
<1>8. /\ dpc'[x] = "unused" <=> dgen'[x] = None
      /\ dpc'[x] \in {"dialing", "dialed"} => connecting'[dgen'[x]] = x
      /\ x \in removed' => dpc'[x] \in {"installed", "done"} /\ \A g \in Gens : x \notin all'[g]
      /\ \A g \in Gens : connecting'[g] = x => dgen'[x] = g /\ dpc'[x] \in {"dialing", "dialed"}
      /\ \A g \in Gens : x \in all'[g] => dgen'[x] = g /\ dpc'[x] \in {"installed", "done"}
  BY <1>1, <1>3, Zenon DEF DialOK
<1> QED BY <1>4, <1>5, <1>6, <1>7, <1>8, Zenon DEF DialOK

\* The steps that move p.state or the phase of a state, and close what a
\* retired state tracks.
LEMMA SwapInv ==
  ASSUME Inv, TypeOK', Reset \/ Close \/ \E g \in Gens : CancelState(g) \/ SweepState(g)
  PROVE  PoolInv' /\ UsersExact'
<1> USE NoneAssumption DEF Inv, PoolInv, TypeOK, PoolTypes, stateVars, dialVars, connVars, callerVars
<1>0. UNCHANGED <<stateVars, dpc, creators>> BY DEF Reset, Close, CancelState, SweepState
<1>1. SingleTracked' /\ ClaimInv'
  <2> HIDE DEF TypeOK, PoolTypes
  <2>1. SingleTracked' BY <1>0, Zenon DEF SingleTracked
  <2>2. ClaimInv' BY <1>0, Zenon DEF ClaimInv
  <2> QED BY <2>1, <2>2
<1>2. CASE Reset
  <2>1. PICK g \in Gens : phase[g] = "new" /\ state' = g
                          /\ phase' = [phase EXCEPT ![state] = "swapped", ![g] = "live"]
    BY <1>2, Zenon DEF Reset
  <2>2. ~closed /\ ~closed' /\ state \in Gens /\ state # g BY <1>2, <2>1, Zenon DEF Reset, StateInv
  <2>3. phase'[g] = "live" /\ phase'[state] = "swapped" /\ phase[state] = "live"
        /\ \A h \in Gens : h # g /\ h # state => phase'[h] = phase[h]
    BY <2>1, <2>2, Zenon DEF StateInv
  <2>4. StateInv' BY <2>1, <2>2, <2>3, ZenonT(30) DEF StateInv
  <2>5. \A x \in Dials : dgen[x] # g
    <3>1. \A x \in Dials : DialOK(x) BY Zenon DEF DialInv
    <3> HIDE DEF Inv, PoolInv
    <3> SUFFICES ASSUME NEW x \in Dials, dgen[x] = g PROVE FALSE BY Zenon
    <3>2. dgen[x] # None BY NoneAssumption
    <3>3. phase[dgen[x]] # "new" BY <3>1, <3>2, Zenon DEF DialOK
    <3> QED BY <2>1, <3>3, Zenon
  <2>6. all[g] = {} /\ shared[g] = None
    <3>1. \A x \in Dials : x \notin all[g] BY <2>5, ZenonT(30) DEF DialInv, DialOK
    <3>2. all[g] = {} BY <3>1
    <3> QED BY <3>2, Zenon DEF SingleTracked
  <2>7. NoLeak' BY <1>2, <2>1, <2>3, <2>6, Zenon DEF NoLeak, Reset
  <2>8. DialInv'
    <3>1. UNCHANGED <<all, connecting, dialVars, removed, open>> BY <1>2, Zenon DEF Reset
    <3>2. /\ \A h \in Gens : phase[h] # "new" => phase'[h] # "new"
          /\ \A h \in Gens : phase'[h] = "live" /\ phase[h] # "live" => all[h] = {}
      BY <2>2, <2>3, <2>6
    <3> QED BY <3>1, <3>2, PhaseKeeps, Zenon
  <2>9. UsersExact' BY <1>2, <2>1, <2>6, Zenon DEF UsersExact, Reset
  <2> QED BY <1>1, <2>4, <2>7, <2>8, <2>9
<1>3. CASE Close
  <2>1. state \in Gens /\ phase'[state] = "swapped" /\ phase[state] = "live"
        /\ \A h \in Gens : h # state => phase'[h] = phase[h]
    BY <1>3, Zenon DEF Close, StateInv
  <2>2. StateInv' BY <1>3, <2>1, Zenon DEF StateInv, Close
  <2>3. NoLeak' BY <1>3, <2>1, Zenon DEF NoLeak, Close
  <2>4. DialInv'
    <3>1. UNCHANGED <<all, connecting, dialVars, removed, open>> BY <1>3 DEF Close
    <3>2. \A h \in Gens : /\ phase[h] # "new" => phase'[h] # "new"
                          /\ phase'[h] = "live" => phase[h] = "live"
      BY <2>1
    <3> QED BY <3>1, <3>2, PhaseKeeps, Zenon
  <2>5. UsersExact' BY <1>3, Zenon DEF UsersExact, Close
  <2> QED BY <1>1, <2>2, <2>3, <2>4, <2>5
<1>4. ASSUME NEW g \in Gens, CancelState(g) \/ SweepState(g)
      PROVE  PoolInv' /\ UsersExact'
  <2>1. phase[g] \notin {"live", "new"} /\ phase'[g] \notin {"live", "new"} /\ phase'[g] \in Phases
        /\ \A h \in Gens : h # g => phase'[h] = phase[h]
    <3>1. phase \in [Gens -> Phases] BY Zenon
    <3>2. \/ phase[g] = "swapped" /\ phase' = [phase EXCEPT ![g] = "cancelled"]
          \/ phase[g] = "cancelled" /\ phase' = [phase EXCEPT ![g] = "swept"]
      BY <1>4, Zenon DEF CancelState, SweepState
    <3> HIDE DEF Inv, PoolInv, TypeOK, PoolTypes
    <3> QED BY <3>1, <3>2 DEF Phases
  <2>2. StateInv' BY <1>4, <2>1, Zenon DEF StateInv, CancelState, SweepState
  <2>3. UsersExact'
    BY <1>4, KeepUsers, Zenon DEF CancelState, SweepState, CountsExact
  <2>4. CASE CancelState(g)
    <3>1. NoLeak' BY <2>4, <2>1, Zenon DEF NoLeak, CancelState
    <3>2. UNCHANGED <<all, connecting, dialVars, removed, open>> BY <2>4, Zenon DEF CancelState
    <3>3. \A h \in Gens : /\ phase[h] # "new" => phase'[h] # "new"
                          /\ phase'[h] = "live" => phase[h] = "live"
      BY <2>1
    <3>4. DialInv' BY <3>2, <3>3, PhaseKeeps, Zenon
    <3> QED BY <1>1, <2>2, <2>3, <3>1, <3>4
  <2>5. CASE SweepState(g)
    <3>1. NoLeak' BY <2>5, <2>1, Zenon DEF NoLeak, SweepState
    <3>2. \A x \in Dials : x \in all[g] => dgen[x] = g /\ dpc[x] \in {"installed", "done"}
      BY Zenon DEF DialInv, DialOK
    <3>3. UNCHANGED <<all, connecting, dialVars, removed>> /\ open' = open \ all[g]
      BY <2>5, Zenon DEF SweepState
    <3>4. \A h \in Gens : /\ phase[h] # "new" => phase'[h] # "new"
                          /\ phase'[h] = "live" => phase[h] = "live"
      BY <2>1
    <3>5. \A x \in Dials : x \in open' => x \in open BY <3>3
    <3>6. ASSUME NEW x \in Dials, x \in open, x \notin open'
          PROVE  dpc[x] # "dialed" /\ \A h \in Gens : x \in all[h] => phase'[h] # "live"
      <4>1. x \in all[g] /\ dgen[x] = g /\ dpc[x] \in {"installed", "done"} BY <3>2, <3>3, <3>6, Zenon
      <4>2. \A h \in Gens : x \in all[h] => h = g BY <4>1, Zenon DEF DialInv, DialOK
      <4> QED BY <4>1, <4>2, <2>1, Zenon
    <3>7. DialInv' BY <3>3, <3>4, <3>5, <3>6, PhaseKeeps, Zenon
    <3> QED BY <1>1, <2>2, <2>3, <3>1, <3>7
  <2> QED BY <1>4, <2>4, <2>5
<1> QED BY <1>2, <1>3, <1>4, Zenon

\* Every step preserves the invariant.
LEMMA InvStep == Inv /\ [Next]_vars => Inv'
<1> SUFFICES ASSUME Inv, [Next]_vars PROVE Inv'
  OBVIOUS
<1>0. TypeOK' BY TypeStep
<1>q. ASSUME PoolInv', UsersExact', UNCHANGED <<callerVars, creators, waiters, dgen>>
      PROVE  Inv'
  BY <1>0, <1>q, StayKeeps DEF Inv, CountsExact
<1>1. ASSUME NEW c \in Callers, CallerStep(c) PROVE Inv'
  BY <1>0, <1>1, CallerStepInv, Zenon
<1>2. ASSUME NEW d \in Dials, DialReturn(d) PROVE Inv'
  BY <1>0, <1>2, <1>q, DialReturnInv, Zenon DEF DialReturn, stateVars
<1>3. ASSUME NEW d \in Dials, Install(d) PROVE Inv'
  BY <1>0, <1>3, <1>q, InstallInv, Zenon DEF Install, InstallShared
<1>4. ASSUME NEW d \in Dials, CloseDone(d) PROVE Inv'
  <2> USE <1>4 DEF CloseDone, Inv, PoolInv, poolVars, stateVars, connVars, TypeOK, DialTypes
  <2>1. StateInv' /\ SingleTracked' BY Zenon DEF StateInv, SingleTracked
  <2>2. NoLeak' /\ ClaimInv' BY Zenon DEF NoLeak, ClaimInv
  <2>3. DialInv'
    <3> SUFFICES ASSUME NEW x \in Dials PROVE DialOK(x)'
      BY DEF DialInv
    <3>1. DialOK(x) BY DEF DialInv
    <3>2. /\ (dpc[x] = "installed" /\ dpc'[x] = "done") \/ dpc'[x] = dpc[x]
          /\ UNCHANGED <<dgen, derr, all, connecting, phase, open, removed>>
      OBVIOUS
    <3> HIDE DEF CloseDone, Inv, PoolInv, TypeOK, DialTypes
    <3> QED BY <3>1, <3>2, Zenon DEF DialOK
  <2>4. UsersExact' BY KeepUsers, Zenon DEF CountsExact, callerVars
  <2>5. UNCHANGED <<callerVars, creators, waiters, dgen>> OBVIOUS
  <2>6. PoolInv' BY <2>1, <2>2, <2>3
  <2> HIDE DEF Inv, PoolInv
  <2> QED BY <2>4, <2>5, <2>6, <1>q
<1>5. ASSUME NEW d \in Dials, InvalidateByReader(d) PROVE Inv'
  <2>1. dpc[d] \in {"installed", "done"}
    <3>1. creators[d] > 0 BY <1>5 DEF InvalidateByReader
    <3>2. dpc[d] \notin {"installed", "done"} => creators[d] = 0 BY DEF Inv, PoolInv, ClaimInv
    <3> QED BY <3>1, <3>2
  <2>2. UNCHANGED <<callerVars, creators, waiters, dgen>> BY <1>5 DEF InvalidateByReader, dialVars
  <2>3. CASE Tracked(d)
    <3>1. PoolInv' /\ UsersExact'
      BY <1>5, <2>3, RemoveKeeps, Zenon DEF InvalidateByReader, Invalidate, Tracked
    <3> QED BY <3>1, <2>2, <1>q
  <2>4. CASE ~Tracked(d)
    <3>1. PoolInv' BY <1>5, <2>1, <2>4, UntrackedKeeps, Zenon DEF InvalidateByReader, Invalidate
    <3>2. UsersExact'
      BY <1>5, <2>4, KeepUsers, Zenon DEF InvalidateByReader, Invalidate, poolVars, callerVars, Inv, CountsExact
    <3> QED BY <3>1, <3>2, <2>2, <1>q, Zenon
  <2> QED BY <2>3, <2>4
<1>6. ASSUME NEW d \in Dials, Die(d) PROVE Inv'
  <2> USE <1>6 DEF Die, Inv, PoolInv, poolVars, stateVars, dialVars
  <2>1. StateInv' /\ SingleTracked' BY Zenon DEF StateInv, SingleTracked
  <2>2. NoLeak' /\ ClaimInv' BY Zenon DEF NoLeak, ClaimInv
  <2>3. DialInv' BY ZenonT(30) DEF DialInv, DialOK
  <2>4. UsersExact' BY KeepUsers, Zenon DEF CountsExact, callerVars
  <2>5. UNCHANGED <<callerVars, creators, waiters, dgen>> OBVIOUS
  <2>6. PoolInv' BY <2>1, <2>2, <2>3
  <2> HIDE DEF Inv, PoolInv
  <2> QED BY <2>4, <2>5, <2>6, <1>q, Zenon
<1>7. CASE CloseIdle
  <2>1. shared[state] \in Dials /\ Tracked(shared[state])
    BY <1>7 DEF CloseIdle, Inv, PoolInv, SingleTracked, StateInv, TypeOK, PoolTypes, Tracked
  <2>2. PoolInv' /\ UsersExact' BY <1>7, <2>1, RemoveKeeps, Zenon DEF CloseIdle
  <2> QED BY <1>7, <2>2, <1>q, Zenon DEF CloseIdle, dialVars
<1>8. CASE Reset \/ Close \/ \E g \in Gens : CancelState(g) \/ SweepState(g)
  <2>1. PoolInv' /\ UsersExact' BY <1>0, <1>8, SwapInv
  <2>2. UNCHANGED <<callerVars, creators, waiters, dgen>>
    BY <1>8, Zenon DEF Reset, Close, CancelState, SweepState, stateVars, dialVars
  <2> QED BY <2>1, <2>2, <1>q
<1>9. CASE UNCHANGED vars
  <2>1. PoolInv' BY <1>9, PoolKept, Zenon DEF vars, stateVars, dialVars, Inv
  <2>2. UsersExact' BY <1>9, KeepUsers DEF vars, poolVars, stateVars, callerVars, Inv, CountsExact
  <2> QED BY <1>9, <2>1, <2>2, <1>q DEF vars, stateVars, dialVars
<1> QED BY <1>1, <1>2, <1>3, <1>4, <1>5, <1>6, <1>7, <1>8, <1>9 DEF Next, DialStep

-----------------------------------------------------------------------------
(* The theorems                                                            *)

\* The inductive invariant holds in every reachable state of the pool.
THEOREM Invariance == Spec => []Inv
  BY InvInit, InvStep, PTL DEF Spec

\* Every variable of conn_pool.go keeps its type: in particular sharedUsers
\* never goes negative and p.state is a state or nil.
THEOREM TypeCorrect == Spec => []TypeOK
<1>1. Inv => TypeOK BY DEF Inv
<1> QED BY <1>1, Invariance, PTL

\* An open connection is tracked by a state that will close it, or still in
\* the hands of connectSingle, whatever Reset, Close and Release interleave.
THEOREM PoolNeverLeaks == Spec => []NoLeak
<1>1. Inv => NoLeak BY DEF Inv, PoolInv
<1> QED BY <1>1, Invariance, PTL

\* A state tracks at most its one shared connection, and none while it
\* connects.
THEOREM PoolIsSingle == Spec => []SingleTracked
<1>1. Inv => SingleTracked BY DEF Inv, PoolInv
<1> QED BY <1>1, Invariance, PTL

\* Of the callers that are given one connection, exactly one is told that it
\* was created, so exactly one starts the read loop.
THEOREM CreatorIsUnique == Spec => []OneCreator
<1>1. Inv => OneCreator BY DEF Inv
<1> QED BY <1>1, Invariance, PTL

\* sharedUsers and sharedWaiters equal the numbers of callers they count.
THEOREM CountersAreExact == Spec => []CountsExact
<1>1. Inv => CountsExact BY DEF Inv
<1> QED BY <1>1, Invariance, PTL

\* A caller only gets a connection as the shared one of the current state.
LEMMA CallerElsewhere ==
  ASSUME Inv, NEW c \in Callers, NEW x \in Callers, CallerStep(x),
         pc[c] # "hold", pc'[c] = "hold"
  PROVE  ~closed /\ shared[state] # None /\ cconn'[c] = shared[state]
<1> USE DEF Inv, TypeOK, CallerTypes, Return, Retry, Goto
<1>1. CASE AcquireShared(x) BY <1>1 DEF AcquireShared, HandOut
<1>2. CASE CollectShared(x)
  BY <1>2, Zenon DEF CollectShared, CollectError, CollectStale, CollectGone, CollectDead, CollectConn, HandOut
<1>3. CASE Acquire(x) \/ AcquireClosed(x) \/ AcquireDead(x) \/ AcquireWait(x) \/ CancelCaller(x)
  BY <1>3, Zenon DEF Acquire, AcquireClosed, AcquireDead, AcquireWait, CancelCaller, callerVars
<1>4. CASE WaitCtxDone(x) \/ WaitStateDone(x) BY <1>4, Zenon DEF WaitCtxDone, WaitStateDone
<1>5. CASE Release(x) \/ InvalidateHeld(x) \/ Forget(x) BY <1>5, Zenon DEF Release, InvalidateHeld, Forget
<1> QED BY <1>1, <1>2, <1>3, <1>4, <1>5, Zenon DEF CallerStep

\* acquireShared and collectShared only hand out an open connection that was
\* dialled for the state that is current when they return it.
THEOREM HandoutIsFresh == Spec => FreshHandout
<1>1. ASSUME Inv, [Next]_vars, NEW c \in Callers, pc[c] # "hold", pc'[c] = "hold"
      PROVE  ~closed /\ dgen[cconn'[c]] = state /\ cconn'[c] \in open
  <2>1. \E x \in Callers : CallerStep(x)
    BY <1>1, Zenon DEF Next, DialStep, DialReturn, Install, CloseDone, InvalidateByReader, Die, CloseIdle,
                Reset, Close, CancelState, SweepState, callerVars, vars
  <2>2. ~closed /\ shared[state] # None /\ cconn'[c] = shared[state]
    BY <1>1, <2>1, CallerElsewhere
  <2>3. PICK g \in Gens, k \in Dials : g = state /\ k = shared[g]
    BY <1>1, <2>2, Zenon DEF Inv, PoolInv, StateInv, TypeOK, PoolTypes
  <2>4. k \in all[g] /\ phase[g] = "live"
    BY <1>1, <2>2, <2>3, Zenon DEF Inv, PoolInv, StateInv, SingleTracked
  <2>5. dgen[k] = g /\ k \in open
    BY <1>1, <2>4, Zenon DEF Inv, PoolInv, DialInv, DialOK
  <2> QED BY <2>2, <2>3, <2>5
<1>2. Inv /\ [Next]_vars => [\A c \in Callers :
          pc[c] # "hold" /\ pc'[c] = "hold" =>
              ~closed /\ dgen[cconn'[c]] = state /\ cconn'[c] \in open]_vars
  BY <1>1
<1> QED BY <1>2, Invariance, PTL DEF Spec, FreshHandout

\* CloseIdle closes just the shared connection, and only when no caller holds
\* it or waits for it.
THEOREM CloseIdleIsSafe == Spec => CloseIdleSparesUsers
<1>1. ASSUME Inv, CloseIdle
      PROVE  open \ open' = {shared[state]} /\ Holders(shared[state]) = {} /\ WaitersOf(state) = {}
  <2>1. PICK g \in Gens, k \in Dials : g = state /\ k = shared[g]
    BY <1>1 DEF CloseIdle, Inv, PoolInv, StateInv, TypeOK, PoolTypes
  <2>2. k \in all[g] /\ phase[g] = "live" /\ ~closed /\ shared[state] # None
    BY <1>1, <2>1, Zenon DEF CloseIdle, Inv, PoolInv, StateInv, SingleTracked
  <2>3. k \in open
    BY <1>1, <2>2, Zenon DEF Inv, PoolInv, DialInv, DialOK
  <2>4. open' = open \ {k}
    BY <1>1, <2>1 DEF CloseIdle, RemoveConn
  <2>5. users[g] = 0 /\ Cardinality(Holders(k)) = 0
    BY <1>1, <2>1, <2>2 DEF CloseIdle, Inv, CountsExact, UsersExact, TypeOK, PoolTypes
  <2>6. Cardinality(WaitersOf(g)) \in Nat
    BY CallersFinite, FS_CardinalityType
  <2>7. Cardinality(WaitersOf(g)) = 0
    <3>1. ~(waiters[g] > 0) BY <1>1, <2>1 DEF CloseIdle
    <3>2. waiters[g] = Cardinality(WaitersOf(g)) BY <1>1 DEF Inv, CountsExact, WaitersExact
    <3> QED BY <2>6, <3>1, <3>2
  <2>8. Holders(k) = {} /\ WaitersOf(g) = {}
    BY <2>5, <2>7, CallersFinite, FS_EmptySet
  <2> QED BY <2>1, <2>3, <2>4, <2>8
<1>2. Inv /\ [Next]_vars => [CloseIdle => open \ open' = {shared[state]}
                    /\ Holders(shared[state]) = {} /\ WaitersOf(state) = {}]_vars
  BY <1>1
<1> QED BY <1>2, Invariance, PTL DEF Spec, CloseIdleSparesUsers

-----------------------------------------------------------------------------
(* Refinement                                                              *)

\* A tracked connection comes from a connect that has not failed.
Sound == \A g \in Gens : \A k \in all[g] : ~derr[k]

\* The facts about the current connection that the steps rest on.
LEMMA CurrentFacts ==
  ASSUME Inv, Sound, ~closed
  PROVE  /\ state \in Gens /\ Current = shared[state]
         /\ Current \in Dials \cup {None}
         /\ Current # None => Current \in Installed /\ all[state] = {Current}
         /\ Current = None => all[state] = {} /\ ~claimed[state] /\ users[state] = 0
<1>1. state \in Gens BY DEF Inv, TypeOK, PoolTypes, PoolInv, StateInv
<1>2. Current = shared[state] BY DEF Current
<1>3. shared[state] \in Dials \cup {None} BY <1>1 DEF Inv, TypeOK, PoolTypes
<1>4. all[state] = IF shared[state] = None THEN {} ELSE {shared[state]}
  BY <1>1, Zenon DEF Inv, PoolInv, SingleTracked
<1>5. ASSUME shared[state] # None PROVE shared[state] \in Installed
  <2>1. shared[state] \in all[state] /\ shared[state] \in Dials BY <1>3, <1>4, <1>5, Zenon
  <2>2. dpc[shared[state]] \in {"installed", "done"} BY <1>1, <2>1, Zenon DEF Inv, PoolInv, DialInv, DialOK
  <2> QED BY <1>1, <2>1, <2>2, Zenon DEF Sound, Installed
<1>6. shared[state] = None => ~claimed[state] /\ users[state] = 0
  BY <1>1 DEF Inv, PoolInv, ClaimInv
<1> QED BY <1>1, <1>2, <1>3, <1>4, <1>5, <1>6

\* Soundness of tracked connections is kept.
LEMMA SoundStep == ASSUME Inv, Sound, [Next]_vars PROVE Sound'
<1>0. /\ \A g \in Gens : all[g] \subseteq Dials
      /\ \A g \in Gens : \A k \in all[g] : dpc[k] \notin {"dialing", "dialed"}
  BY DEF Inv, TypeOK, PoolTypes, PoolInv, DialInv, DialOK
<1>1. ASSUME derr' = derr, \A g \in Gens : all'[g] \subseteq all[g] PROVE Sound'
  BY <1>1 DEF Sound
<1>2. ASSUME NEW k, all' = [all EXCEPT ![state] = @ \ {k}], derr' = derr PROVE Sound'
  <2>1. \A g \in Gens : all'[g] \subseteq all[g] BY <1>2 DEF Inv, TypeOK, PoolTypes
  <2> QED BY <1>1, <1>2, <2>1
<1>3. ASSUME UNCHANGED <<all, derr>> PROVE Sound' BY <1>3, Zenon DEF Sound
<1>4. ASSUME NEW d \in Dials, DialReturn(d) PROVE Sound'
  <2>1. all' = all /\ dpc[d] = "dialing" BY <1>4 DEF DialReturn, stateVars
  <2>2. \A x \in Dials \ {d} : derr'[x] = derr[x] BY <1>4 DEF DialReturn, Inv, TypeOK, DialTypes
  <2> QED BY <1>0, <2>1, <2>2 DEF Sound
<1>5. ASSUME NEW d \in Dials, Install(d) PROVE Sound'
  <2>1. dpc[d] = "dialed" BY <1>5 DEF Install, InstallShared
  <2>2. CASE UNCHANGED <<all, derr>> BY <1>3, <2>2, Zenon
  <2>3. CASE all' = all /\ derr' = [derr EXCEPT ![d] = TRUE]
    BY <1>0, <2>1, <2>3 DEF Sound, Inv, TypeOK, DialTypes
  <2>4. CASE ~derr[d] /\ derr' = derr /\ all' = [all EXCEPT ![dgen[d]] = @ \cup {d}]
    <3>1. \A g \in Gens : all'[g] \subseteq all[g] \cup {d} BY <2>4 DEF Inv, TypeOK, PoolTypes
    <3> QED BY <2>4, <3>1, Zenon DEF Sound
  <2> QED BY <1>5, <2>2, <2>3, <2>4, Zenon DEF Install, InstallShared
<1>6. ASSUME NEW c \in Callers, CallerStep(c) PROVE Sound'
  <2>1. derr' = derr /\ (all' = all \/ \E k : all' = [all EXCEPT ![state] = @ \ {k}])
    BY <1>6, Zenon DEF CallerStep, Acquire, AcquireClosed, AcquireShared, AcquireDead, AcquireWait, CancelCaller,
                WaitCtxDone, WaitStateDone, CollectShared, CollectError, CollectStale, CollectGone, CollectDead,
                CollectConn, Release, ReleaseUntracked, ReleaseUnusable, ReleaseReusable, InvalidateHeld,
                Invalidate, Forget, RemoveConn, stateVars, dialVars
  <2> QED BY <2>1, <1>2, <1>3, Zenon
<1>7. ASSUME NEW d \in Dials, CloseDone(d) \/ InvalidateByReader(d) \/ Die(d) PROVE Sound'
  <2>1. derr' = derr /\ (all' = all \/ \E k : all' = [all EXCEPT ![state] = @ \ {k}])
    BY <1>7, Zenon DEF CloseDone, InvalidateByReader, Invalidate, Die, RemoveConn, stateVars, dialVars
  <2> QED BY <2>1, <1>2, <1>3, Zenon
<1>8. CASE CloseIdle BY <1>8, <1>2, Zenon DEF CloseIdle, RemoveConn, dialVars
<1>9. ASSUME Reset \/ Close \/ (\E g \in Gens : CancelState(g) \/ SweepState(g)) \/ UNCHANGED vars PROVE Sound'
  <2>1. UNCHANGED <<all, derr>> BY <1>9, Zenon DEF Reset, Close, CancelState, SweepState, vars, stateVars, dialVars
  <2> QED BY <2>1, <1>3
<1> QED BY <1>4, <1>5, <1>6, <1>7, <1>8, <1>9, Zenon DEF Next, DialStep

-----------------------------------------------------------------------------
(* What each kind of step is in AbstractConnPool                           *)

\* Nothing happens to installed connections.
LEMMA StutterMaps ==
  ASSUME UNCHANGED <<closed, state, shared, claimed, users>>,
         Installed' = Installed, open' \cap Installed = open \cap Installed
  PROVE  UNCHANGED Abs!poolVars
<1>1. Current' = Current BY DEF Current
<1> HIDE DEF Current, Installed
<1>2. (Installed \ {Current})' = Installed \ {Current} BY <1>1
<1>3. (open \cap Installed)' = open \cap Installed OBVIOUS
<1> QED BY <1>1, <1>2, <1>3, Zenon DEF Abs!poolVars

\* removeConn drops the current connection.
LEMMA RemoveMaps ==
  ASSUME Inv, Sound, NEW k, Tracked(k), RemoveConn(state, k), UNCHANGED <<closed, state, dpc, derr>>
  PROVE  Abs!Drop
<1>1. /\ ~closed /\ state \in Gens /\ k = Current /\ k = shared[state] /\ k # None /\ k \in Installed
  BY CurrentFacts, Zenon DEF Tracked
<1>2. /\ shared \in [Gens -> Dials \cup {None}] /\ claimed \in [Gens -> BOOLEAN] /\ users \in [Gens -> Nat]
  BY Zenon DEF Inv, TypeOK, PoolTypes
<1>3. shared'[state] = None /\ claimed'[state] = FALSE /\ users'[state] = 0 /\ open' = open \ {k}
  BY <1>1, <1>2, Zenon DEF RemoveConn
<1>4. Current' = None BY <1>1, <1>3, Zenon DEF Current
<1>5. Installed' = Installed BY DEF Installed
<1>6. None \notin Installed BY NoneAssumption, Zenon DEF Installed
<1> HIDE DEF Current, Installed
<1>7. (Installed \ {Current})' = (Installed \ {Current}) \cup {Current} BY <1>1, <1>4, <1>5, <1>6, Zenon
<1>8. (open \cap Installed)' = (open \cap Installed) \ {Current} BY <1>1, <1>3, <1>5, Zenon
<1>9. (~closed /\ claimed[state])' = FALSE /\ (IF closed THEN 0 ELSE users[state])' = 0 BY <1>1, <1>3
<1> QED BY <1>1, <1>4, <1>7, <1>8, <1>9, Zenon DEF Abs!Drop, Abs!Vacate

\* The shared connection is handed out.
LEMMA HandOutMaps ==
  ASSUME Inv, Sound, NEW c, ~closed, shared[state] # None, HandOut(c, state),
         UNCHANGED <<closed, state, shared, open, dpc, derr>>
  PROVE  \E created \in BOOLEAN : Abs!HandOut(created)
<1>1. state \in Gens /\ Current = shared[state] BY CurrentFacts
<1>2. claimed \in [Gens -> BOOLEAN] /\ users \in [Gens -> Nat] BY DEF Inv, TypeOK, PoolTypes
<1>3. claimed'[state] = TRUE /\ users'[state] = users[state] + 1 BY <1>1, <1>2 DEF HandOut
<1>4. Current' = Current /\ Installed' = Installed BY Zenon DEF Current, Installed
<1> HIDE DEF Current, Installed
<1>5. (Installed \ {Current})' = Installed \ {Current} /\ (open \cap Installed)' = open \cap Installed
  BY <1>4
<1>6. (~closed /\ claimed[state])' = TRUE BY <1>3
<1>7. (IF closed THEN 0 ELSE users[state])' = (IF closed THEN 0 ELSE users[state]) + 1 BY <1>3, Zenon
<1>8. Abs!HandOut(~(~closed /\ claimed[state]))
  BY <1>1, <1>4, <1>5, <1>6, <1>7 DEF Abs!HandOut
<1> QED BY <1>8, Zenon

\* A connection that is not current is closed by a user that is done with it.
LEMMA CloseMaps ==
  ASSUME Inv, Sound, NEW k \in Dials, ~Tracked(k), open' = open \ {k},
         UNCHANGED <<closed, state, shared, claimed, users, dpc, derr>>
  PROVE  Abs!GiveBack(k) /\ (closed => Abs!Discard(k))
<1>1. k # Current
  <2>1. CASE closed BY <2>1, NoneAssumption DEF Current
  <2>2. CASE ~closed
    <3>1. Current # None => Current \in all[state] BY <2>2, CurrentFacts, Zenon
    <3> QED BY <2>2, <3>1, NoneAssumption DEF Tracked
  <2> QED BY <2>1, <2>2
<1>2. Current' = Current /\ Installed' = Installed BY DEF Current, Installed
<1> HIDE DEF Current, Installed
<1>3. (Installed \ {Current})' = Installed \ {Current} /\ (open \cap Installed)' = (open \cap Installed) \ {k}
  BY <1>2
<1> QED BY <1>1, <1>2, <1>3, Zenon DEF Abs!GiveBack, Abs!Discard

\* Invalidate drops the current connection, or closes one that is not, or
\* leaves it to closeState.
LEMMA InvalidateMaps ==
  ASSUME Inv, Sound, NEW k \in Dials, Invalidate(k), UNCHANGED <<poolVars, dialVars>>
  PROVE  Abs!Next \/ UNCHANGED Abs!poolVars
<1>0. UNCHANGED <<closed, state, dpc, derr>> BY DEF poolVars, dialVars
<1>1. CASE closed
  <2>1. ~Tracked(k) /\ open' = open \ {k} /\ UNCHANGED <<shared, claimed, users>>
    BY <1>1 DEF Invalidate, Tracked
  <2>2. Abs!Discard(k) BY <1>0, <1>1, <2>1, CloseMaps
  <2> QED BY <2>2 DEF Abs!Next
<1>2. CASE ~closed /\ ~Tracked(k)
  <2>1. UNCHANGED <<shared, claimed, users, open>> BY <1>2, Zenon DEF Invalidate
  <2>2. Installed' = Installed /\ open' \cap Installed = open \cap Installed BY <1>0, <2>1 DEF Installed
  <2> QED BY <1>0, <2>1, <2>2, StutterMaps
<1>3. CASE Tracked(k)
  <2>1. RemoveConn(state, k) BY <1>3 DEF Invalidate, Tracked
  <2>2. Abs!Drop BY <1>0, <1>3, <2>1, RemoveMaps
  <2> QED BY <2>2, Zenon DEF Abs!Next
<1> QED BY <1>1, <1>2, <1>3

\* A user gives the current connection back.
LEMMA ReleaseMaps ==
  ASSUME Inv, Sound, NEW k \in Dials, NEW reuse, ReleaseReusable(k, reuse),
         UNCHANGED <<closed, state, dpc, derr>>
  PROVE  Abs!GiveBack(k)
<1>1. ~closed /\ state \in Gens /\ k = Current /\ k = shared[state]
  BY CurrentFacts, Zenon DEF ReleaseReusable, Tracked
<1>2. users \in [Gens -> Nat] BY DEF Inv, TypeOK, PoolTypes
<1>3. users'[state] = IF users[state] > 0 THEN users[state] - 1 ELSE users[state]
  BY <1>1, <1>2, ZenonT(30) DEF ReleaseReusable
<1>4. Current' = Current /\ Installed' = Installed BY DEF ReleaseReusable, Current, Installed
<1>5. UNCHANGED <<claimed, open>> BY DEF ReleaseReusable
<1> HIDE DEF Current, Installed
<1>6. (Installed \ {Current})' = Installed \ {Current} /\ (open \cap Installed)' = open \cap Installed
  BY <1>4, <1>5
<1> QED BY <1>1, <1>3, <1>4, <1>5, <1>6, Zenon DEF Abs!GiveBack

\* connectSingle installs the connection.
LEMMA InstallMaps ==
  ASSUME Inv, Sound, NEW d \in Dials, Install(d), ~derr[d], ~Superseded(d)
  PROVE  Abs!Connect(d)
<1>1. ~closed /\ state = dgen[d] /\ state \in Gens /\ dpc[d] = "dialed"
  BY CurrentFacts, Zenon DEF Install, InstallShared, Superseded
<1>2. shared[state] = None
  <2>1. connecting[state] = d BY <1>1, Zenon DEF Inv, PoolInv, DialInv, DialOK
  <2> QED BY <1>1, <2>1, NoneAssumption, Zenon DEF Inv, PoolInv, SingleTracked
<1>3. d \in open BY <1>1, Zenon DEF Inv, PoolInv, DialInv, DialOK
<1>4. UNCHANGED <<closed, state, claimed, users, open, derr>> /\ shared' = [shared EXCEPT ![state] = d]
      /\ dpc' = [dpc EXCEPT ![d] = "installed"]
  BY <1>1, Zenon DEF Install, InstallShared, poolVars
<1>5. Current = None /\ Current' = d
  BY <1>1, <1>2, <1>4, Zenon DEF Current, Inv, TypeOK, PoolTypes
<1>6. d \notin Installed /\ Installed' = Installed \cup {d} /\ None \notin Installed
  BY <1>1, <1>4, NoneAssumption DEF Installed, Inv, TypeOK, DialTypes
<1> HIDE DEF Current, Installed
<1>7. (Installed \ {Current})' = Installed \ {Current} /\ d \notin Installed \ {Current} BY <1>5, <1>6
<1>8. (open \cap Installed)' = (open \cap Installed) \cup {d} BY <1>3, <1>4, <1>6
<1> QED BY <1>1, <1>4, <1>5, <1>7, <1>8, Zenon DEF Abs!Connect

\* Reset and Close leave the current connection behind.
LEMMA SwapMaps ==
  ASSUME Inv, Sound, Reset \/ Close
  PROVE  Abs!Reset \/ Abs!Close
<1>1. ~closed /\ UNCHANGED <<shared, claimed, users, open, dpc, derr>>
  BY Zenon DEF Reset, Close, stateVars, dialVars, connVars
<1>2. closed' \/ (~closed' /\ shared'[state'] = None /\ ~claimed'[state'] /\ users'[state'] = 0)
  <2>1. ASSUME Reset PROVE closed' = closed /\ state' \in Gens /\ phase[state'] = "new" BY <2>1 DEF Reset
  <2>2. ASSUME NEW g \in Gens, phase[g] = "new" PROVE shared[g] = None /\ ~claimed[g] /\ users[g] = 0
    <3>1. shared[g] \in Dials \cup {None} BY DEF Inv, TypeOK, PoolTypes
    <3>2. shared[g] # None => shared[g] \in all[g] BY Zenon DEF Inv, PoolInv, SingleTracked
    <3>3. \A d \in Dials : d \in all[g] => dgen[d] = g /\ (dgen[d] # None => phase[dgen[d]] # "new")
      BY Zenon DEF Inv, PoolInv, DialInv, DialOK
    <3>4. shared[g] = None BY <2>2, <3>1, <3>2, <3>3, NoneAssumption, Zenon
    <3> QED BY <3>4 DEF Inv, PoolInv, ClaimInv
  <2>3. CASE Reset BY <1>1, <2>1, <2>2, <2>3, Zenon
  <2>4. CASE Close BY <2>4 DEF Close
  <2> QED BY <2>3, <2>4
<1>3. Current' = None /\ Installed' = Installed BY <1>1, <1>2 DEF Current, Installed
<1>4. None \notin Installed BY NoneAssumption DEF Installed
<1>5. Current # None => Current \in Installed BY <1>1, CurrentFacts, ZenonT(30)
<1>6. Current = None => ~claimed[state] /\ users[state] = 0 BY <1>1, CurrentFacts
<1>7. closed' = closed \/ closed' = TRUE BY DEF Reset, Close
<1> HIDE DEF Current, Installed
<1>8. (Installed \ {Current})' = IF Current = None THEN Installed \ {Current} ELSE (Installed \ {Current}) \cup {Current}
  BY <1>3, <1>4, <1>5
<1>9. (open \cap Installed)' = open \cap Installed BY <1>1, <1>3
<1>10. (~closed /\ claimed[state])' = FALSE /\ (IF closed THEN 0 ELSE users[state])' = 0 BY <1>2
<1>11. Abs!Replace
  <2>1. CASE Current = None
    <3>1. (~closed /\ claimed[state]) = FALSE /\ (IF closed THEN 0 ELSE users[state]) = 0 BY <1>1, <1>6, <2>1, Zenon
    <3> QED BY <1>1, <1>3, <1>8, <1>10, <2>1, <3>1 DEF Abs!Replace
  <2>2. CASE Current # None
    BY <1>1, <1>3, <1>8, <1>10, <2>2 DEF Abs!Replace, Abs!Vacate
  <2> QED BY <2>1, <2>2, Zenon
<1> QED BY <1>7, <1>9, <1>11 DEF Abs!Reset, Abs!Close

\* closeState closes connections that are past.
LEMMA SweepMaps ==
  ASSUME Inv, Sound, NEW g \in Gens, SweepState(g)
  PROVE  Abs!CloseLate
<1>1. phase[g] = "cancelled" /\ open' = open \ all[g] /\ UNCHANGED <<closed, state, shared, claimed, users, dpc, derr>>
  BY Zenon DEF SweepState, stateVars, dialVars
<1>2. Current' = Current /\ Installed' = Installed BY <1>1, Zenon DEF Current, Installed
<1>3. ASSUME NEW k \in all[g] PROVE k \in Installed /\ k # Current
  <2>1. k \in Dials BY DEF Inv, TypeOK, PoolTypes
  <2>2. dgen[k] = g /\ dpc[k] \in {"installed", "done"} BY <2>1, Zenon DEF Inv, PoolInv, DialInv, DialOK
  <2>3. k \in Installed BY <2>1, <2>2, Zenon DEF Sound, Installed
  <2>4. CASE closed BY <2>1, <2>3, <2>4, NoneAssumption, Zenon DEF Current
  <2>5. CASE ~closed
    <3>1. g # state BY <1>1, Zenon DEF Inv, PoolInv, StateInv
    <3>2. state \in Gens /\ (Current # None => Current \in all[state]) BY <2>5, CurrentFacts, ZenonT(30)
    <3>3. k \notin all[state] BY <2>1, <2>2, <3>1, <3>2 DEF Inv, PoolInv, DialInv, DialOK
    <3> QED BY <2>1, <2>3, <3>2, <3>3, NoneAssumption, Zenon
  <2> QED BY <2>4, <2>5
<1> HIDE DEF Current, Installed
<1>4. all[g] \in SUBSET (Installed \ {Current}) BY <1>3, Zenon
<1>5. (Installed \ {Current})' = Installed \ {Current} /\ (open \cap Installed)' = (open \cap Installed) \ all[g]
  BY <1>1, <1>2, Zenon
<1> QED BY <1>1, <1>2, <1>4, <1>5, Zenon DEF Abs!CloseLate

-----------------------------------------------------------------------------
(* The refinement                                                          *)

\* A step of a caller is one of its kind.
LEMMA CallerMaps ==
  ASSUME Inv, Sound, NEW c \in Callers, CallerStep(c)
  PROVE  Abs!Next \/ UNCHANGED Abs!poolVars
<1> DEFINE Still == UNCHANGED <<closed, state, shared, claimed, users, open, derr>> /\ Installed' = Installed
<1>1. ASSUME Still PROVE UNCHANGED Abs!poolVars
  <2>1. open' \cap Installed = open \cap Installed BY <1>1
  <2> QED BY <1>1, <2>1, StutterMaps
<1>2. ASSUME UNCHANGED <<dpc, derr>> PROVE Installed' = Installed BY <1>2 DEF Installed
<1>3. ASSUME Acquire(c) \/ AcquireClosed(c) \/ CancelCaller(c) \/ WaitCtxDone(c) \/ WaitStateDone(c) \/ Forget(c) PROVE Still
  BY <1>2, <1>3, Zenon DEF Acquire, AcquireClosed, CancelCaller, WaitCtxDone, WaitStateDone, Forget, poolVars, stateVars, dialVars, connVars
<1>4. ASSUME AcquireWait(c) PROVE Still
  <2>1. UNCHANGED <<closed, state, shared, claimed, users, open, derr>>
    BY <1>4, ZenonT(30) DEF AcquireWait, poolVars, dialVars, connVars
  <2>2. dpc' = dpc \/ \E d \in Dials : dpc[d] = "unused" /\ dpc' = [dpc EXCEPT ![d] = "dialing"]
    BY <1>4 DEF AcquireWait, dialVars
  <2>3. Installed' = Installed BY <2>1, <2>2 DEF Installed, Inv, TypeOK, DialTypes
  <2> QED BY <2>1, <2>3
<1>5. ASSUME AcquireShared(c) PROVE Abs!Next
  <2>1. \E created \in BOOLEAN : Abs!HandOut(created)
    BY <1>5, HandOutMaps DEF AcquireShared, poolVars, dialVars, connVars
  <2> QED BY <2>1 DEF Abs!Next
<1>6. ASSUME NEW k, Tracked(k), RemoveConn(state, k), UNCHANGED <<poolVars, dialVars>> PROVE Abs!Next
  <2>1. Abs!Drop BY <1>6, RemoveMaps DEF poolVars, dialVars
  <2> QED BY <2>1 DEF Abs!Next
<1>7. ASSUME ~closed, shared[state] # None PROVE Tracked(shared[state]) BY <1>7, CurrentFacts DEF Tracked
<1>8. ASSUME AcquireDead(c) PROVE Abs!Next BY <1>6, <1>7, <1>8 DEF AcquireDead
<1>9. ASSUME CollectShared(c) PROVE Abs!Next \/ UNCHANGED Abs!poolVars
  <2>1. UNCHANGED <<poolVars, dialVars>> BY <1>9, Zenon DEF CollectShared
  <2>2. CASE CollectError(c) \/ CollectStale(c) \/ CollectGone(c)
    <3>1. Still BY <1>2, <2>1, <2>2, Zenon DEF CollectError, CollectStale, CollectGone, poolVars, dialVars, connVars
    <3> QED BY <3>1, <1>1
  <2>3. CASE CollectDead(c) BY <1>6, <1>7, <2>1, <2>3, Zenon DEF CollectDead
  <2>4. CASE CollectConn(c)
    <3>1. \E created \in BOOLEAN : Abs!HandOut(created)
      BY <2>1, <2>4, HandOutMaps, Zenon DEF CollectConn, poolVars, dialVars, connVars
    <3> QED BY <3>1 DEF Abs!Next
  <2> QED BY <1>9, <2>2, <2>3, <2>4, Zenon DEF CollectShared
<1>10. ASSUME pc[c] = "hold" PROVE cconn[c] \in Dials BY <1>10 DEF Inv, CallerInv
<1>11. ASSUME Release(c) PROVE Abs!Next
  <2>1. UNCHANGED <<poolVars, dialVars>> /\ cconn[c] \in Dials BY <1>10, <1>11, Zenon DEF Release
  <2>2. PICK reuse \in BOOLEAN : ReleaseUntracked(cconn[c]) \/ ReleaseUnusable(cconn[c], reuse) \/ ReleaseReusable(cconn[c], reuse)
    BY <1>11, Zenon DEF Release
  <2>3. CASE ReleaseUntracked(cconn[c])
    <3>1. Abs!GiveBack(cconn[c]) BY <2>1, <2>3, CloseMaps DEF ReleaseUntracked, poolVars, dialVars
    <3> QED BY <2>1, <3>1 DEF Abs!Next
  <2>4. CASE ReleaseUnusable(cconn[c], reuse) BY <1>6, <2>1, <2>4 DEF ReleaseUnusable
  <2>5. CASE ReleaseReusable(cconn[c], reuse)
    <3>1. Abs!GiveBack(cconn[c]) BY <2>1, <2>5, ReleaseMaps, Zenon DEF poolVars, dialVars
    <3> QED BY <2>1, <3>1 DEF Abs!Next
  <2> QED BY <2>2, <2>3, <2>4, <2>5
<1>12. ASSUME InvalidateHeld(c) PROVE Abs!Next \/ UNCHANGED Abs!poolVars
  BY <1>10, <1>12, InvalidateMaps DEF InvalidateHeld
<1> QED BY <1>1, <1>3, <1>4, <1>5, <1>8, <1>9, <1>11, <1>12, SMTT(30) DEF CallerStep

\* Every step of the pool is a step of AbstractConnPool, or none.
LEMMA NextMaps ==
  ASSUME Inv, Sound, [Next]_vars
  PROVE  Abs!Next \/ UNCHANGED Abs!poolVars
<1>1. ASSUME UNCHANGED <<closed, state, shared, claimed, users, open, dpc, derr>> PROVE UNCHANGED Abs!poolVars
  <2>1. Installed' = Installed /\ open' \cap Installed = open \cap Installed BY <1>1 DEF Installed
  <2> QED BY <1>1, <2>1, StutterMaps, Zenon
<1>2. ASSUME NEW d \in Dials, DialReturn(d) PROVE UNCHANGED Abs!poolVars
  <2>1. UNCHANGED <<closed, state, shared, claimed, users>> /\ dpc[d] = "dialing" /\ dpc' = [dpc EXCEPT ![d] = "dialed"]
    BY <1>2, Zenon DEF DialReturn, poolVars, stateVars
  <2>2. \A x \in Dials \ {d} : derr'[x] = derr[x] BY <1>2 DEF DialReturn, Inv, TypeOK, DialTypes
  <2>3. d \notin Installed /\ Installed' = Installed BY <2>1, <2>2, Zenon DEF Installed, Inv, TypeOK, DialTypes
  <2>4. open' = open \/ open' = open \cup {d} BY <1>2 DEF DialReturn
  <2> HIDE DEF Installed
  <2>5. open' \cap Installed = open \cap Installed BY <2>3, <2>4
  <2> QED BY <2>1, <2>3, <2>5, StutterMaps, Zenon
<1>3. ASSUME NEW d \in Dials, Install(d) PROVE Abs!Next \/ UNCHANGED Abs!poolVars
  <2>1. dpc[d] = "dialed" /\ dpc' = [dpc EXCEPT ![d] = "installed"] /\ UNCHANGED <<closed, state, claimed, users>>
    BY <1>3, Zenon DEF Install, poolVars
  <2>2. d \notin Installed BY <2>1 DEF Installed
  <2>3. CASE derr[d] \/ Superseded(d)
    <3>1. shared' = shared /\ derr' \in {derr, [derr EXCEPT ![d] = TRUE]} /\ derr'[d] /\ open' \in {open, open \ {d}}
      BY <1>3, <2>3, Zenon DEF Install, InstallShared, Inv, TypeOK, DialTypes
    <3>2. Installed' = Installed BY <2>1, <2>2, <3>1 DEF Installed, Inv, TypeOK, DialTypes
    <3>3. open' \cap Installed = open \cap Installed BY <2>2, <3>1
    <3> QED BY <2>1, <3>1, <3>2, <3>3, StutterMaps, Zenon
  <2>4. CASE ~derr[d] /\ ~Superseded(d)
    <3>1. Abs!Connect(d) BY <1>3, <2>4, InstallMaps, Zenon
    <3> QED BY <3>1 DEF Abs!Next
  <2> QED BY <2>3, <2>4, Zenon
<1>4. ASSUME NEW d \in Dials, CloseDone(d) PROVE UNCHANGED Abs!poolVars
  <2>1. UNCHANGED <<closed, state, shared, claimed, users, open, derr>> /\ dpc[d] = "installed" /\ dpc' = [dpc EXCEPT ![d] = "done"]
    BY <1>4, Zenon DEF CloseDone, poolVars, stateVars, connVars
  <2>2. Installed' = Installed BY <2>1 DEF Installed, Inv, TypeOK, DialTypes
  <2>3. open' \cap Installed = open \cap Installed BY <2>1
  <2> QED BY <2>1, <2>2, <2>3, StutterMaps, Zenon
<1>5. ASSUME NEW d \in Dials, InvalidateByReader(d) PROVE Abs!Next \/ UNCHANGED Abs!poolVars
  BY <1>5, InvalidateMaps, Zenon DEF InvalidateByReader
<1>6. ASSUME (\E d \in Dials : Die(d)) \/ (\E g \in Gens : CancelState(g)) \/ UNCHANGED vars PROVE UNCHANGED Abs!poolVars
  BY <1>1, <1>6 DEF Die, CancelState, vars, poolVars, stateVars, dialVars, connVars
<1>7. ASSUME CloseIdle PROVE Abs!Next
  <2>1. Tracked(shared[state]) BY <1>7, CurrentFacts, Zenon DEF CloseIdle, Tracked
  <2>2. Abs!Drop BY <1>7, <2>1, RemoveMaps, Zenon DEF CloseIdle, poolVars, dialVars
  <2> QED BY <2>2 DEF Abs!Next
<1>8. ASSUME Reset \/ Close PROVE Abs!Next BY <1>8, SwapMaps DEF Abs!Next
<1>9. ASSUME NEW g \in Gens, SweepState(g) PROVE Abs!Next BY <1>9, SweepMaps, Zenon DEF Abs!Next
<1> QED BY <1>2, <1>3, <1>4, <1>5, <1>6, <1>7, <1>8, <1>9, CallerMaps DEF Next, DialStep

\* The pool starts as AbstractConnPool does.
LEMMA InitMaps == ASSUME Init PROVE Abs!Init /\ Sound
<1>1. ~closed /\ state \in Gens /\ Current = None BY Zenon DEF Init, Current
<1>2. Installed = {} BY Zenon DEF Init, Installed
<1>3. ~claimed[state] /\ users[state] = 0 BY <1>1, Zenon DEF Init
<1>4. Sound BY Zenon DEF Init, Sound
<1>5. closed = FALSE /\ open = {} BY DEF Init
<1> HIDE DEF Current, Installed
<1>6. open \cap Installed = {} /\ Installed \ {Current} = {} BY <1>2
<1>7. (~closed /\ claimed[state]) = FALSE /\ (IF closed THEN 0 ELSE users[state]) = 0 BY <1>1, <1>3
<1> QED BY <1>1, <1>4, <1>5, <1>6, <1>7, Zenon DEF Abs!Init

\* conn_pool.go in mode ConnPoolSingle keeps the promises of AbstractConnPool:
\* one current connection, the first user is its creator, and a connection
\* once replaced by Reset, Close, Invalidate or CloseIdle never comes back.
THEOREM PoolImplementsAbstract == Spec => ImplementsAbstract
<1>1. Init => Abs!Init /\ Sound BY InitMaps
<1>2. Inv /\ Sound /\ [Next]_vars => Sound' /\ [Abs!Next]_(Abs!poolVars)
  BY SoundStep, NextMaps
<1> QED BY <1>1, <1>2, Invariance, PTL DEF Spec, ImplementsAbstract, Abs!Spec
=============================================================================
