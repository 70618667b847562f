--------------------------- MODULE SharedConnPool ---------------------------
(***************************************************************************)
(* The DNS connection pool of dns/transport/conn_pool.go in mode           *)
(* ConnPoolSingle: every query multiplexes over one shared connection,     *)
(* dialled on demand, replaced when it dies, and dropped by Reset, Close   *)
(* and CloseIdle.                                                          *)
(*                                                                         *)
(* Each action is one critical section of p.access, or one step of a       *)
(* goroutine between two of them.  options.Close runs right after the      *)
(* unlock on a connection that the section has just made unreachable, so   *)
(* it belongs to the section; closeState runs outside the lock on the      *)
(* whole retired state and has steps of its own.                           *)
(*                                                                         *)
(* A connPoolConnect and the connection it dials share an identity: each   *)
(* connect dials at most once.                                             *)
(***************************************************************************)
EXTENDS Integers, FiniteSets

CONSTANTS
    Callers,    \* goroutines inside acquireShared or holding its result
    Dials,      \* identities of connects, and of the connections they dial
    Gens,       \* identities of connPoolState values
    None        \* nil

ASSUME NoneAssumption == None \notin Dials /\ None \notin Gens
ASSUME FiniteAssumption == IsFiniteSet(Callers) /\ IsFiniteSet(Dials)

VARIABLES
    closed,      \* p.closed
    state,       \* p.state, None once closed
    phase,       \* life of each connPoolState
    all,         \* state.all
    shared,      \* state.shared, None when !state.hasShared
    claimed,     \* state.sharedClaimed
    users,       \* state.sharedUsers
    waiters,     \* state.sharedWaiters
    connecting,  \* state.connecting
    dpc,         \* progress of the connectSingle goroutine
    dgen,        \* the state that goroutine was started for
    derr,        \* connPoolConnect.err # nil
    dcancel,     \* connects whose caller context is done
    open,        \* connections dialled and not closed
    dead,        \* connections for which options.IsAlive is false
    removed,     \* connections whose sharedCancel was called by removeConn
    pc,          \* progress of each caller
    cgen,        \* the caller's local "current"
    cdial,       \* the caller's local "state" (a connect)
    cstart,      \* the caller's local "startDial"
    cconn,       \* the connection the caller was given
    cdone,       \* callers whose ctx is done
    creators     \* how often each connection was returned with created = true

poolVars == <<closed, state, phase>>
stateVars == <<all, shared, claimed, users, waiters, connecting>>
dialVars == <<dpc, dgen, derr, dcancel>>
connVars == <<open, dead, removed>>
callerVars == <<pc, cgen, cdial, cstart, cconn, cdone>>
vars == <<poolVars, stateVars, dialVars, connVars, callerVars, creators>>

Phases == {"new", "live", "swapped", "cancelled", "swept"}
Cancelled(g) == phase[g] \in {"cancelled", "swept"}      \* state.ctx is done
IsAlive(k) == k \notin dead
ConnCtxDone(k) == k \in removed \/ Cancelled(dgen[k])    \* sharedCtx is done
Tracked(k) == ~closed /\ k \in all[state]
Holders(k) == {c \in Callers : pc[c] = "hold" /\ cconn[c] = k}
WaitersOf(g) == {c \in Callers : pc[c] = "wait" /\ cgen[c] = g}

PoolTypes ==
    /\ closed \in BOOLEAN
    /\ state \in Gens \cup {None}
    /\ phase \in [Gens -> Phases]
    /\ all \in [Gens -> SUBSET Dials]
    /\ shared \in [Gens -> Dials \cup {None}]
    /\ claimed \in [Gens -> BOOLEAN]
    /\ users \in [Gens -> Nat]
    /\ waiters \in [Gens -> Int]
    /\ connecting \in [Gens -> Dials \cup {None}]

DialTypes ==
    /\ dpc \in [Dials -> {"unused", "dialing", "dialed", "installed", "done"}]
    /\ dgen \in [Dials -> Gens \cup {None}]
    /\ derr \in [Dials -> BOOLEAN]
    /\ dcancel \in SUBSET Dials
    /\ open \in SUBSET Dials
    /\ dead \in SUBSET Dials
    /\ removed \in SUBSET Dials
    /\ creators \in [Dials -> Nat]

CallerTypes ==
    /\ pc \in [Callers -> {"idle", "acquire", "wait", "hold"}]
    /\ cgen \in [Callers -> Gens \cup {None}]
    /\ cdial \in [Callers -> Dials \cup {None}]
    /\ cstart \in [Callers -> BOOLEAN]
    /\ cconn \in [Callers -> Dials \cup {None}]
    /\ cdone \in SUBSET Callers

TypeOK == PoolTypes /\ DialTypes /\ CallerTypes

Init ==
    /\ closed = FALSE
    /\ state \in Gens
    /\ phase = [g \in Gens |-> IF g = state THEN "live" ELSE "new"]
    /\ all = [g \in Gens |-> {}]
    /\ shared = [g \in Gens |-> None]
    /\ claimed = [g \in Gens |-> FALSE]
    /\ users = [g \in Gens |-> 0]
    /\ waiters = [g \in Gens |-> 0]
    /\ connecting = [g \in Gens |-> None]
    /\ dpc = [d \in Dials |-> "unused"]
    /\ dgen = [d \in Dials |-> None]
    /\ derr = [d \in Dials |-> FALSE]
    /\ dcancel = {} /\ open = {} /\ dead = {} /\ removed = {}
    /\ pc = [c \in Callers |-> "idle"]
    /\ cgen = [c \in Callers |-> None]
    /\ cdial = [c \in Callers |-> None]
    /\ cstart = [c \in Callers |-> FALSE]
    /\ cconn = [c \in Callers |-> None]
    /\ cdone = {}
    /\ creators = [d \in Dials |-> 0]

-----------------------------------------------------------------------------
(* Helpers of the critical sections, called with p.access held.            *)

RemoveConnKeepsUsers(g, k) ==   \* mutant: forgets sharedUsers = 0
    /\ all' = [all EXCEPT ![g] = @ \ {k}]
    /\ shared' = [shared EXCEPT ![g] = IF @ = k THEN None ELSE @]
    /\ claimed' = [claimed EXCEPT ![g] = IF shared[g] = k THEN FALSE ELSE @]
    /\ removed' = IF shared[g] = k THEN removed \cup {k} ELSE removed
    /\ open' = open \ {k}
    /\ UNCHANGED users

\* removeConn followed by options.Close of the same connection.
RemoveConn(g, k) ==
    /\ all' = [all EXCEPT ![g] = @ \ {k}]
    /\ shared' = [shared EXCEPT ![g] = IF @ = k THEN None ELSE @]
    /\ claimed' = [claimed EXCEPT ![g] = IF shared[g] = k THEN FALSE ELSE @]
    /\ users' = [users EXCEPT ![g] = IF shared[g] = k THEN 0 ELSE @]
    /\ removed' = IF shared[g] = k THEN removed \cup {k} ELSE removed
    /\ open' = open \ {k}

\* Caller c goes on at label; its locals are out of scope there.
Goto(c, label, k) ==
    /\ pc' = [pc EXCEPT ![c] = label]
    /\ cconn' = [cconn EXCEPT ![c] = k]
    /\ cgen' = [cgen EXCEPT ![c] = None]
    /\ cdial' = [cdial EXCEPT ![c] = None]
    /\ cstart' = [cstart EXCEPT ![c] = FALSE]
    /\ cdone' = IF label = "acquire" THEN cdone ELSE cdone \ {c}

Return(c) == Goto(c, "idle", None)     \* return, with or without an error
Retry(c) == Goto(c, "acquire", None)   \* the next round of the loop

\* Hand the live shared connection of state g to caller c.
HandOut(c, g) ==
    /\ creators' = [creators EXCEPT ![shared[g]] = IF claimed[g] THEN @ ELSE @ + 1]
    /\ claimed' = [claimed EXCEPT ![g] = TRUE]
    /\ users' = [users EXCEPT ![g] = @ + 1]
    /\ Goto(c, "hold", shared[g])


-----------------------------------------------------------------------------
(* acquireShared                                                           *)

\* Acquire and AcquireShared enter the loop with the caller's own context.
Acquire(c) ==
    /\ pc[c] = "idle"
    /\ Retry(c)
    /\ UNCHANGED <<poolVars, stateVars, dialVars, connVars, creators>>

AcquireClosed(c) ==
    /\ pc[c] = "acquire" /\ closed
    /\ Return(c)
    /\ UNCHANGED <<poolVars, stateVars, dialVars, connVars, creators>>

AcquireShared(c) ==
    /\ pc[c] = "acquire" /\ ~closed
    /\ shared[state] # None /\ IsAlive(shared[state])
    /\ HandOut(c, state)
    /\ UNCHANGED <<poolVars, all, shared, waiters, connecting, dialVars, connVars>>

AcquireDead(c) ==
    /\ pc[c] = "acquire" /\ ~closed
    /\ shared[state] # None /\ ~IsAlive(shared[state])
    /\ RemoveConn(state, shared[state])
    /\ UNCHANGED <<poolVars, waiters, connecting, dialVars, dead, callerVars, creators>>

\* Wait for the connect in progress, or start one.
AcquireWait(c) ==
    /\ pc[c] = "acquire" /\ ~closed
    /\ shared[state] = None
    /\ \/ /\ connecting[state] # None
          /\ cdial' = [cdial EXCEPT ![c] = connecting[state]]
          /\ cstart' = [cstart EXCEPT ![c] = FALSE]
          /\ UNCHANGED <<connecting, dialVars>>
       \/ /\ connecting[state] = None
          /\ \E d \in Dials :
                /\ dpc[d] = "unused"
                /\ connecting' = [connecting EXCEPT ![state] = d]
                /\ dpc' = [dpc EXCEPT ![d] = "dialing"]
                /\ dgen' = [dgen EXCEPT ![d] = state]
                /\ dcancel' = IF c \in cdone THEN dcancel \cup {d} ELSE dcancel
                /\ cdial' = [cdial EXCEPT ![c] = d]
          /\ cstart' = [cstart EXCEPT ![c] = TRUE]
          /\ UNCHANGED derr
    /\ waiters' = [waiters EXCEPT ![state] = @ + 1]
    /\ cgen' = [cgen EXCEPT ![c] = state]
    /\ pc' = [pc EXCEPT ![c] = "wait"]
    /\ UNCHANGED <<poolVars, all, shared, claimed, users, connVars, cconn, cdone, creators>>

\* The caller's context ends; a connect it started was given that context.
CancelCaller(c) ==
    /\ pc[c] \in {"acquire", "wait"} /\ c \notin cdone
    /\ cdone' = cdone \cup {c}
    /\ dcancel' = IF pc[c] = "wait" /\ cstart[c] THEN dcancel \cup {cdial[c]} ELSE dcancel
    /\ UNCHANGED <<poolVars, stateVars, dpc, dgen, derr, connVars, pc, cgen, cdial, cstart, cconn, creators>>

WaitCtxDone(c) ==
    /\ pc[c] = "wait" /\ c \in cdone
    /\ waiters' = [waiters EXCEPT ![cgen[c]] = @ - 1]
    /\ Return(c)
    /\ UNCHANGED <<poolVars, all, shared, claimed, users, connecting, dialVars, connVars, creators>>

WaitStateDone(c) ==
    /\ pc[c] = "wait" /\ Cancelled(cgen[c])
    /\ waiters' = [waiters EXCEPT ![cgen[c]] = @ - 1]
    /\ IF closed THEN Return(c) ELSE Retry(c)
    /\ UNCHANGED <<poolVars, all, shared, claimed, users, connecting, dialVars, connVars, creators>>

-----------------------------------------------------------------------------
(* collectShared: the connect the caller waited for has closed done.       *)

\* The connect failed: its starter reports the error, the others retry.
CollectError(c) ==
    /\ derr[cdial[c]]
    /\ IF cstart[c] THEN Return(c) ELSE Retry(c)
    /\ UNCHANGED <<all, shared, claimed, users, connVars, creators>>

\* Close or Reset came in between.
CollectStale(c) ==
    /\ ~derr[cdial[c]]
    /\ closed \/ state # cgen[c]
    /\ Return(c)
    /\ UNCHANGED <<all, shared, claimed, users, connVars, creators>>

\* The connection was removed before this waiter got to it.
CollectGone(c) ==
    /\ ~derr[cdial[c]]
    /\ ~closed /\ state = cgen[c] /\ shared[state] = None
    /\ Retry(c)
    /\ UNCHANGED <<all, shared, claimed, users, connVars, creators>>

CollectDead(c) ==
    /\ ~derr[cdial[c]]
    /\ ~closed /\ state = cgen[c]
    /\ shared[state] # None /\ ~IsAlive(shared[state])
    /\ RemoveConn(state, shared[state])
    /\ Retry(c)
    /\ UNCHANGED <<dead, creators>>

CollectConn(c) ==
    /\ ~derr[cdial[c]]
    /\ ~closed /\ state = cgen[c]
    /\ shared[state] # None /\ IsAlive(shared[state])
    /\ HandOut(c, state)
    /\ UNCHANGED <<all, shared, connVars>>

CollectShared(c) ==
    /\ pc[c] = "wait" /\ dpc[cdial[c]] = "done"
    /\ waiters' = [waiters EXCEPT ![cgen[c]] = @ - 1]
    /\ CollectError(c) \/ CollectStale(c) \/ CollectGone(c) \/ CollectDead(c) \/ CollectConn(c)
    /\ UNCHANGED <<poolVars, connecting, dialVars>>

-----------------------------------------------------------------------------
(* connectSingle, the goroutine behind a connect                           *)

\* dial returns.  A connection dialled under a context that is done by then
\* is closed at once and the connect counts as failed.
DialReturn(d) ==
    /\ dpc[d] = "dialing"
    /\ \E ok \in BOOLEAN :
          LET dialErr == d \in dcancel \/ Cancelled(dgen[d])
          IN  /\ derr' = [derr EXCEPT ![d] = ~ok \/ dialErr]
              /\ open' = IF ok /\ ~dialErr THEN open \cup {d} ELSE open
    /\ dpc' = [dpc EXCEPT ![d] = "dialed"]
    /\ UNCHANGED <<poolVars, stateVars, dgen, dcancel, dead, removed, callerVars, creators>>

SupersededByClose(d) == closed   \* mutant: ignores Reset

Superseded(d) == closed \/ state # dgen[d]

InstallSharedCurrent(d, g) ==   \* mutant: installs into whatever state is current
    /\ ~derr[d] /\ ~closed
    /\ shared' = [shared EXCEPT ![state] = d]
    /\ all' = [all EXCEPT ![state] = @ \cup {d}]
    /\ UNCHANGED <<derr, open>>

InstallShared(d, g) ==
    /\ ~derr[d] /\ ~Superseded(d)
    /\ shared' = [shared EXCEPT ![g] = d]
    /\ all' = [all EXCEPT ![g] = @ \cup {d}]
    /\ UNCHANGED <<derr, open>>

\* The critical section: install the connection, or give it up when the pool
\* was closed or reset while it was being dialled.
Install(d) ==
    LET g == dgen[d] IN
    /\ dpc[d] = "dialed"
    /\ dpc' = [dpc EXCEPT ![d] = "installed"]
    /\ connecting' = [connecting EXCEPT ![g] = None]
    /\ \/ /\ derr[d]
          /\ UNCHANGED <<all, shared, derr, open>>
       \/ /\ ~derr[d] /\ Superseded(d)
          /\ derr' = [derr EXCEPT ![d] = TRUE]
          /\ open' = open \ {d}
          /\ UNCHANGED <<all, shared>>
       \/ InstallShared(d, g)
    /\ UNCHANGED <<poolVars, claimed, users, waiters, dgen, dcancel, dead, removed, callerVars, creators>>

CloseDoneOnSuccess(d) ==   \* mutant: done stays open after a failed dial
    /\ dpc[d] = "installed" /\ ~derr[d]
    /\ dpc' = [dpc EXCEPT ![d] = "done"]
    /\ UNCHANGED <<poolVars, stateVars, dgen, derr, dcancel, connVars, callerVars, creators>>

CloseDone(d) ==
    /\ dpc[d] = "installed"
    /\ dpc' = [dpc EXCEPT ![d] = "done"]
    /\ UNCHANGED <<poolVars, stateVars, dgen, derr, dcancel, connVars, callerVars, creators>>

-----------------------------------------------------------------------------
(* Giving a connection back                                                *)

\* Release on a closed pool, or of a connection the current state does not
\* track, only closes it.
ReleaseUntracked(k) ==
    /\ ~Tracked(k)
    /\ open' = open \ {k}
    /\ UNCHANGED <<all, shared, claimed, users, removed>>

ReleaseUnusable(k, reuse) ==
    /\ Tracked(k)
    /\ ~reuse \/ ~IsAlive(k)
    /\ RemoveConn(state, k)

ReleaseReusable(k, reuse) ==
    /\ Tracked(k)
    /\ reuse /\ IsAlive(k)
    /\ users' = [users EXCEPT ![state] = IF shared[state] = k /\ @ > 0 THEN @ - 1 ELSE @]
    /\ UNCHANGED <<all, shared, claimed, removed, open>>

Release(c) ==
    /\ pc[c] = "hold"
    /\ \E reuse \in BOOLEAN :
          ReleaseUntracked(cconn[c]) \/ ReleaseUnusable(cconn[c], reuse) \/ ReleaseReusable(cconn[c], reuse)
    /\ Return(c)
    /\ UNCHANGED <<poolVars, waiters, connecting, dialVars, dead, creators>>

Invalidate(k) ==
    \/ /\ closed
       /\ open' = open \ {k}
       /\ UNCHANGED <<all, shared, claimed, users, removed>>
    \/ /\ ~closed /\ ~Tracked(k)
       /\ UNCHANGED <<all, shared, claimed, users, removed, open>>
    \/ /\ Tracked(k)
       /\ RemoveConn(state, k)

\* A holder whose write failed gives the connection up.
InvalidateHeld(c) ==
    /\ pc[c] = "hold"
    /\ Invalidate(cconn[c])
    /\ Return(c)
    /\ UNCHANGED <<poolVars, waiters, connecting, dialVars, dead, creators>>

\* The read loop that the creator started sees the connection fail.
InvalidateByReader(k) ==
    /\ creators[k] > 0
    /\ Invalidate(k)
    /\ UNCHANGED <<poolVars, waiters, connecting, dialVars, dead, callerVars, creators>>

\* A holder that learns from the connection's context that it is gone just
\* forgets it (completeConnDone).
Forget(c) ==
    /\ pc[c] = "hold" /\ ConnCtxDone(cconn[c])
    /\ Return(c)
    /\ UNCHANGED <<poolVars, stateVars, dialVars, connVars, creators>>

CloseIdleIgnoresWaiters ==   \* mutant: looks at sharedUsers alone
    /\ ~closed
    /\ shared[state] # None /\ ~(users[state] > 0)
    /\ RemoveConn(state, shared[state])
    /\ UNCHANGED <<poolVars, waiters, connecting, dialVars, dead, callerVars, creators>>

CloseIdle ==
    /\ ~closed
    /\ shared[state] # None /\ ~(users[state] > 0) /\ ~(waiters[state] > 0)
    /\ RemoveConn(state, shared[state])
    /\ UNCHANGED <<poolVars, waiters, connecting, dialVars, dead, callerVars, creators>>

-----------------------------------------------------------------------------
(* Reset and Close swap the state under the lock and run closeState after. *)

Reset ==
    /\ ~closed
    /\ \E g \in Gens :
          /\ phase[g] = "new"
          /\ phase' = [phase EXCEPT ![state] = "swapped", ![g] = "live"]
          /\ state' = g
    /\ UNCHANGED <<closed, stateVars, dialVars, connVars, callerVars, creators>>

Close ==
    /\ ~closed
    /\ closed' = TRUE
    /\ state' = None
    /\ phase' = [phase EXCEPT ![state] = "swapped"]
    /\ UNCHANGED <<stateVars, dialVars, connVars, callerVars, creators>>

CancelState(g) ==
    /\ phase[g] = "swapped"
    /\ phase' = [phase EXCEPT ![g] = "cancelled"]
    /\ UNCHANGED <<closed, state, stateVars, dialVars, connVars, callerVars, creators>>

SweepState(g) ==
    /\ phase[g] = "cancelled"
    /\ phase' = [phase EXCEPT ![g] = "swept"]
    /\ open' = open \ all[g]
    /\ UNCHANGED <<closed, state, stateVars, dialVars, dead, removed, callerVars, creators>>

\* A connection dies: options.IsAlive is false from now on.  The pool only
\* asks it of connections it tracks.
Die(k) ==
    /\ Tracked(k) /\ k \notin dead
    /\ dead' = dead \cup {k}
    /\ UNCHANGED <<poolVars, stateVars, dialVars, open, removed, callerVars, creators>>

CallerStep(c) ==
    \/ Acquire(c) \/ AcquireClosed(c) \/ AcquireShared(c) \/ AcquireDead(c) \/ AcquireWait(c)
    \/ CancelCaller(c) \/ WaitCtxDone(c) \/ WaitStateDone(c) \/ CollectShared(c)
    \/ Release(c) \/ InvalidateHeld(c) \/ Forget(c)

DialStep(d) == DialReturn(d) \/ Install(d) \/ CloseDone(d)

Next ==
    \/ \E c \in Callers : CallerStep(c)
    \/ \E d \in Dials : DialStep(d) \/ InvalidateByReader(d) \/ Die(d)
    \/ CloseIdle \/ Reset \/ Close
    \/ \E g \in Gens : CancelState(g) \/ SweepState(g)

\* Goroutines that can run do run, and a dial returns (it is bounded by its
\* own timeout).  Nothing is assumed of the callers' use of the pool.
Fairness ==
    /\ \A d \in Dials : WF_vars(DialStep(d))
    /\ \A c \in Callers : WF_vars(WaitCtxDone(c) \/ WaitStateDone(c) \/ CollectShared(c))
    /\ \A g \in Gens : WF_vars(CancelState(g) \/ SweepState(g))

Spec == Init /\ [][Next]_vars /\ Fairness

-----------------------------------------------------------------------------
(* Properties                                                              *)

\* No connection leaks (conn_pool.go closes or tracks every connection): an
\* open connection is tracked by the live state, or by a retired state that
\* closeState has not swept yet, or is still in the hands of connectSingle.
NoLeak ==
    \A k \in open :
        \/ dpc[k] = "dialed"
        \/ \E g \in Gens : k \in all[g] /\ phase[g] \in {"live", "swapped", "cancelled"}

\* Mode Single promises one connection: a state tracks its shared connection
\* and no other, and has no shared connection while a connect is in progress.
SingleTracked ==
    \A g \in Gens :
        /\ all[g] = IF shared[g] = None THEN {} ELSE {shared[g]}
        /\ connecting[g] # None => shared[g] = None

\* Exactly one acquirer of a connection is told created = true, and it comes
\* no later than the others: that caller starts the only read loop.
OneCreator ==
    \A k \in Dials :
        /\ creators[k] <= 1
        /\ Holders(k) # {} => creators[k] = 1

\* sharedUsers and sharedWaiters count exactly the callers they stand for:
\* the holders of the live shared connection, and the callers blocked on a
\* connect of that state, whatever Reset, Invalidate and timeouts interleave.
UsersExact == ~closed /\ shared[state] # None => users[state] = Cardinality(Holders(shared[state]))
WaitersExact == \A g \in Gens : waiters[g] = Cardinality(WaitersOf(g))
CountsExact == UsersExact /\ WaitersExact

\* A caller is only ever given a connection dialled for the current state:
\* once Reset or Close has swapped the state, no older connection goes out.
FreshHandout ==
    [][\A c \in Callers :
          pc[c] # "hold" /\ pc'[c] = "hold" =>
              ~closed /\ dgen[cconn'[c]] = state /\ cconn'[c] \in open]_vars

\* CloseIdle never closes a connection that some caller holds, nor the one
\* that a waiter is about to collect.
CloseIdleSparesUsers ==
    [][CloseIdle => open \ open' = {shared[state]}
                    /\ Holders(shared[state]) = {} /\ WaitersOf(state) = {}]_vars

\* Nobody waits for nothing, whatever failed or was cancelled.  A caller
\* blocked on a connect can go on, or the goroutine of that connect can, which
\* takes three steps; and a connection that Close left open is one that
\* connectSingle or closeState is about to close.
NothingStuck ==
    /\ \A c \in Callers : pc[c] = "wait" =>
          ENABLED (DialStep(cdial[c]) \/ WaitCtxDone(c) \/ WaitStateDone(c) \/ CollectShared(c))
    /\ \A k \in open : closed =>
          ENABLED DialStep(k) \/ \E g \in Gens : k \in all[g] /\ ENABLED (CancelState(g) \/ SweepState(g))

\* What the pool promises its users.  Connections appear there when they are
\* installed; those of retired states are past.
Current == IF closed THEN None ELSE shared[state]
Installed == {k \in Dials : dpc[k] \in {"installed", "done"} /\ ~derr[k]}
Abs == INSTANCE AbstractConnPool WITH
           Conns <- Dials, NoConn <- None,
           cur <- Current,
           claimed <- ~closed /\ claimed[state],
           users <- IF closed THEN 0 ELSE users[state],
           open <- open \cap Installed,
           past <- Installed \ {Current}

\* The pool implements AbstractConnPool: one current connection, the first
\* user is its creator, and a connection once replaced never comes back.
ImplementsAbstract == Abs!Spec

-----------------------------------------------------------------------------
(* The inductive invariant behind the safety properties.                   *)

\* p.state is the one live state, and nil exactly when the pool is closed.
StateInv ==
    /\ closed <=> state = None
    /\ \A g \in Gens : phase[g] = "live" <=> g = state

\* A connect belongs to one state from its start; it is state.connecting until
\* its critical section, and its connection is tracked at most afterwards.
DialOK(d) ==
    /\ dpc[d] = "unused" <=> dgen[d] = None
    /\ dgen[d] # None => phase[dgen[d]] # "new"
    /\ dpc[d] \in {"dialing", "dialed"} => connecting[dgen[d]] = d
    /\ d \in open => dpc[d] \in {"dialed", "installed", "done"}
    /\ dpc[d] = "dialed" => (d \in open <=> ~derr[d])
    /\ d \in removed => dpc[d] \in {"installed", "done"} /\ \A g \in Gens : d \notin all[g]
    /\ \A g \in Gens :
          /\ connecting[g] = d => dgen[d] = g /\ dpc[d] \in {"dialing", "dialed"}
          /\ d \in all[g] => /\ dgen[d] = g /\ dpc[d] \in {"installed", "done"}
                             /\ phase[g] = "live" => d \in open
DialInv == \A d \in Dials : DialOK(d)

\* sharedClaimed says whether the creator of the shared connection is known.
ClaimInv ==
    /\ \A g \in Gens : shared[g] = None => ~claimed[g] /\ users[g] = 0
    /\ \A k \in Dials :
          /\ dpc[k] \notin {"installed", "done"} => creators[k] = 0
          /\ \A g \in Gens : shared[g] = k => creators[k] = IF claimed[g] THEN 1 ELSE 0

\* A waiting caller waits for a connect of the state it remembers.
CallerInv ==
    \A c \in Callers :
        /\ pc[c] = "wait" => cgen[c] \in Gens /\ cdial[c] \in Dials /\ dgen[cdial[c]] = cgen[c]
        /\ pc[c] = "hold" => cconn[c] \in Dials

\* The part about the pool, and with it the part about its callers.
PoolInv == StateInv /\ DialInv /\ SingleTracked /\ NoLeak /\ ClaimInv
Inv == TypeOK /\ PoolInv /\ CallerInv /\ OneCreator /\ CountsExact
=============================================================================
