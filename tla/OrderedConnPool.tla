-------------------------- MODULE OrderedConnPool --------------------------
(***************************************************************************)
(* The ordered mode of dns/transport/conn_pool.go: each caller gets a      *)
(* connection of its own, the longest idle one or a new one, and a         *)
(* semaphore of MaxInflight slots limits the dials in progress.  A Reset   *)
(* retires the state with its connections; calls that were dialling for    *)
(* it end.  CloseIdle does nothing in this mode.                           *)
(***************************************************************************)
EXTENDS Integers, SequencesExt, FiniteSets

CONSTANTS
    Callers,
    Conns,         \* the connections that dials may yield, each of them once
    MaxInflight,   \* options.MaxInflight; 0: no semaphore
    MaxResets,     \* bound on the number of Resets
    None

ASSUME OrderedAssumption ==
    /\ MaxInflight \in Nat /\ MaxResets \in Nat
    /\ IsFiniteSet(Callers) /\ None \notin Conns

VARIABLES
    state,      \* the number of the current connPoolState
    closed,     \* p.closed
    cancelled,  \* states whose context has been cancelled
    home,       \* for each connection the state whose "all" holds it, 0: none
    idle,       \* the idle list of the current state
    slots,      \* slots of the semaphore that are taken
    waiters,    \* callers waiting for a slot, first come first served
    pc,         \* where each caller is
    current,    \* the state that a caller dials for
    conn,       \* the connection in a caller's hands, or None
    ctxDone,    \* callers whose context has ended
    status,     \* of each connection: "new" until dialled, "alive", "broken", "closed"
    doomed      \* connections that closeState or a third party is about to close

pool == <<state, closed, cancelled>>
sem == <<slots, waiters>>
conns == <<status, doomed>>
vars == <<state, closed, cancelled, home, idle, slots, waiters, pc, current, conn, ctxDone, status, doomed>>

Init ==
    /\ state = 1 /\ closed = FALSE /\ cancelled = {}
    /\ home = [c \in Conns |-> 0] /\ idle = <<>>
    /\ slots = 0 /\ waiters = <<>>
    /\ pc = [p \in Callers |-> "off"]
    /\ current = [p \in Callers |-> 0]
    /\ conn = [p \in Callers |-> None]
    /\ ctxDone = {}
    /\ status = [c \in Conns |-> "new"] /\ doomed = {}

IsAlive(c) == status[c] = "alive"
Open(c) == status[c] \in {"alive", "broken"}
Tracked(c) == ~closed /\ home[c] = state

Goto(p, l) == pc' = [pc EXCEPT ![p] = l]
CloseConn(c) == status' = [status EXCEPT ![c] = "closed"]

\* The sequence without one entry of e: list.Remove, and the semaphore's.
Without(s, e) ==
    IF Contains(s, e) THEN RemoveAt(s, CHOOSE i \in 1 .. Len(s) : s[i] = e) ELSE s

-----------------------------------------------------------------------------
(* Acquire                                                                 *)

Call(p) ==
    /\ pc[p] = "off"
    /\ Goto(p, "take")
    /\ UNCHANGED <<pool, home, idle, sem, current, conn, ctxDone, conns>>

\* The context of the call ends; only acquireSlot and the dial look at it.
EndContext(p) ==
    /\ pc[p] \in {"slot", "wait", "granted", "dial"} /\ p \notin ctxDone
    /\ ctxDone' = ctxDone \cup {p}
    /\ UNCHANGED <<pool, home, idle, sem, pc, current, conn, conns>>

\* acquireOrdered under the lock: the pool is closed, ...
TakeClosed(p) ==
    /\ pc[p] = "take" /\ closed
    /\ Goto(p, "off")
    /\ UNCHANGED <<pool, home, idle, sem, current, conn, ctxDone, conns>>

TakeIdleShared(p) ==   \* mutant: the connection stays in the idle list
    /\ pc[p] = "take" /\ ~closed /\ idle # <<>> /\ IsAlive(Head(idle))
    /\ conn' = [conn EXCEPT ![p] = Head(idle)]
    /\ Goto(p, "using")
    /\ UNCHANGED <<pool, home, idle, sem, current, ctxDone, conns>>

\* ... the longest idle connection is alive, ...
TakeIdle(p) ==
    /\ pc[p] = "take" /\ ~closed /\ idle # <<>> /\ IsAlive(Head(idle))
    /\ idle' = Tail(idle)
    /\ conn' = [conn EXCEPT ![p] = Head(idle)]
    /\ Goto(p, "using")
    /\ UNCHANGED <<pool, home, sem, current, ctxDone, conns>>

\* ... or dead and to be closed before the next round, ...
TakeDead(p) ==
    /\ pc[p] = "take" /\ ~closed /\ idle # <<>> /\ ~IsAlive(Head(idle))
    /\ idle' = Tail(idle)
    /\ home' = [home EXCEPT ![Head(idle)] = 0]
    /\ conn' = [conn EXCEPT ![p] = Head(idle)]
    /\ Goto(p, "bury")
    /\ UNCHANGED <<pool, sem, current, ctxDone, conns>>

Bury(p) ==
    /\ pc[p] = "bury"
    /\ CloseConn(conn[p])
    /\ conn' = [conn EXCEPT ![p] = None]
    /\ Goto(p, "take")
    /\ UNCHANGED <<pool, home, idle, sem, current, ctxDone, doomed>>

\* ... or there is none and a new one is dialled.
TakeNone(p) ==
    /\ pc[p] = "take" /\ ~closed /\ idle = <<>>
    /\ current' = [current EXCEPT ![p] = state]
    /\ Goto(p, "slot")
    /\ UNCHANGED <<pool, home, idle, sem, conn, ctxDone, conns>>

-----------------------------------------------------------------------------
(* acquireSlot, releaseSlot and the semaphore                              *)

\* The state's end reaches acquireCtx through a goroutine of its own, so a
\* slot may still be taken after it; the caller's own end is seen at once.
SlotCancelled(p) == p \in ctxDone \/ current[p] \in cancelled

\* dialAndInstall returns, and what it knew is gone.
Return(p) ==
    /\ ctxDone' = ctxDone \ {p}
    /\ current' = [current EXCEPT ![p] = 0]

HasRoom == MaxInflight = 0 \/ (slots < MaxInflight /\ waiters = <<>>)

\* Without a semaphore the context is not looked at.
AcquireSlot(p) ==
    /\ pc[p] = "slot" /\ (MaxInflight = 0 \/ p \notin ctxDone)
    /\ \/ HasRoom /\ slots' = slots + 1 /\ Goto(p, "dial") /\ UNCHANGED waiters
       \/ ~HasRoom /\ waiters' = Append(waiters, p) /\ Goto(p, "wait") /\ UNCHANGED slots
    /\ UNCHANGED <<pool, home, idle, current, conn, ctxDone, conns>>

RefuseSlot(p) ==
    /\ pc[p] = "slot" /\ MaxInflight # 0 /\ SlotCancelled(p)
    /\ Goto(p, "off") /\ Return(p)
    /\ UNCHANGED <<pool, home, idle, sem, conn, conns>>

\* sem.Release: the slot goes to the first waiter, if there is one.
PutSlot(p, l) ==
    IF waiters = <<>> THEN slots' = slots - 1 /\ Goto(p, l) /\ UNCHANGED waiters
    ELSE /\ waiters' = Tail(waiters)
         /\ pc' = [pc EXCEPT ![p] = l, ![Head(waiters)] = "granted"]
         /\ UNCHANGED slots

CancelWaitLoses(p) ==   \* mutant: a grant that comes with the end of the context is lost
    /\ pc[p] \in {"wait", "granted"} /\ SlotCancelled(p)
    /\ waiters' = Without(waiters, p)
    /\ Goto(p, "off") /\ Return(p)
    /\ UNCHANGED <<pool, home, idle, slots, conn, conns>>

\* A waiter gives up; a slot it has been granted meanwhile is put back.
CancelWait(p) ==
    /\ SlotCancelled(p)
    /\ \/ pc[p] = "wait" /\ waiters' = Without(waiters, p) /\ Goto(p, "off") /\ UNCHANGED slots
       \/ pc[p] = "granted" /\ PutSlot(p, "off")
    /\ Return(p)
    /\ UNCHANGED <<pool, home, idle, conn, conns>>

UseGrant(p) ==
    /\ pc[p] = "granted" /\ p \notin ctxDone
    /\ Goto(p, "dial")
    /\ UNCHANGED <<pool, home, idle, sem, current, conn, ctxDone, conns>>

-----------------------------------------------------------------------------
(* dialAndInstall                                                          *)

\* The dial fails, or it returns a connection, which is dropped if the
\* context of the caller or of the state has ended by then.
DialFails(p) ==
    /\ pc[p] = "dial"
    /\ Goto(p, "release")
    /\ UNCHANGED <<pool, home, idle, sem, current, conn, ctxDone, conns>>

DialReturns(p, c) ==
    /\ pc[p] = "dial" /\ status[c] = "new"
    /\ status' = [status EXCEPT ![c] = "alive"]
    /\ conn' = [conn EXCEPT ![p] = c]
    /\ Goto(p, IF SlotCancelled(p) THEN "discard" ELSE "install")
    /\ UNCHANGED <<pool, home, idle, sem, current, ctxDone, doomed>>

InstallableUnchecked(p) == ~closed   \* mutant: a Reset during the dial is not noticed

Installable(p) == ~closed /\ state = current[p]

Install(p) ==
    /\ pc[p] = "install"
    /\ IF Installable(p)
       THEN home' = [home EXCEPT ![conn[p]] = current[p]] /\ Goto(p, "release")
       ELSE UNCHANGED home /\ Goto(p, "discard")
    /\ UNCHANGED <<pool, idle, sem, current, conn, ctxDone, conns>>

Discard(p) ==
    /\ pc[p] = "discard"
    /\ CloseConn(conn[p])
    /\ conn' = [conn EXCEPT ![p] = None]
    /\ Goto(p, "release")
    /\ UNCHANGED <<pool, home, idle, sem, current, ctxDone, doomed>>

\* The deferred releaseSlot; the call returns the connection if it has one.
ReleaseSlot(p) ==
    /\ pc[p] = "release"
    /\ PutSlot(p, IF conn[p] = None THEN "off" ELSE "using")
    /\ Return(p)
    /\ UNCHANGED <<pool, home, idle, conn, conns>>

-----------------------------------------------------------------------------
(* Release and Invalidate                                                  *)

\* removeConn
RemoveConn(c) ==
    /\ home' = [home EXCEPT ![c] = 0]
    /\ idle' = Without(idle, c)

\* Release of a connection that can be used again ...
ReleaseReusable(p) ==
    /\ pc[p] = "using" /\ Tracked(conn[p]) /\ IsAlive(conn[p])
    /\ idle' = IF Contains(idle, conn[p]) THEN idle ELSE Append(idle, conn[p])
    /\ conn' = [conn EXCEPT ![p] = None]
    /\ Goto(p, "off")
    /\ UNCHANGED <<pool, home, sem, current, ctxDone, conns>>

\* ... and of any other, or without reuse: it is closed, outside the lock.
ReleaseClose(p) ==
    /\ pc[p] = "using"
    /\ IF Tracked(conn[p]) THEN RemoveConn(conn[p]) ELSE UNCHANGED <<home, idle>>
    /\ Goto(p, "close")
    /\ UNCHANGED <<pool, sem, current, conn, ctxDone, conns>>

Close(p) ==
    /\ pc[p] = "close"
    /\ CloseConn(conn[p])
    /\ conn' = [conn EXCEPT ![p] = None]
    /\ Goto(p, "off")
    /\ UNCHANGED <<pool, home, idle, sem, current, ctxDone, doomed>>

\* Invalidate by the user of the connection: one that is no longer tracked
\* is left to whoever stopped tracking it.
InvalidateUsed(p) ==
    /\ pc[p] = "using"
    /\ IF Tracked(conn[p]) THEN RemoveConn(conn[p]) ELSE UNCHANGED <<home, idle>>
    /\ IF closed \/ Tracked(conn[p]) THEN Goto(p, "close") /\ UNCHANGED conn
       ELSE Goto(p, "off") /\ conn' = [conn EXCEPT ![p] = None]
    /\ UNCHANGED <<pool, sem, current, ctxDone, conns>>

\* Invalidate by someone else, say the reader of an idle connection.
InvalidateOther(c) ==
    /\ Open(c) /\ home[c] # 0 /\ (closed \/ Tracked(c))
    /\ IF Tracked(c) THEN RemoveConn(c) ELSE UNCHANGED <<home, idle>>
    /\ doomed' = doomed \cup {c}
    /\ UNCHANGED <<pool, sem, pc, current, conn, ctxDone, status>>

-----------------------------------------------------------------------------
(* Reset, Close and the connections themselves                             *)

\* The swap under the lock ...
Reset ==
    /\ ~closed /\ state <= MaxResets
    /\ state' = state + 1
    /\ idle' = <<>>
    /\ UNCHANGED <<closed, cancelled, home, sem, pc, current, conn, ctxDone, conns>>

ClosePool ==
    /\ ~closed
    /\ closed' = TRUE
    /\ idle' = <<>>
    /\ UNCHANGED <<state, cancelled, home, sem, pc, current, conn, ctxDone, conns>>

Retired(g) == g < state \/ (g = state /\ closed)

\* ... and closeState after it: the context of the state, then its connections.
CloseState(g) ==
    /\ Retired(g) /\ g \notin cancelled
    /\ cancelled' = cancelled \cup {g}
    /\ doomed' = doomed \cup {c \in Conns : home[c] = g}
    /\ UNCHANGED <<state, closed, home, idle, sem, pc, current, conn, ctxDone, status>>

CloseDoomed(c) ==
    /\ c \in doomed
    /\ CloseConn(c) /\ doomed' = doomed \ {c}
    /\ UNCHANGED <<pool, home, idle, sem, pc, current, conn, ctxDone>>

Break(c) ==
    /\ status[c] = "alive"
    /\ status' = [status EXCEPT ![c] = "broken"]
    /\ UNCHANGED <<pool, home, idle, sem, pc, current, conn, ctxDone, doomed>>

Dial(p) == DialFails(p) \/ \E c \in Conns : DialReturns(p, c)

Acquire(p) ==
    \/ TakeClosed(p) \/ TakeIdle(p) \/ TakeDead(p) \/ Bury(p) \/ TakeNone(p)
    \/ AcquireSlot(p) \/ RefuseSlot(p) \/ CancelWait(p) \/ UseGrant(p)
    \/ Dial(p) \/ Install(p) \/ Discard(p) \/ ReleaseSlot(p)

Use(p) == ReleaseReusable(p) \/ ReleaseClose(p) \/ InvalidateUsed(p)

Next ==
    \/ \E p \in Callers : Call(p) \/ EndContext(p) \/ Acquire(p) \/ Use(p) \/ Close(p)
    \/ Reset \/ ClosePool \/ \E g \in 1 .. state : CloseState(g)
    \/ \E c \in Conns : InvalidateOther(c) \/ CloseDoomed(c) \/ Break(c)

\* Goroutines run on and a dial ends; a user may keep its connection for ever.
Fairness ==
    /\ \A p \in Callers : WF_vars(Acquire(p)) /\ WF_vars(Close(p))
    /\ WF_vars(\E g \in 1 .. state : CloseState(g))
    /\ \A c \in Conns : WF_vars(CloseDoomed(c))

Spec == Init /\ [][Next]_vars /\ Fairness

-----------------------------------------------------------------------------
(* Properties                                                              *)

HoldsSlot == {"granted", "dial", "install", "discard", "release"}
Holders == {p \in Callers : pc[p] \in HoldsSlot}

\* In ordered mode a connection has one user: it is never in the hands of two
\* callers, never idle while somebody has it, and never idle twice, whatever
\* is released, invalidated or reset in between.
OneUser ==
    /\ \A p, q \in Callers : p # q /\ conn[p] # None => conn[p] # conn[q]
    /\ \A p \in Callers : ~Contains(idle, conn[p])
    /\ \A i, j \in DOMAIN idle : i # j => idle[i] # idle[j]

\* MaxInflight caps the dials in progress and no slot is ever lost: the slots
\* taken are those of the callers between acquireSlot and releaseSlot, also
\* when a grant, the end of a context and a Reset come together, and callers
\* wait only while all slots are taken.
SlotsExact ==
    /\ slots = Cardinality(Holders)
    /\ MaxInflight > 0 => slots <= MaxInflight
    /\ waiters # <<>> => slots = MaxInflight
    /\ \A p \in Callers : Contains(waiters, p) <=> pc[p] = "wait"

\* The current state tracks c, or c's state is about to be closed, or somebody
\* who has taken c out closes or installs it next.
Accounted(c) ==
    \/ Tracked(c)
    \/ home[c] # 0 /\ Retired(home[c]) /\ home[c] \notin cancelled
    \/ c \in doomed
    \/ \E p \in Callers : conn[p] = c /\ pc[p] \in {"bury", "install", "discard", "close"}

\* No connection is left open with nobody to close it, whatever Reset, Close,
\* Invalidate and the end of a dial come together.
NoLeak == \A c \in Conns : Open(c) => Accounted(c)

\* Every call of Acquire returns, with a connection or without.
AcquireEnds == \A p \in Callers : pc[p] = "take" ~> pc[p] \in {"off", "using"}

-----------------------------------------------------------------------------
(* The inductive invariant                                                 *)

HasConn == {"bury", "install", "discard", "using", "close"}

TypeOK ==
    /\ state \in Nat \ {0} /\ closed \in BOOLEAN /\ cancelled \subseteq Nat
    /\ home \in [Conns -> Nat] /\ idle \in Seq(Conns)
    /\ slots \in Int /\ waiters \in Seq(Callers)
    /\ pc \in [Callers -> {"off", "take", "slot", "wait"} \cup HasConn \cup HoldsSlot]
    /\ current \in [Callers -> Nat]
    /\ conn \in [Callers -> Conns \cup {None}]
    /\ ctxDone \subseteq Callers
    /\ status \in [Conns -> {"new", "alive", "broken", "closed"}]
    /\ doomed \subseteq Conns

Distinct(s) == \A i, j \in 1 .. Len(s) : i # j => s[i] # s[j]

\* What callers have in their hands: one dialled connection each.
HandsInv ==
    /\ \A p \in Callers : pc[p] \in HasConn => conn[p] # None
    /\ \A p \in Callers : conn[p] # None => pc[p] \in HasConn \cup {"release"} /\ status[conn[p]] # "new"
    /\ \A p, q \in Callers : p # q /\ conn[p] # None => conn[p] # conn[q]

\* What is idle: dialled connections that nobody has.
IdleInv ==
    /\ Distinct(idle)
    /\ \A c \in Conns : Contains(idle, c) => status[c] # "new"
    /\ \A p \in Callers : ~Contains(idle, conn[p])

WaitInv ==
    /\ Distinct(waiters)
    /\ \A p \in Callers : Contains(waiters, p) <=> pc[p] = "wait"

SlotInv ==
    /\ slots = Cardinality(Holders)
    /\ MaxInflight > 0 => slots <= MaxInflight
    /\ waiters # <<>> => MaxInflight > 0 /\ slots = MaxInflight

\* A state is cancelled after it has been retired.
RetiredInv == \A g \in cancelled : Retired(g)

Inv == TypeOK /\ HandsInv /\ IdleInv /\ WaitInv /\ SlotInv /\ RetiredInv /\ NoLeak
=============================================================================
