-------------------------- MODULE AbstractConnPool --------------------------
(***************************************************************************)
(* What dns/transport/conn_pool.go in mode ConnPoolSingle promises the     *)
(* query multiplexer: at most one current connection, handed to any number *)
(* of users, the first of them told that it created the connection; a      *)
(* connection that stops being current never becomes current again.        *)
(*                                                                         *)
(* States, connects and waiting callers of the pool do not appear here.    *)
(* SharedConnPool implements this module.                                  *)
(***************************************************************************)
EXTENDS Naturals

CONSTANTS Conns, NoConn

VARIABLES
    closed,    \* Close was called
    cur,       \* the connection that is handed out, or NoConn
    claimed,   \* some user was told that it created cur
    users,     \* users of cur that have not given it back
    open,      \* connections that are not closed
    past       \* connections that have been current and are not any more

poolVars == <<closed, cur, claimed, users, open, past>>

Init ==
    /\ closed = FALSE
    /\ cur = NoConn
    /\ claimed = FALSE
    /\ users = 0
    /\ open = {}
    /\ past = {}

\* cur is given up; what happens to the connection itself is said by open'.
Vacate ==
    /\ cur # NoConn
    /\ cur' = NoConn
    /\ claimed' = FALSE
    /\ users' = 0
    /\ past' = past \cup {cur}

Connect(k) ==
    /\ ~closed /\ cur = NoConn /\ k \notin past
    /\ cur' = k
    /\ open' = open \cup {k}
    /\ UNCHANGED <<closed, claimed, users, past>>

\* A user gets cur, and is its creator iff nobody was before.
HandOut(created) ==
    /\ cur # NoConn
    /\ created = ~claimed
    /\ claimed' = TRUE
    /\ users' = users + 1
    /\ UNCHANGED <<closed, cur, open, past>>

\* A user is done with connection k and leaves it usable.
GiveBack(k) ==
    IF k = cur
    THEN /\ users' = IF users > 0 THEN users - 1 ELSE users
         /\ UNCHANGED <<closed, cur, claimed, open, past>>
    ELSE /\ open' = open \ {k}
         /\ UNCHANGED <<closed, cur, claimed, users, past>>

\* The current connection is found dead, or is given up as unusable.
Drop ==
    /\ Vacate
    /\ open' = open \ {cur}
    /\ UNCHANGED closed

\* A user or a reader reports connection k as broken.
Discard(k) ==
    IF k = cur THEN Drop
    ELSE /\ open' = (IF closed THEN open \ {k} ELSE open)
         /\ UNCHANGED <<closed, cur, claimed, users, past>>

\* An unused connection is dropped when idle connections are not kept.
DropIdle == users = 0 /\ Drop

Replace ==
    /\ ~closed
    /\ \/ Vacate
       \/ cur = NoConn /\ UNCHANGED <<cur, claimed, users, past>>

Reset == Replace /\ UNCHANGED <<closed, open>>

Close == Replace /\ closed' = TRUE /\ UNCHANGED open

\* Connections that Reset or Close left behind are closed a little later.
CloseLate ==
    /\ \E S \in SUBSET past : open' = open \ S
    /\ UNCHANGED <<closed, cur, claimed, users, past>>

Next ==
    \/ \E k \in Conns : Connect(k) \/ GiveBack(k) \/ Discard(k)
    \/ \E created \in BOOLEAN : HandOut(created)
    \/ Drop \/ Reset \/ Close \/ CloseLate

Spec == Init /\ [][Next]_poolVars
=============================================================================
