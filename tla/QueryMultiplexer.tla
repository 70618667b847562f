-------------------------- MODULE QueryMultiplexer --------------------------
(***************************************************************************)
(* dns/transport/multiplexer.go with options.probeReuse = false: queries   *)
(* share one connection of the pool, are told apart by a 16-bit ID, and    *)
(* are completed by whoever takes them out of the queries map first: the   *)
(* read loop, the query's context, the connection's context, or the sender *)
(* whose write failed.                                                     *)
(*                                                                         *)
(* The pool is AbstractConnPool, which SharedConnPool implements.  Each    *)
(* action is one critical section of queryAccess or one operation of the   *)
(* pool; a callback belongs to the step before it.                         *)
(***************************************************************************)
EXTENDS Naturals, FiniteSets, Sequences

CONSTANTS
    Queries,        \* calls of ExchangeAsync
    Conns,
    NoConn,
    IdCount,        \* 2^16 in the code
    RetryReadError, \* options.retryReadError
    NoQuery,        \* nil *pendingQuery
    MaxOps          \* bound: operations of the owner of the multiplexer

ASSUME MultiplexerAssumption == IdCount \in Nat \ {0} /\ NoConn \notin Conns

VARIABLES
    closed, cur, claimed, users, open, past,   \* the pool
    ended,     \* why the context of a connection is done: "no", "read" or "other"
    queryId,   \* m.queryId
    aliased,   \* an ID was given out again while something referred to its previous use
    queries,   \* m.queries
    armed,     \* context.AfterFunc callbacks of registered queries that may still run
    finishing, \* AfterFunc callbacks that have taken a query
    pc,        \* progress of the calls of exchangeAsync
    local,     \* their locals
    ctxDone,   \* queries whose context is done
    rpc,       \* progress of the read loop of each connection
    rmsg,      \* what the read loop has just read
    wire,      \* requests written whose answer may still arrive
    keepIdle,  \* m.keepIdle
    ops,       \* operations of the owner so far
    answers    \* callbacks of each query so far: what each was called with

poolVars == <<closed, cur, claimed, users, open, past>>
idVars == <<queryId, aliased>>
readVars == <<rpc, rmsg>>
vars == <<poolVars, ended, idVars, queries, armed, finishing, pc, local, ctxDone, readVars, wire, keepIdle, ops, answers>>

Pool == INSTANCE AbstractConnPool

Ids == 0 .. IdCount - 1
\* A query calls exchangeAsync once, and once more to retry a read error.
Calls == Queries \X {1, 2}
NoCall == [conn |-> NoConn, id |-> 0, created |-> FALSE, first |-> TRUE]
Pending == [query : Queries, conn : Conns, quiet : BOOLEAN, retry : BOOLEAN]
NoMessage == [id |-> 0, answer |-> NoQuery, taken |-> NoQuery]

ASSUME NoQueryAssumption == NoQuery \notin Pending

Init ==
    /\ Pool!Init
    /\ ended = [k \in Conns |-> "no"]
    /\ queryId = 0 /\ aliased = FALSE
    /\ queries = [i \in Ids |-> NoQuery]
    /\ armed = {} /\ finishing = {}
    /\ pc = [s \in Calls |-> "none"]
    /\ local = [s \in Calls |-> NoCall]
    /\ ctxDone = {}
    /\ rpc = [k \in Conns |-> "none"]
    /\ rmsg = [k \in Conns |-> NoMessage]
    /\ wire = {}
    /\ keepIdle = TRUE /\ ops = 0
    /\ answers = [q \in Queries |-> <<>>]

-----------------------------------------------------------------------------
(* Helpers                                                                 *)

Callback(q, result) == answers' = [answers EXCEPT ![q] = Append(@, result)]

\* The context that callback t waits for is done: t runs, and stop is too late.
Fired(t) == IF t.kind = "ctx" THEN t.query \in ctxDone ELSE ended[t.conn] # "no"

\* m.take: whoever removes the entry owns the query.
Take(id) ==
    /\ queries' = [queries EXCEPT ![id] = NoQuery]
    /\ armed' = {t \in armed : t.id # id \/ Fired(t)}

\* What m.connection.Invalidate does, and to the context of the connection.
Discard(k, cause) ==
    /\ Pool!Discard(k)
    /\ ended' = IF k = cur THEN [ended EXCEPT ![k] = cause] ELSE ended

\* m.closeIdleConnection
CloseIdle ==
    IF ~keepIdle /\ cur # NoConn /\ users = 0
    THEN Pool!DropIdle /\ ended' = [ended EXCEPT ![cur] = "other"]
    ELSE UNCHANGED <<poolVars, ended>>

Free == {i \in Ids : queries[i] = NoQuery}

\* Free IDs that some goroutine or a late answer still refers to.  register
\* does not avoid them: with 2^16 IDs they seldom come up again that soon.
Remembered ==
    Free \cap (    {local[s].id : s \in {x \in Calls : pc[x] = "write"}}
               \cup {t.id : t \in armed}
               \cup {w[2] : w \in wire}
               \cup {rmsg[k].id : k \in {x \in Conns : rpc[x] = "take"}})

Goto(s, label) == pc' = [pc EXCEPT ![s] = label]
Set(s, l) == local' = [local EXCEPT ![s] = l]

-----------------------------------------------------------------------------
(* exchangeAsync, for call s = <<q, attempt>> of query q                   *)

Exchange(q) ==
    /\ pc[<<q, 1>>] = "none"
    /\ Goto(<<q, 1>>, "acquire")
    /\ UNCHANGED <<poolVars, ended, idVars, queries, armed, finishing, local, ctxDone, readVars, wire, keepIdle, ops, answers>>

\* The pool dials a connection on behalf of the callers of AcquireShared.
Connect(k) ==
    /\ \E s \in Calls : pc[s] = "acquire"
    /\ Pool!Connect(k)
    /\ UNCHANGED <<ended, idVars, queries, armed, finishing, pc, local, ctxDone, readVars, wire, keepIdle, ops, answers>>

\* AcquireShared fails: the pool is closed, the context is done, or the dial failed.
AcquireError(s) ==
    /\ pc[s] = "acquire"
    /\ closed \/ s[1] \in ctxDone \/ cur = NoConn
    /\ Goto(s, "done")
    /\ Callback(s[1], NoQuery)
    /\ Set(s, NoCall)
    /\ UNCHANGED <<poolVars, ended, idVars, queries, armed, finishing, ctxDone, readVars, wire, keepIdle, ops>>

\* AcquireShared succeeds; the creator starts the read loop.
AcquireConn(s) ==
    /\ pc[s] = "acquire"
    /\ \E created \in BOOLEAN :
          /\ Pool!HandOut(created)
          /\ rpc' = IF created THEN [rpc EXCEPT ![cur] = "read"] ELSE rpc
          /\ Set(s, [local[s] EXCEPT !.conn = cur, !.created = created])
    /\ Goto(s, "register")
    /\ UNCHANGED <<ended, idVars, queries, armed, finishing, ctxDone, rmsg, wire, keepIdle, ops, answers>>

NextIdBlind == (queryId + 1) % IdCount     \* mutant: takes an ID that is in use

\* The first free ID after m.queryId, wrapping around.
NextId == CHOOSE i \in Free :
              \A j \in Free : (i + IdCount - queryId - 1) % IdCount <= (j + IdCount - queryId - 1) % IdCount

Register(s) ==
    /\ pc[s] = "register"
    /\ Free # {}
    /\ queryId' = NextId
    /\ aliased' = (aliased \/ NextId \in Remembered)
    /\ queries' = [queries EXCEPT ![NextId] =
                     [query |-> s[1], conn |-> local[s].conn, quiet |-> TRUE,
                      retry |-> s[2] = 1 /\ RetryReadError /\ ~local[s].created]]
    /\ armed' = armed \cup {[kind |-> x, id |-> NextId, query |-> s[1], conn |-> local[s].conn] : x \in {"ctx", "conn"}}
    /\ Set(s, [local[s] EXCEPT !.id = NextId])
    /\ Goto(s, "write")
    /\ UNCHANGED <<poolVars, ended, finishing, ctxDone, readVars, wire, keepIdle, ops, answers>>

\* No ID is available: give the connection back and report the error.
RegisterError(s) ==
    /\ pc[s] = "register"
    /\ Free = {}
    /\ Pool!GiveBack(local[s].conn)
    /\ Goto(s, "idle")
    /\ UNCHANGED <<ended, idVars, queries, armed, finishing, local, ctxDone, readVars, wire, keepIdle, ops, answers>>

RegisterErrorIdle(s) ==
    /\ pc[s] = "idle"
    /\ CloseIdle
    /\ Callback(s[1], NoQuery)
    /\ Goto(s, "done")
    /\ Set(s, NoCall)
    /\ UNCHANGED <<idVars, queries, armed, finishing, ctxDone, readVars, wire, keepIdle, ops>>

\* options.write returns nil, on a connection that is still open.
Write(s) ==
    /\ pc[s] = "write"
    /\ local[s].conn \in open
    /\ wire' = wire \cup {<<local[s].conn, local[s].id, s[1]>>}
    /\ Goto(s, "done")
    /\ Set(s, NoCall)
    /\ UNCHANGED <<poolVars, ended, idVars, queries, armed, finishing, ctxDone, readVars, keepIdle, ops, answers>>

WriteErrorAlways(s) ==   \* mutant: does not look at what take returned
    /\ pc[s] = "write"
    /\ Goto(s, "broken")
    /\ Take(local[s].id)
    /\ UNCHANGED <<poolVars, ended, idVars, finishing, local, ctxDone, readVars, wire, keepIdle, ops, answers>>

\* options.write fails; take returns nil if somebody else completed the query.
WriteError(s) ==
    /\ pc[s] = "write"
    /\ Goto(s, IF queries[local[s].id] = NoQuery THEN "lost" ELSE "broken")
    /\ Take(local[s].id)
    /\ UNCHANGED <<poolVars, ended, idVars, finishing, local, ctxDone, readVars, wire, keepIdle, ops, answers>>

InvalidateLost(s) ==
    /\ pc[s] = "lost"
    /\ Discard(local[s].conn, "other")
    /\ Goto(s, "done")
    /\ Set(s, NoCall)
    /\ UNCHANGED <<idVars, queries, armed, finishing, ctxDone, readVars, wire, keepIdle, ops, answers>>

\* A query that found a connection somebody else created is retried once.
InvalidateBroken(s) ==
    /\ pc[s] = "broken"
    /\ Discard(local[s].conn, "other")
    /\ IF ~local[s].created /\ local[s].first
       THEN /\ Goto(s, "acquire")
            /\ Set(s, [NoCall EXCEPT !.first = FALSE])
            /\ UNCHANGED answers
       ELSE /\ Callback(s[1], NoQuery)
            /\ Goto(s, "done")
            /\ Set(s, NoCall)
    /\ UNCHANGED <<idVars, queries, armed, finishing, ctxDone, readVars, wire, keepIdle, ops>>

-----------------------------------------------------------------------------
(* The context.AfterFunc callbacks of a registered query                   *)

\* Somebody else has taken the query already.
TimerLate(t) ==
    /\ t \in armed /\ Fired(t) /\ queries[t.id] = NoQuery
    /\ armed' = armed \ {t}
    /\ UNCHANGED <<poolVars, ended, idVars, queries, finishing, pc, local, ctxDone, readVars, wire, keepIdle, ops, answers>>

TakeBy(t) ==
    /\ t \in armed /\ Fired(t) /\ queries[t.id] # NoQuery
    /\ queries' = [queries EXCEPT ![t.id] = NoQuery]
    /\ armed' = {u \in armed : u.id # t.id \/ Fired(u)} \ {t}

\* The context was cancelled, or its deadline exceeded: then a connection
\* that has been silent since the query was sent is given up.
CompleteContextDone(t) ==
    /\ t.kind = "ctx"
    /\ TakeBy(t)
    /\ \E deadlineExceeded \in BOOLEAN :
          LET pending == queries[t.id]
          IN  finishing' = finishing \cup {[step |-> "pool", query |-> pending.query, conn |-> pending.conn,
                                            drop |-> deadlineExceeded /\ pending.quiet]}
    /\ UNCHANGED <<poolVars, ended, idVars, pc, local, ctxDone, readVars, wire, keepIdle, ops, answers>>

FinishPool(f) ==
    /\ f \in finishing /\ f.step = "pool"
    /\ IF f.drop THEN Discard(f.conn, "other") ELSE Pool!GiveBack(f.conn) /\ UNCHANGED ended
    /\ Callback(f.query, NoQuery)
    /\ finishing' = (finishing \ {f}) \cup {[f EXCEPT !.step = "idle"]}
    /\ UNCHANGED <<idVars, queries, armed, pc, local, ctxDone, readVars, wire, keepIdle, ops>>

FinishIdle(f) ==
    /\ f \in finishing /\ f.step = "idle"
    /\ CloseIdle
    /\ finishing' = finishing \ {f}
    /\ UNCHANGED <<idVars, queries, armed, pc, local, ctxDone, readVars, wire, keepIdle, ops, answers>>

CompleteConnDoneRetries(t) ==   \* mutant: only handles the read error
    /\ t.kind = "conn"
    /\ TakeBy(t)
    /\ LET pending == queries[t.id]
       IN  IF pending.retry /\ ended[t.conn] = "read"
           THEN Goto(<<pending.query, 2>>, "acquire")
           ELSE UNCHANGED pc
    /\ UNCHANGED <<poolVars, ended, idVars, finishing, local, ctxDone, readVars, wire, keepIdle, ops, answers>>

\* The connection is gone: retry when it was a read error, or report it.
CompleteConnDone(t) ==
    /\ t.kind = "conn"
    /\ TakeBy(t)
    /\ LET pending == queries[t.id]
       IN  IF pending.retry /\ ended[t.conn] = "read"
           THEN Goto(<<pending.query, 2>>, "acquire") /\ UNCHANGED answers
           ELSE Callback(pending.query, NoQuery) /\ UNCHANGED pc
    /\ UNCHANGED <<poolVars, ended, idVars, finishing, local, ctxDone, readVars, wire, keepIdle, ops>>

-----------------------------------------------------------------------------
(* recvLoop                                                                *)

\* Every message that arrives marks the connection as responsive.
Heard(k) == [i \in Ids |-> IF queries[i] # NoQuery /\ queries[i].conn = k
                           THEN [queries[i] EXCEPT !.quiet = FALSE] ELSE queries[i]]

ReadMessage(k) ==
    /\ rpc[k] = "read" /\ k \in open
    /\ queries' = Heard(k)
    /\ \E w \in wire :       \* w stays: a duplicate may follow
          /\ w[1] = k
          /\ rmsg' = [rmsg EXCEPT ![k] = [id |-> w[2], answer |-> w[3], taken |-> NoQuery]]
    /\ rpc' = [rpc EXCEPT ![k] = "take"]
    /\ UNCHANGED <<poolVars, ended, idVars, armed, finishing, pc, local, ctxDone, wire, keepIdle, ops, answers>>

\* A datagram that is not a DNS message.
ReadGarbage(k) ==
    /\ rpc[k] = "read" /\ k \in open
    /\ queries' = Heard(k)
    /\ UNCHANGED <<poolVars, ended, idVars, armed, finishing, pc, local, ctxDone, readVars, wire, keepIdle, ops, answers>>

ReadError(k) ==
    /\ rpc[k] = "read"
    /\ Discard(k, "read")
    /\ rpc' = [rpc EXCEPT ![k] = "dead"]
    /\ wire' = {w \in wire : w[1] # k}          \* nobody reads them any more
    /\ UNCHANGED <<idVars, queries, armed, finishing, pc, local, ctxDone, rmsg, keepIdle, ops, answers>>

Complete(k) ==
    /\ rpc[k] = "take"
    /\ LET pending == queries[rmsg[k].id]
       IN  IF pending = NoQuery
           THEN /\ rpc' = [rpc EXCEPT ![k] = "read"]
                /\ rmsg' = [rmsg EXCEPT ![k] = NoMessage]
                /\ UNCHANGED <<queries, armed>>
           ELSE /\ rpc' = [rpc EXCEPT ![k] = "release"]
                /\ rmsg' = [rmsg EXCEPT ![k].taken = pending]
                /\ Take(rmsg[k].id)
    /\ UNCHANGED <<poolVars, ended, idVars, finishing, pc, local, ctxDone, wire, keepIdle, ops, answers>>

CompleteUnreleased(k) ==   \* mutant: the connection is not given back
    /\ rpc[k] = "release"
    /\ Callback(rmsg[k].taken.query, rmsg[k].answer)
    /\ rpc' = [rpc EXCEPT ![k] = "idle"]
    /\ rmsg' = [rmsg EXCEPT ![k] = NoMessage]
    /\ UNCHANGED <<poolVars, ended, idVars, queries, armed, finishing, pc, local, ctxDone, wire, keepIdle, ops>>

CompleteRelease(k) ==
    /\ rpc[k] = "release"
    /\ Pool!GiveBack(rmsg[k].taken.conn)
    /\ Callback(rmsg[k].taken.query, rmsg[k].answer)
    /\ rpc' = [rpc EXCEPT ![k] = "idle"]
    /\ rmsg' = [rmsg EXCEPT ![k] = NoMessage]
    /\ UNCHANGED <<ended, idVars, queries, armed, finishing, pc, local, ctxDone, wire, keepIdle, ops>>

CompleteIdle(k) ==
    /\ rpc[k] = "idle"
    /\ CloseIdle
    /\ rpc' = [rpc EXCEPT ![k] = "read"]
    /\ UNCHANGED <<idVars, queries, armed, finishing, pc, local, ctxDone, rmsg, wire, keepIdle, ops, answers>>

-----------------------------------------------------------------------------
(* The owner of the multiplexer, and the environment                       *)

Operate == ops < MaxOps /\ ops' = ops + 1

\* SetKeepIdleConnections: store, then closeIdleConnection.
SetKeepIdle(keep) ==
    /\ Operate
    /\ ~(keep /\ keepIdle)          \* which changes nothing
    /\ keepIdle' = keep
    /\ IF ~keep /\ cur # NoConn /\ users = 0
       THEN Pool!DropIdle /\ ended' = [ended EXCEPT ![cur] = "other"]
       ELSE UNCHANGED <<poolVars, ended>>
    /\ UNCHANGED <<idVars, queries, armed, finishing, pc, local, ctxDone, readVars, wire, answers>>

CloseIdleConnections ==
    /\ Operate
    /\ cur # NoConn
    /\ Pool!DropIdle /\ ended' = [ended EXCEPT ![cur] = "other"]
    /\ UNCHANGED <<idVars, queries, armed, finishing, pc, local, ctxDone, readVars, wire, keepIdle, answers>>

Reset ==
    /\ Operate
    /\ cur # NoConn /\ Pool!Reset
    /\ UNCHANGED <<ended, idVars, queries, armed, finishing, pc, local, ctxDone, readVars, wire, keepIdle, answers>>

Close ==
    /\ Operate
    /\ Pool!Close
    /\ UNCHANGED <<ended, idVars, queries, armed, finishing, pc, local, ctxDone, readVars, wire, keepIdle, answers>>

\* closeState on the connection that Reset or Close left behind.
EndPast(k) ==
    /\ k \in past /\ ended[k] = "no"
    /\ ended' = [ended EXCEPT ![k] = "other"]
    /\ UNCHANGED <<poolVars, idVars, queries, armed, finishing, pc, local, ctxDone, readVars, wire, keepIdle, ops, answers>>

ClosePast(k) ==
    /\ k \in past \cap open /\ ended[k] # "no"
    /\ open' = open \ {k}
    /\ UNCHANGED <<closed, cur, claimed, users, past, ended, idVars, queries, armed, finishing, pc, local, ctxDone,
                   readVars, wire, keepIdle, ops, answers>>

EndContext(q) ==
    /\ q \notin ctxDone /\ pc[<<q, 1>>] # "none" /\ answers[q] = <<>>
    /\ ctxDone' = ctxDone \cup {q}
    /\ UNCHANGED <<poolVars, ended, idVars, queries, armed, finishing, pc, local, readVars, wire, keepIdle, ops, answers>>

\* An answer never comes.
Lose(w) ==
    /\ w \in wire
    /\ wire' = wire \ {w}
    /\ UNCHANGED <<poolVars, ended, idVars, queries, armed, finishing, pc, local, ctxDone, readVars, keepIdle, ops, answers>>

CallStep(s) ==
    \/ AcquireError(s) \/ AcquireConn(s) \/ Register(s) \/ RegisterError(s) \/ RegisterErrorIdle(s)
    \/ Write(s) \/ WriteError(s) \/ InvalidateLost(s) \/ InvalidateBroken(s)

TimerStep == \E t \in armed : TimerLate(t) \/ CompleteContextDone(t) \/ CompleteConnDone(t)
FinishStep == \E f \in finishing : FinishPool(f) \/ FinishIdle(f)
CompleteStep(k) == Complete(k) \/ CompleteRelease(k) \/ CompleteIdle(k)

Next ==
    \/ \E q \in Queries : Exchange(q) \/ EndContext(q)
    \/ \E s \in Calls : CallStep(s)
    \/ TimerStep \/ FinishStep
    \/ \E k \in Conns : Connect(k) \/ ReadMessage(k) \/ ReadGarbage(k) \/ ReadError(k) \/ CompleteStep(k)
                        \/ EndPast(k) \/ ClosePast(k)
    \/ \E keep \in BOOLEAN : SetKeepIdle(keep)
    \/ CloseIdleConnections \/ Reset \/ Close
    \/ \E w \in wire : Lose(w)

\* Goroutines that can run do run; the DNS client gives every query a
\* deadline.
Fairness ==
    /\ \A s \in Calls : WF_vars(CallStep(s))
    /\ WF_vars(TimerStep) /\ WF_vars(FinishStep)
    /\ \A k \in Conns : WF_vars(CompleteStep(k)) /\ WF_vars(EndPast(k)) /\ WF_vars(ClosePast(k))
    /\ \A q \in Queries : WF_vars(EndContext(q))

Spec == Init /\ [][Next]_vars /\ Fairness

-----------------------------------------------------------------------------
(* Properties                                                              *)
(*                                                                         *)
(* All of them are about behaviours in which no ID has been aliased.  The  *)
(* code identifies a query by its ID alone, so a goroutine that is late by *)
(* 2^16 registrations takes a query that is not its own, and none of them  *)
(* holds from there on.                                                    *)

\* The goroutines and map entries that are going to call a callback.
Tokens ==
    ({"call"} \X {s \in Calls : pc[s] \in {"acquire", "register", "broken", "idle"}})
    \cup ({"entry"} \X {i \in Ids : queries[i] # NoQuery})
    \cup ({"finish"} \X {f \in finishing : f.step = "pool"})
    \cup ({"loop"} \X {k \in Conns : rpc[k] = "release"})

QueryOf(o) ==
    CASE o[1] = "call" -> o[2][1]
      [] o[1] = "entry" -> queries[o[2]].query
      [] o[1] = "finish" -> o[2].query
      [] o[1] = "loop" -> rmsg[o[2]].taken.query

\* The connection that a token is going to give back, if it has one.
ConnOf(o) ==
    CASE o[1] = "call" -> IF pc[o[2]] \in {"register", "broken"} THEN local[o[2]].conn ELSE NoConn
      [] o[1] = "entry" -> queries[o[2]].conn
      [] o[1] = "finish" -> o[2].conn
      [] o[1] = "loop" -> rmsg[o[2]].taken.conn

Owners(q) == {o \in Tokens : QueryOf(o) = q}
Holders(k) == {o \in Tokens : ConnOf(o) = k}

\* A query that was started has exactly one owner until its callback is
\* called, and none afterwards: no response, timeout, connection failure,
\* write error or retry calls it twice or loses it.
OneOwner ==
    ~aliased => \A q \in Queries :
        Cardinality(Owners(q)) + Len(answers[q]) = IF pc[<<q, 1>>] = "none" THEN 0 ELSE 1

\* A callback only gets the answer to its own query, also when answers are
\* late or come twice, or IDs wrap around.
AnswersMatch ==
    ~aliased => \A q \in Queries : \A i \in 1 .. Len(answers[q]) : answers[q][i] \in {q, NoQuery}

\* sharedUsers of the current connection counts exactly those that are going
\* to give it back, so that a release is neither forgotten nor doubled.
UsersAccounted ==
    ~aliased /\ cur # NoConn => users = Cardinality(Holders(cur))

\* Every query that was started is called back, unless an ID is aliased.
EveryQueryAnswered ==
    \A q \in Queries : pc[<<q, 1>>] # "none" ~> Len(answers[q]) > 0 \/ aliased
=============================================================================
