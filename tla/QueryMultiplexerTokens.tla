----------------------- MODULE QueryMultiplexerTokens -----------------------
(***************************************************************************)
(* QueryMultiplexer, for any number of queries, connections, IDs and       *)
(* operations of the owner: the inductive invariant, and that a step keeps *)
(* what it says of callbacks, IDs, retries and answers.                    *)
(*                                                                         *)
(* The argument follows the tokens: whoever is going to call a callback.   *)
(* Every action leaves the tokens alone, makes one, hands one on or lets   *)
(* one call its callback, and one lemma per action says which.  That the   *)
(* token an action hands on is the one it means rests on what every        *)
(* goroutine that remembers an ID knows about the entry with that ID.      *)
(***************************************************************************)
EXTENDS QueryMultiplexer, WellFoundedInduction, TLAPS

Labels == {"none", "acquire", "register", "write", "lost", "broken", "idle", "done"}
Local == [conn : Conns \cup {NoConn}, id : Ids, created : BOOLEAN, first : BOOLEAN]
Timer == [kind : {"ctx", "conn"}, id : Ids, query : Queries, conn : Conns]
Finish == [step : {"pool", "idle"}, query : Queries, conn : Conns, drop : BOOLEAN]
Message == [id : Ids, answer : Queries \cup {NoQuery}, taken : Pending \cup {NoQuery}]

TypeOK ==
    /\ cur \in Conns \cup {NoConn} /\ users \in Nat /\ past \subseteq Conns
    /\ ended \in [Conns -> {"no", "read", "other"}]
    /\ queryId \in Ids
    /\ queries \in [Ids -> Pending \cup {NoQuery}]
    /\ armed \subseteq Timer
    /\ finishing \subseteq Finish
    /\ pc \in [Calls -> Labels]
    /\ local \in [Calls -> Local]
    /\ rpc \in [Conns -> {"none", "read", "take", "release", "idle", "dead"}]
    /\ rmsg \in [Conns -> Message]
    /\ wire \subseteq Conns \X Ids \X Queries
    /\ answers \in [Queries -> Seq(Queries \cup {NoQuery})]

\* What a goroutine has when it is at a certain point.
LocalInv ==
    /\ \A s \in Calls : pc[s] \in {"register", "write", "lost", "broken"} => local[s].conn \in Conns
    /\ \A k \in Conns : rpc[k] = "take" => rmsg[k].answer \in Queries
    /\ \A k \in Conns : rpc[k] = "release" => rmsg[k].answer \in Queries /\ rmsg[k].taken \in Pending

\* The pool: a connection whose context is done has been the current one, and
\* one that has a read loop is one that somebody has been told to have created.
PoolInv ==
    /\ cur \notin past
    /\ cur = NoConn => users = 0
    /\ \A k \in Conns : ended[k] # "no" => k \in past
    /\ \A k \in Conns : rpc[k] # "none" => k \in past \/ (k = cur /\ claimed)

KnownConns == \A o \in Tokens : ConnOf(o) \in past \cup {cur, NoConn}

\* Entry id is gone, or is that of query q on connection k.
Its(id, q, k) == queries[id] # NoQuery => queries[id].query = q /\ queries[id].conn = k

\* Whoever remembers an ID finds its own query under it, or nothing.
IdInv ==
    /\ \A s \in Calls : pc[s] = "write" => Its(local[s].id, s[1], local[s].conn)
    /\ \A t \in armed : Its(t.id, t.query, t.conn)
    /\ \A w \in wire : queries[w[2]] # NoQuery => queries[w[2]].query = w[3]
    /\ \A k \in Conns : rpc[k] = "take" /\ queries[rmsg[k].id] # NoQuery =>
                            queries[rmsg[k].id].query = rmsg[k].answer
    /\ \A k \in Conns : rpc[k] = "release" => rmsg[k].taken.query = rmsg[k].answer

\* The second call of a query is not made before the first one has come to
\* nothing.
RetryInv ==
    /\ \A q \in Queries : pc[<<q, 1>>] \in {"none", "acquire", "register", "broken", "idle"} => pc[<<q, 2>>] = "none"
    /\ \A i \in Ids : queries[i] # NoQuery /\ queries[i].retry => pc[<<queries[i].query, 2>>] = "none"
    /\ \A q \in Queries : pc[<<q, 1>>] = "write" /\ queries[local[<<q, 1>>].id] # NoQuery => pc[<<q, 2>>] = "none"

\* A query is not started, has been called back, or has one owner.
Owned(q) ==
    IF pc[<<q, 1>>] = "none" THEN Owners(q) = {} /\ answers[q] = <<>>
    ELSE \/ Owners(q) = {} /\ Len(answers[q]) = 1
         \/ answers[q] = <<>> /\ \E o \in Tokens : Owners(q) = {o}

OwnerInv == \A q \in Queries : Owned(q)

\* AnswersMatch and UsersAccounted, of a state in which no ID has been aliased.
Matched == \A q \in Queries : \A i \in 1 .. Len(answers[q]) : answers[q][i] \in {q, NoQuery}
Counted == cur # NoConn => users = Cardinality(Holders(cur))

Core ==
    /\ TypeOK /\ LocalInv /\ PoolInv /\ KnownConns
    /\ IsFiniteSet(Tokens)
    /\ IdInv /\ RetryInv /\ OwnerInv
    /\ Matched /\ Counted

Inv == ~aliased => Core

-----------------------------------------------------------------------------
(* Tokens                                                                  *)

Waiting == {"acquire", "register", "broken", "idle"}

\* The four kinds of tokens.
LEMMA TokenIs ==
  /\ \A s : <<"call", s>> \in Tokens <=> s \in Calls /\ pc[s] \in Waiting
  /\ \A i : <<"entry", i>> \in Tokens <=> i \in Ids /\ queries[i] # NoQuery
  /\ \A f : <<"finish", f>> \in Tokens <=> f \in finishing /\ f.step = "pool"
  /\ \A k : <<"loop", k>> \in Tokens <=> k \in Conns /\ rpc[k] = "release"
  /\ \A o \in Tokens : o[1] \in {"call", "entry", "finish", "loop"} /\ o = <<o[1], o[2]>>
BY DEF Tokens, Waiting

\* The same after the step.
LEMMA TokenIsNext ==
  /\ \A s : <<"call", s>> \in Tokens' <=> s \in Calls /\ pc'[s] \in Waiting
  /\ \A i : <<"entry", i>> \in Tokens' <=> i \in Ids /\ queries'[i] # NoQuery
  /\ \A f : <<"finish", f>> \in Tokens' <=> f \in finishing' /\ f.step = "pool"
  /\ \A k : <<"loop", k>> \in Tokens' <=> k \in Conns /\ rpc'[k] = "release"
  /\ \A o \in Tokens' : o[1] \in {"call", "entry", "finish", "loop"} /\ o = <<o[1], o[2]>>
BY DEF Tokens, Waiting, Calls, Ids

\* The query and the connection of each.
LEMMA TokenHas ==
  /\ \A s : /\ QueryOf(<<"call", s>>) = s[1]
            /\ ConnOf(<<"call", s>>) = IF pc[s] \in {"register", "broken"} THEN local[s].conn ELSE NoConn
  /\ \A i : QueryOf(<<"entry", i>>) = queries[i].query /\ ConnOf(<<"entry", i>>) = queries[i].conn
  /\ \A f : QueryOf(<<"finish", f>>) = f.query /\ ConnOf(<<"finish", f>>) = f.conn
  /\ \A k : QueryOf(<<"loop", k>>) = rmsg[k].taken.query /\ ConnOf(<<"loop", k>>) = rmsg[k].taken.conn
BY DEF QueryOf, ConnOf

\* The same after the step.
LEMMA TokenHasNext ==
  /\ \A s : /\ QueryOf(<<"call", s>>)' = s[1]
            /\ ConnOf(<<"call", s>>)' = IF pc'[s] \in {"register", "broken"} THEN local'[s].conn ELSE NoConn
  /\ \A i : QueryOf(<<"entry", i>>)' = queries'[i].query /\ ConnOf(<<"entry", i>>)' = queries'[i].conn
  /\ \A f : QueryOf(<<"finish", f>>)' = f.query /\ ConnOf(<<"finish", f>>)' = f.conn
  /\ \A k : QueryOf(<<"loop", k>>)' = rmsg'[k].taken.query /\ ConnOf(<<"loop", k>>)' = rmsg'[k].taken.conn
BY DEF QueryOf, ConnOf

\* Only what belongs to the tokens in X changes.
Same(X) ==
    /\ \A s \in Calls : \/ <<"call", s>> \in X
                        \/ pc[s] \notin Waiting /\ pc'[s] \notin Waiting
                        \/ pc'[s] = pc[s] /\ local'[s] = local[s]
    /\ \A i \in Ids : \/ <<"entry", i>> \in X
                      \/ queries'[i] = queries[i]
                      \/ /\ queries[i] # NoQuery /\ queries'[i] # NoQuery
                         /\ queries'[i].query = queries[i].query /\ queries'[i].conn = queries[i].conn
    /\ \A f : <<"finish", f>> \in X \/ f.step # "pool" \/ (f \in finishing' <=> f \in finishing)
    /\ \A k \in Conns : \/ <<"loop", k>> \in X
                        \/ rpc[k] # "release" /\ rpc'[k] # "release"
                        \/ rpc'[k] = rpc[k] /\ rmsg'[k] = rmsg[k]

\* The tokens outside X are the same, with the same query and connection.
Others(X) ==
    /\ Tokens' \ X = Tokens \ X
    /\ \A o \in Tokens \ X : QueryOf(o)' = QueryOf(o) /\ ConnOf(o)' = ConnOf(o)

\* Where only what belongs to X changes, the tokens outside X stay.
LEMMA SameOthers == ASSUME NEW X, Same(X) PROVE Others(X)
<1>1. ASSUME NEW o, o \notin X PROVE o \in Tokens' <=> o \in Tokens
  <2>1. ASSUME NEW s, o = <<"call", s>> PROVE o \in Tokens' <=> o \in Tokens
    BY <1>1, <2>1, TokenIs, TokenIsNext DEF Same
  <2>2. ASSUME NEW i, o = <<"entry", i>> PROVE o \in Tokens' <=> o \in Tokens
    BY <1>1, <2>2, TokenIs, TokenIsNext DEF Same
  <2>3. ASSUME NEW f, o = <<"finish", f>> PROVE o \in Tokens' <=> o \in Tokens
    BY <1>1, <2>3, TokenIs, TokenIsNext DEF Same
  <2>4. ASSUME NEW k, o = <<"loop", k>> PROVE o \in Tokens' <=> o \in Tokens
    BY <1>1, <2>4, TokenIs, TokenIsNext DEF Same
  <2> QED BY <2>1, <2>2, <2>3, <2>4, TokenIs, TokenIsNext
<1>2. ASSUME NEW o \in Tokens, o \notin X PROVE QueryOf(o)' = QueryOf(o) /\ ConnOf(o)' = ConnOf(o)
  <2>1. ASSUME NEW s, o = <<"call", s>> PROVE QueryOf(o)' = QueryOf(o) /\ ConnOf(o)' = ConnOf(o)
    BY <1>2, <2>1, TokenIs, TokenHas, TokenHasNext DEF Same
  <2>2. ASSUME NEW i, o = <<"entry", i>> PROVE QueryOf(o)' = QueryOf(o) /\ ConnOf(o)' = ConnOf(o)
    BY <1>2, <2>2, TokenIs, TokenHas, TokenHasNext DEF Same
  <2>3. ASSUME NEW f, o = <<"finish", f>> PROVE QueryOf(o)' = QueryOf(o) /\ ConnOf(o)' = ConnOf(o)
    BY <1>2, <2>3, TokenIs, TokenHas, TokenHasNext DEF Same
  <2>4. ASSUME NEW k, o = <<"loop", k>> PROVE QueryOf(o)' = QueryOf(o) /\ ConnOf(o)' = ConnOf(o)
    BY <1>2, <2>4, TokenIs, TokenHas, TokenHasNext DEF Same
  <2> QED BY <2>1, <2>2, <2>3, <2>4, TokenIs
<1> QED BY <1>1, <1>2 DEF Others

\* The steps that leave every token alone.
LEMMA StillTokens == ASSUME UNCHANGED <<pc, local, queries, finishing, rpc, rmsg>> PROVE Others({})
<1>1. Same({}) BY DEF Same
<1> QED BY <1>1, SameOthers

\* Read loops hear an answer, fail or go on; nothing that they do touches a
\* token, except that Complete takes one.
LEMMA ReadTokens ==
  ASSUME TypeOK, NEW k \in Conns, ReadMessage(k) \/ ReadGarbage(k) \/ ReadError(k) \/ CompleteIdle(k)
  PROVE  Others({})
<1>1. UNCHANGED <<pc, local, finishing>> BY DEF ReadMessage, ReadGarbage, ReadError, CompleteIdle
<1>2. queries' = queries \/ queries' = Heard(k) BY DEF ReadMessage, ReadGarbage, ReadError, CompleteIdle
<1>3. \A i \in Ids : queries'[i] = queries[i]
        \/ /\ queries[i] # NoQuery /\ queries'[i] # NoQuery
           /\ queries'[i].query = queries[i].query /\ queries'[i].conn = queries[i].conn
  <2> SUFFICES ASSUME NEW i \in Ids, queries' = Heard(k), queries'[i] # queries[i]
               PROVE /\ queries[i] # NoQuery /\ queries'[i] # NoQuery
                     /\ queries'[i].query = queries[i].query /\ queries'[i].conn = queries[i].conn
    BY <1>2
  <2>1. queries[i] # NoQuery /\ queries'[i] = [queries[i] EXCEPT !.quiet = FALSE] BY DEF Heard
  <2>2. queries[i] \in Pending BY <2>1 DEF TypeOK
  <2>3. queries'[i] \in Pending BY <2>1, <2>2, Zenon DEF Pending
  <2> QED BY <2>1, <2>2, <2>3, NoQueryAssumption, Zenon DEF Pending
<1>4. \A x \in Conns : \/ rpc'[x] = rpc[x] /\ rmsg'[x] = rmsg[x]
                       \/ rpc[x] # "release" /\ rpc'[x] # "release"
  BY DEF TypeOK, ReadMessage, ReadGarbage, ReadError, CompleteIdle, readVars
<1>5. Same({}) BY <1>1, <1>3, <1>4 DEF Same
<1> QED BY <1>5, SameOthers

\* What else can happen to a token.
Appears(b) == b \notin Tokens /\ b \in Tokens' /\ Others({b})
Leaves(a) == a \in Tokens /\ a \notin Tokens' /\ Others({a})
Stays(a) == a \in Tokens /\ a \in Tokens' /\ QueryOf(a)' = QueryOf(a) /\ Others({a})
HandsOn(a, b) ==
    /\ a \in Tokens /\ a \notin Tokens' /\ b \notin Tokens /\ b \in Tokens'
    /\ QueryOf(b)' = QueryOf(a)
    /\ Others({a, b})

\* A step of call s changes no other call.
LEMMA CallFrame ==
  ASSUME TypeOK, NEW s \in Calls, NEW label, Goto(s, label)
  PROVE  pc'[s] = label /\ \A x \in Calls \ {s} : pc'[x] = pc[x]
BY DEF TypeOK, Goto

\* Nor does it change what another call remembers.
LEMMA LocalFrame ==
  ASSUME TypeOK, NEW s \in Calls, NEW l, Set(s, l)
  PROVE  local'[s] = l /\ \A x \in Calls \ {s} : local'[x] = local[x]
BY DEF TypeOK, Set

\* Exchange makes the token of a first call, which has no connection yet.
LEMMA ExchangeTokens ==
  ASSUME TypeOK, NEW q \in Queries, Exchange(q)
  PROVE  LET b == <<"call", <<q, 1>>>> IN Appears(b) /\ QueryOf(b)' = q /\ ConnOf(b)' = NoConn
<1>1. PICK s \in Calls : s = <<q, 1>> BY Zenon DEF Calls
<1>2. pc[s] = "none" /\ pc'[s] = "acquire" /\ \A x \in Calls \ {s} : pc'[x] = pc[x]
  BY <1>1, CallFrame DEF Exchange
<1>3. UNCHANGED <<local, queries, finishing, rpc, rmsg>> BY DEF Exchange, readVars
<1>4. Same({<<"call", s>>}) BY <1>2, <1>3 DEF Same
<1>5. <<"call", s>> \notin Tokens /\ <<"call", s>> \in Tokens' BY <1>2, TokenIs, TokenIsNext DEF Waiting
<1>6. QueryOf(<<"call", s>>)' = q /\ ConnOf(<<"call", s>>)' = NoConn BY <1>1, <1>2, TokenHasNext
<1> QED BY <1>1, <1>4, <1>5, <1>6, SameOthers DEF Appears

\* Without a connection the call calls back.
LEMMA AcquireErrorTokens ==
  ASSUME TypeOK, NEW s \in Calls, AcquireError(s)
  PROVE  Leaves(<<"call", s>>) /\ QueryOf(<<"call", s>>) = s[1] /\ ConnOf(<<"call", s>>) = NoConn
<1>1. pc[s] = "acquire" /\ pc'[s] = "done" /\ \A x \in Calls \ {s} : pc'[x] = pc[x] BY CallFrame DEF AcquireError
<1>2. \A x \in Calls \ {s} : local'[x] = local[x] BY LocalFrame DEF AcquireError
<1>3. UNCHANGED <<queries, finishing, rpc, rmsg>> BY DEF AcquireError, readVars
<1>4. Same({<<"call", s>>}) BY <1>1, <1>2, <1>3 DEF Same
<1>5. <<"call", s>> \in Tokens /\ <<"call", s>> \notin Tokens' BY <1>1, TokenIs, TokenIsNext DEF Waiting
<1> QED BY <1>1, <1>4, <1>5, SameOthers, TokenHas DEF Leaves

\* A call that gets the current connection keeps its token and holds it.
LEMMA AcquireConnTokens ==
  ASSUME TypeOK, PoolInv, NEW s \in Calls, AcquireConn(s)
  PROVE  Stays(<<"call", s>>) /\ ConnOf(<<"call", s>>) = NoConn /\ ConnOf(<<"call", s>>)' = cur
<1>1. pc[s] = "acquire" /\ pc'[s] = "register" /\ \A x \in Calls \ {s} : pc'[x] = pc[x] BY CallFrame DEF AcquireConn
<1>2. PICK created \in BOOLEAN : /\ rpc' = IF created THEN [rpc EXCEPT ![cur] = "read"] ELSE rpc
                                 /\ Set(s, [local[s] EXCEPT !.conn = cur, !.created = created])
                                 /\ cur # NoConn /\ created = ~claimed
  BY Zenon DEF AcquireConn, Pool!HandOut
<1>3. local'[s] = [local[s] EXCEPT !.conn = cur, !.created = created] /\ \A x \in Calls \ {s} : local'[x] = local[x]
  BY <1>2, LocalFrame
<1>4. local[s] \in Local BY DEF TypeOK
<1>5. local'[s].conn = cur BY <1>3, <1>4 DEF Local
<1>6. UNCHANGED <<queries, finishing, rmsg>> BY DEF AcquireConn
<1>7. \A k \in Conns : rpc'[k] = rpc[k] \/ (k = cur /\ created /\ rpc'[k] = "read") BY <1>2 DEF TypeOK
<1>8. created => rpc[cur] = "none" BY <1>2, Zenon DEF PoolInv, TypeOK
<1>9. Same({<<"call", s>>}) BY <1>1, <1>3, <1>6, <1>7, <1>8 DEF Same
<1>10. <<"call", s>> \in Tokens /\ <<"call", s>> \in Tokens' BY <1>1, TokenIs, TokenIsNext DEF Waiting
<1>11. QueryOf(<<"call", s>>)' = QueryOf(<<"call", s>>) BY TokenHas, TokenHasNext
<1>12. ConnOf(<<"call", s>>) = NoConn /\ ConnOf(<<"call", s>>)' = cur BY <1>1, <1>5, TokenHas, TokenHasNext
<1> QED BY <1>9, <1>10, <1>11, <1>12, SameOthers DEF Stays

\* A set of naturals has a least member.
LEMMA LeastNatural == ASSUME NEW S, S \subseteq Nat, S # {} PROVE \E m \in S : \A n \in S : m <= n
<1>1. PICK m \in S : \A n \in S : ~ (<<n, m>> \in OpToRel(<, Nat)) BY NatLessThanWellFounded, WFMin, Zenon
<1>2. \A n \in S : ~ (n < m)
  <2> SUFFICES ASSUME NEW n \in S, n < m PROVE <<n, m>> \in OpToRel(<, Nat) BY <1>1, Zenon
  <2> QED BY DEF OpToRel
<1>3. \A n \in S : m <= n BY <1>2
<1> QED BY <1>3

\* register finds the first free ID: the distances from queryId have a least one.
LEMMA NextIdFree == ASSUME TypeOK, Free # {} PROVE NextId \in Free
<1> DEFINE D(i) == (i + IdCount - queryId - 1) % IdCount
           S == {D(i) : i \in Free}
<1>1. \A i \in Ids : D(i) \in Nat
  <2> SUFFICES ASSUME NEW i \in Ids PROVE D(i) \in Nat OBVIOUS
  <2>1. i + IdCount - queryId - 1 \in Int BY MultiplexerAssumption DEF TypeOK, Ids
  <2> QED BY <2>1, MultiplexerAssumption
<1>2. Free \subseteq Ids BY DEF Free
<1>3. S \subseteq Nat /\ S # {} BY <1>1, <1>2
<1> HIDE DEF D
<1>4. PICK m \in S : \A n \in S : m <= n BY <1>3, LeastNatural, Zenon
<1>6. PICK i \in Free : m = D(i) BY <1>4
<1>7. \A j \in Free : D(i) <= D(j) BY <1>4, <1>6
<1>8. \E x \in Free : \A j \in Free : (x + IdCount - queryId - 1) % IdCount <= (j + IdCount - queryId - 1) % IdCount
  BY <1>7 DEF D
<1> QED BY <1>8 DEF NextId

\* register hands the token on from the call to the new entry.
LEMMA RegisterTokens ==
  ASSUME TypeOK, LocalInv, NEW s \in Calls, Register(s), NEW n, n = NextId
  PROVE  HandsOn(<<"call", s>>, <<"entry", n>>) /\ ConnOf(<<"entry", n>>)' = ConnOf(<<"call", s>>)
<1> DEFINE e == [query |-> s[1], conn |-> local[s].conn, quiet |-> TRUE,
                 retry |-> s[2] = 1 /\ RetryReadError /\ ~local[s].created]
<1>1. n \in Ids /\ queries[n] = NoQuery BY NextIdFree DEF Register, Free
<1>2. pc[s] = "register" /\ pc'[s] = "write" /\ \A x \in Calls \ {s} : pc'[x] = pc[x] BY CallFrame DEF Register
<1>3. \A x \in Calls \ {s} : local'[x] = local[x] BY LocalFrame DEF Register
<1>4. queries' = [queries EXCEPT ![n] = e] BY DEF Register
<1>5. UNCHANGED <<finishing, rpc, rmsg>> BY DEF Register, readVars
<1>6. e \in Pending BY <1>2 DEF LocalInv, Calls, Pending
<1>7. e.query = s[1] /\ e.conn = local[s].conn OBVIOUS
<1> HIDE DEF e
<1>8. queries'[n] = e /\ \A i \in Ids \ {n} : queries'[i] = queries[i] BY <1>1, <1>4 DEF TypeOK
<1>9. Same({<<"call", s>>, <<"entry", n>>}) BY <1>2, <1>3, <1>5, <1>8 DEF Same
<1>10. <<"call", s>> \in Tokens /\ <<"call", s>> \notin Tokens' BY <1>2, TokenIs, TokenIsNext DEF Waiting
<1>11. <<"entry", n>> \notin Tokens /\ <<"entry", n>> \in Tokens'
  BY <1>1, <1>6, <1>8, TokenIs, TokenIsNext, NoQueryAssumption
<1>12. QueryOf(<<"entry", n>>)' = QueryOf(<<"call", s>>) /\ ConnOf(<<"entry", n>>)' = ConnOf(<<"call", s>>)
  BY <1>2, <1>7, <1>8, TokenHas, TokenHasNext
<1> QED BY <1>9, <1>10, <1>11, <1>12, SameOthers DEF HandsOn

\* With no ID free the call gives its connection back, ...
LEMMA RegisterErrorTokens ==
  ASSUME TypeOK, NEW s \in Calls, RegisterError(s)
  PROVE  Stays(<<"call", s>>) /\ ConnOf(<<"call", s>>) = local[s].conn /\ ConnOf(<<"call", s>>)' = NoConn
<1>1. pc[s] = "register" /\ pc'[s] = "idle" /\ \A x \in Calls \ {s} : pc'[x] = pc[x] BY CallFrame DEF RegisterError
<1>2. UNCHANGED <<local, queries, finishing, rpc, rmsg>> BY DEF RegisterError, readVars
<1>3. Same({<<"call", s>>}) BY <1>1, <1>2 DEF Same
<1>4. <<"call", s>> \in Tokens /\ <<"call", s>> \in Tokens' BY <1>1, TokenIs, TokenIsNext DEF Waiting
<1>5. QueryOf(<<"call", s>>)' = QueryOf(<<"call", s>>) BY TokenHas, TokenHasNext
<1>6. ConnOf(<<"call", s>>) = local[s].conn /\ ConnOf(<<"call", s>>)' = NoConn BY <1>1, TokenHas, TokenHasNext
<1> QED BY <1>3, <1>4, <1>5, <1>6, SameOthers DEF Stays

\* ... and then calls back.
LEMMA RegisterErrorIdleTokens ==
  ASSUME TypeOK, NEW s \in Calls, RegisterErrorIdle(s)
  PROVE  Leaves(<<"call", s>>) /\ QueryOf(<<"call", s>>) = s[1] /\ ConnOf(<<"call", s>>) = NoConn
<1>1. pc[s] = "idle" /\ pc'[s] = "done" /\ \A x \in Calls \ {s} : pc'[x] = pc[x] BY CallFrame DEF RegisterErrorIdle
<1>2. \A x \in Calls \ {s} : local'[x] = local[x] BY LocalFrame DEF RegisterErrorIdle
<1>3. UNCHANGED <<queries, finishing, rpc, rmsg>> BY DEF RegisterErrorIdle, readVars
<1>4. Same({<<"call", s>>}) BY <1>1, <1>2, <1>3 DEF Same
<1>5. <<"call", s>> \in Tokens /\ <<"call", s>> \notin Tokens' BY <1>1, TokenIs, TokenIsNext DEF Waiting
<1> QED BY <1>1, <1>4, <1>5, SameOthers, TokenHas DEF Leaves

\* A call that has written has left its token in the map.
LEMMA WriteTokens ==
  ASSUME TypeOK, NEW s \in Calls, Write(s) \/ InvalidateLost(s)
  PROVE  Others({})
<1>1. /\ pc[s] \in {"write", "lost"} /\ pc'[s] = "done"
      /\ \A x \in Calls \ {s} : pc'[x] = pc[x]
  BY CallFrame DEF Write, InvalidateLost
<1>2. \A x \in Calls \ {s} : local'[x] = local[x] BY LocalFrame DEF Write, InvalidateLost
<1>3. UNCHANGED <<queries, finishing, rpc, rmsg>> BY DEF Write, InvalidateLost, readVars
<1>4. Same({}) BY <1>1, <1>2, <1>3 DEF Same, Waiting
<1> QED BY <1>4, SameOthers

\* What taking entry n does to the map.
LEMMA TakenFrame ==
  ASSUME TypeOK, NEW n \in Ids, queries' = [queries EXCEPT ![n] = NoQuery]
  PROVE  queries'[n] = NoQuery /\ \A i \in Ids \ {n} : queries'[i] = queries[i]
BY DEF TypeOK

\* A failed write takes the token back out of the map, if it is still there.
LEMMA WriteErrorTokens ==
  ASSUME TypeOK, LocalInv, IdInv, NEW s \in Calls, WriteError(s), NEW n, n = local[s].id
  PROVE  /\ queries[n] = NoQuery => Others({})
         /\ queries[n] # NoQuery => /\ HandsOn(<<"entry", n>>, <<"call", s>>)
                                    /\ ConnOf(<<"call", s>>)' = ConnOf(<<"entry", n>>)
<1>1. n \in Ids BY DEF TypeOK, Local
<1>2. pc[s] = "write" /\ queries' = [queries EXCEPT ![n] = NoQuery] BY DEF WriteError, Take
<1>3. queries'[n] = NoQuery /\ \A i \in Ids \ {n} : queries'[i] = queries[i] BY <1>1, <1>2, TakenFrame, Zenon
<1>4. /\ pc'[s] = IF queries[n] = NoQuery THEN "lost" ELSE "broken"
      /\ \A x \in Calls \ {s} : pc'[x] = pc[x]
  BY CallFrame DEF WriteError
<1>5. UNCHANGED <<local, finishing, rpc, rmsg>> BY DEF WriteError, readVars
<1>6. CASE queries[n] = NoQuery
  <2>1. Same({}) BY <1>2, <1>3, <1>4, <1>5, <1>6 DEF Same, Waiting
  <2> QED BY <2>1, <1>6, SameOthers
<1>7. CASE queries[n] # NoQuery
  <2>1. Same({<<"entry", n>>, <<"call", s>>}) BY <1>3, <1>4, <1>5 DEF Same
  <2>2. <<"entry", n>> \in Tokens /\ <<"entry", n>> \notin Tokens' BY <1>1, <1>3, <1>7, TokenIs, TokenIsNext
  <2>3. <<"call", s>> \notin Tokens /\ <<"call", s>> \in Tokens' BY <1>2, <1>4, <1>7, TokenIs, TokenIsNext DEF Waiting
  <2>4. queries[n].query = s[1] /\ queries[n].conn = local[s].conn BY <1>2, <1>7 DEF IdInv, Its
  <2>5. QueryOf(<<"call", s>>)' = QueryOf(<<"entry", n>>) BY <2>4, TokenHas, TokenHasNext
  <2>6. ConnOf(<<"call", s>>)' = ConnOf(<<"entry", n>>) BY <2>4, <1>4, <1>5, <1>7, TokenHas, TokenHasNext
  <2> QED BY <2>1, <2>2, <2>3, <2>5, <2>6, <1>7, SameOthers DEF HandsOn
<1> QED BY <1>6, <1>7

\* After a failed write the call is made again, or calls back.
LEMMA InvalidateBrokenTokens ==
  ASSUME TypeOK, NEW s \in Calls, InvalidateBroken(s)
  PROVE  /\ QueryOf(<<"call", s>>) = s[1] /\ ConnOf(<<"call", s>>) = local[s].conn
         /\ \/ /\ Stays(<<"call", s>>) /\ ConnOf(<<"call", s>>)' = NoConn
               /\ pc' = [pc EXCEPT ![s] = "acquire"] /\ UNCHANGED answers
            \/ /\ Leaves(<<"call", s>>) /\ Callback(s[1], NoQuery)
               /\ pc' = [pc EXCEPT ![s] = "done"]
<1>1. pc[s] = "broken" BY DEF InvalidateBroken
<1>2. UNCHANGED <<queries, finishing, rpc, rmsg>> BY DEF InvalidateBroken, readVars
<1>3. <<"call", s>> \in Tokens BY <1>1, TokenIs DEF Waiting
<1>4. QueryOf(<<"call", s>>) = s[1] /\ ConnOf(<<"call", s>>) = local[s].conn BY <1>1, TokenHas
<1>5. \A x \in Calls \ {s} : local'[x] = local[x] BY LocalFrame DEF InvalidateBroken
<1>6. CASE Goto(s, "acquire") /\ UNCHANGED answers
  <2>1. pc'[s] = "acquire" /\ \A x \in Calls \ {s} : pc'[x] = pc[x] BY <1>6, CallFrame
  <2>2. Same({<<"call", s>>}) BY <1>2, <1>5, <2>1 DEF Same
  <2>3. <<"call", s>> \in Tokens' BY <2>1, TokenIsNext DEF Waiting
  <2>4. QueryOf(<<"call", s>>)' = s[1] /\ ConnOf(<<"call", s>>)' = NoConn BY <2>1, TokenHasNext
  <2>5. Stays(<<"call", s>>) BY <1>3, <1>4, <2>2, <2>3, <2>4, SameOthers DEF Stays
  <2> QED BY <1>4, <1>6, <2>4, <2>5 DEF Goto
<1>7. CASE Goto(s, "done") /\ Callback(s[1], NoQuery)
  <2>1. pc'[s] = "done" /\ \A x \in Calls \ {s} : pc'[x] = pc[x] BY <1>7, CallFrame
  <2>2. Same({<<"call", s>>}) BY <1>2, <1>5, <2>1 DEF Same
  <2>3. <<"call", s>> \notin Tokens' BY <2>1, TokenIsNext DEF Waiting
  <2>4. Leaves(<<"call", s>>) BY <1>3, <2>2, <2>3, SameOthers DEF Leaves
  <2> QED BY <1>4, <1>7, <2>4 DEF Goto
<1> QED BY <1>6, <1>7 DEF InvalidateBroken

\* The entry that timer t takes is its own.
LEMMA TimerEntry ==
  ASSUME TypeOK, IdInv, NEW t, TakeBy(t)
  PROVE  /\ t \in Timer
         /\ queries[t.id] \in Pending /\ queries[t.id].query = t.query /\ queries[t.id].conn = t.conn
         /\ queries'[t.id] = NoQuery /\ \A i \in Ids \ {t.id} : queries'[i] = queries[i]
         /\ <<"entry", t.id>> \in Tokens /\ <<"entry", t.id>> \notin Tokens'
         /\ QueryOf(<<"entry", t.id>>) = t.query /\ ConnOf(<<"entry", t.id>>) = t.conn
<1>1. t \in Timer /\ t.id \in Ids BY DEF TypeOK, TakeBy, Timer
<1>2. queries[t.id] \in Pending BY <1>1 DEF TakeBy, TypeOK
<1>3. queries[t.id].query = t.query /\ queries[t.id].conn = t.conn BY DEF TakeBy, IdInv, Its
<1>4. queries'[t.id] = NoQuery /\ \A i \in Ids \ {t.id} : queries'[i] = queries[i] BY <1>1, TakenFrame, Zenon DEF TakeBy
<1>5. <<"entry", t.id>> \in Tokens /\ <<"entry", t.id>> \notin Tokens'
  BY <1>1, <1>4, TokenIs, TokenIsNext DEF TakeBy
<1>6. QueryOf(<<"entry", t.id>>) = t.query /\ ConnOf(<<"entry", t.id>>) = t.conn BY <1>3, TokenHas
<1> QED BY <1>1, <1>2, <1>3, <1>4, <1>5, <1>6

\* Two tokens are never of the same query.
LEMMA SoleOwner ==
  ASSUME TypeOK, OwnerInv, NEW a \in Tokens, NEW b \in Tokens, QueryOf(a) = QueryOf(b), QueryOf(a) \in Queries
  PROVE  a = b
<1>1. PICK q \in Queries : q = QueryOf(a) OBVIOUS
<1>2. a \in Owners(q) /\ b \in Owners(q) BY <1>1 DEF Owners
<1>3. Owned(q) /\ Owners(q) # {} BY <1>2 DEF OwnerInv
<1>4. PICK o \in Tokens : Owners(q) = {o} BY <1>3 DEF Owned
<1> QED BY <1>2, <1>4

\* A query whose context is done goes from the map to a finishing callback.
LEMMA ContextDoneTokens ==
  ASSUME TypeOK, IdInv, OwnerInv, NEW t, CompleteContextDone(t)
  PROVE  \E f \in Finish : /\ finishing' = finishing \cup {f}
                           /\ HandsOn(<<"entry", t.id>>, <<"finish", f>>)
                           /\ ConnOf(<<"finish", f>>)' = ConnOf(<<"entry", t.id>>)
<1>1. TakeBy(t) BY DEF CompleteContextDone
<1>2. PICK deadline \in BOOLEAN :
         finishing' = finishing \cup {[step |-> "pool", query |-> queries[t.id].query, conn |-> queries[t.id].conn,
                                       drop |-> deadline /\ queries[t.id].quiet]}
  BY DEF CompleteContextDone
<1>3. PICK f : f = [step |-> "pool", query |-> queries[t.id].query, conn |-> queries[t.id].conn,
                    drop |-> deadline /\ queries[t.id].quiet]
  BY Zenon
<1>4. t \in Timer /\ f.query = t.query /\ f.conn = t.conn /\ f.step = "pool" BY <1>1, <1>3, TimerEntry, Zenon
<1>5. f \in Finish
  <2>1. (deadline /\ queries[t.id].quiet) \in BOOLEAN OBVIOUS
  <2>2. queries[t.id].query \in Queries /\ queries[t.id].conn \in Conns BY <1>1, TimerEntry, Zenon DEF Pending
  <2> QED BY <1>3, <2>1, <2>2 DEF Finish
<1>6. finishing' = finishing \cup {f} BY <1>2, <1>3
<1>7. UNCHANGED <<pc, local, rpc, rmsg>> BY DEF CompleteContextDone, readVars
<1>8. Same({<<"entry", t.id>>, <<"finish", f>>}) BY <1>1, <1>6, <1>7, TimerEntry, Zenon DEF Same
<1>9. <<"finish", f>> \in Tokens' BY <1>4, <1>6, TokenIsNext
<1>10. QueryOf(<<"finish", f>>)' = t.query /\ ConnOf(<<"finish", f>>)' = t.conn BY <1>4, TokenHasNext
<1>11. <<"finish", f>> \notin Tokens
  <2> SUFFICES ASSUME <<"finish", f>> \in Tokens PROVE FALSE OBVIOUS
  <2>1. QueryOf(<<"finish", f>>) = t.query /\ t.query \in Queries BY <1>4, TokenHas DEF Timer
  <2>2. <<"finish", f>> = <<"entry", t.id>> BY <1>1, <2>1, SoleOwner, TimerEntry, Zenon
  <2> QED BY <2>2
<1> QED BY <1>1, <1>5, <1>6, <1>8, <1>9, <1>10, <1>11, SameOthers, TimerEntry, Zenon DEF HandsOn

\* A query whose connection is lost is called a second time, or called back.
LEMMA ConnDoneTokens ==
  ASSUME TypeOK, IdInv, RetryInv, NEW t, CompleteConnDone(t), NEW s, s = <<t.query, 2>>
  PROVE  /\ s \in Calls
         /\ \/ /\ HandsOn(<<"entry", t.id>>, <<"call", s>>) /\ ConnOf(<<"call", s>>)' = NoConn
               /\ queries[t.id].retry /\ pc' = [pc EXCEPT ![s] = "acquire"] /\ UNCHANGED answers
            \/ Leaves(<<"entry", t.id>>) /\ UNCHANGED pc /\ Callback(t.query, NoQuery)
<1>1. TakeBy(t) BY DEF CompleteConnDone
<1>2. t \in Timer /\ queries[t.id].query = t.query BY <1>1, TimerEntry, Zenon
<1>3. s \in Calls BY <1>2 DEF Calls, Timer
<1>4. UNCHANGED <<local, finishing, rpc, rmsg>> BY DEF CompleteConnDone, readVars
<1>5. CASE queries[t.id].retry /\ Goto(s, "acquire") /\ UNCHANGED answers
  <2>1. pc'[s] = "acquire" /\ \A x \in Calls \ {s} : pc'[x] = pc[x] BY <1>3, <1>5, CallFrame
  <2>2. queries[t.id] # NoQuery /\ t.id \in Ids BY <1>1, <1>2 DEF TakeBy, Timer
  <2>3. pc[s] = "none" BY <1>2, <1>5, <2>2 DEF RetryInv
  <2>8. \A i \in Ids \ {t.id} : queries'[i] = queries[i] BY <1>1, TimerEntry, Zenon
  <2>4. Same({<<"entry", t.id>>, <<"call", s>>}) BY <1>4, <2>1, <2>8 DEF Same
  <2>5. <<"call", s>> \notin Tokens /\ <<"call", s>> \in Tokens' BY <1>3, <2>1, <2>3, TokenIs, TokenIsNext DEF Waiting
  <2>6. QueryOf(<<"call", s>>)' = t.query /\ ConnOf(<<"call", s>>)' = NoConn BY <2>1, TokenHasNext
  <2>7. HandsOn(<<"entry", t.id>>, <<"call", s>>) BY <1>1, <2>4, <2>5, <2>6, SameOthers, TimerEntry DEF HandsOn
  <2> QED BY <1>3, <1>5, <2>6, <2>7 DEF Goto
<1>6. CASE Callback(t.query, NoQuery) /\ UNCHANGED pc
  <2>1. Same({<<"entry", t.id>>}) BY <1>1, <1>4, <1>6, TimerEntry, Zenon DEF Same
  <2>2. Leaves(<<"entry", t.id>>) BY <1>1, <2>1, SameOthers, TimerEntry DEF Leaves
  <2> QED BY <1>3, <1>6, <2>2
<1> QED BY <1>2, <1>5, <1>6 DEF CompleteConnDone

\* The finishing callback gives the connection back and calls back.
LEMMA FinishPoolTokens ==
  ASSUME TypeOK, NEW f, FinishPool(f)
  PROVE  /\ f \in Finish /\ Leaves(<<"finish", f>>)
         /\ QueryOf(<<"finish", f>>) = f.query /\ ConnOf(<<"finish", f>>) = f.conn
<1>1. f \in finishing /\ f.step = "pool" BY DEF FinishPool
<1>2. f \in Finish BY <1>1 DEF TypeOK
<1>3. PICK g : g = [f EXCEPT !.step = "idle"] BY Zenon
<1>4. finishing' = (finishing \ {f}) \cup {g} BY <1>3 DEF FinishPool
<1>5. g.step = "idle" BY <1>2, <1>3 DEF Finish
<1>6. UNCHANGED <<pc, local, queries, rpc, rmsg>> BY DEF FinishPool, readVars
<1>7. Same({<<"finish", f>>})
  <2>1. \A x : <<"finish", x>> \in {<<"finish", f>>} \/ x.step # "pool" \/ (x \in finishing' <=> x \in finishing)
    BY <1>4, <1>5
  <2> QED BY <1>6, <2>1 DEF Same
<1>8. <<"finish", f>> \in Tokens BY <1>1, TokenIs
<1>9. <<"finish", f>> \notin Tokens' BY <1>1, <1>4, <1>5, TokenIsNext
<1> QED BY <1>2, <1>7, <1>8, <1>9, SameOthers, TokenHas DEF Leaves

\* What it does afterwards concerns no token.
LEMMA FinishIdleTokens == ASSUME TypeOK, NEW f, FinishIdle(f) PROVE Others({})
<1>1. UNCHANGED <<pc, local, queries, rpc, rmsg>> /\ finishing' = finishing \ {f} /\ f.step = "idle"
  BY DEF FinishIdle, readVars
<1>2. Same({}) BY <1>1, Zenon DEF Same
<1> QED BY <1>2, SameOthers

\* complete hands the entry of the message on to the read loop, if there is one.
LEMMA CompleteTokens ==
  ASSUME TypeOK, NEW k \in Conns, Complete(k), NEW n, n = rmsg[k].id
  PROVE  /\ n \in Ids
         /\ queries[n] = NoQuery => Others({})
         /\ queries[n] # NoQuery => /\ HandsOn(<<"entry", n>>, <<"loop", k>>)
                                    /\ ConnOf(<<"loop", k>>)' = ConnOf(<<"entry", n>>)
<1>1. rmsg[k] \in Message /\ n \in Ids BY DEF TypeOK, Message
<1>2. UNCHANGED <<pc, local, finishing>> /\ rpc[k] = "take" BY DEF Complete
<1>3. CASE queries[n] = NoQuery
  <2>1. /\ rpc' = [rpc EXCEPT ![k] = "read"] /\ rmsg' = [rmsg EXCEPT ![k] = NoMessage]
        /\ UNCHANGED queries
    BY <1>3 DEF Complete
  <2>2. Same({}) BY <1>2, <2>1 DEF Same, TypeOK
  <2> QED BY <1>1, <1>3, <2>2, SameOthers
<1>4. CASE queries[n] # NoQuery
  <2>1. /\ rpc' = [rpc EXCEPT ![k] = "release"]
        /\ rmsg' = [rmsg EXCEPT ![k].taken = queries[n]]
        /\ queries' = [queries EXCEPT ![n] = NoQuery]
    BY <1>4 DEF Complete, Take
  <2>2. queries'[n] = NoQuery /\ \A i \in Ids \ {n} : queries'[i] = queries[i] BY <1>1, <2>1, TakenFrame, Zenon
  <2>3. rpc'[k] = "release" /\ \A x \in Conns \ {k} : rpc'[x] = rpc[x] /\ rmsg'[x] = rmsg[x] BY <2>1 DEF TypeOK
  <2>4. rmsg'[k].taken = queries[n] BY <1>1, <2>1 DEF TypeOK, Message
  <2>5. Same({<<"entry", n>>, <<"loop", k>>}) BY <1>2, <2>2, <2>3 DEF Same
  <2>6. <<"entry", n>> \in Tokens /\ <<"entry", n>> \notin Tokens' BY <1>1, <1>4, <2>2, TokenIs, TokenIsNext
  <2>7. <<"loop", k>> \notin Tokens /\ <<"loop", k>> \in Tokens' BY <1>2, <2>3, TokenIs, TokenIsNext
  <2>8. /\ QueryOf(<<"loop", k>>)' = QueryOf(<<"entry", n>>)
        /\ ConnOf(<<"loop", k>>)' = ConnOf(<<"entry", n>>)
    BY <2>4, TokenHas, TokenHasNext
  <2> QED BY <1>1, <1>4, <2>5, <2>6, <2>7, <2>8, SameOthers DEF HandsOn
<1> QED BY <1>3, <1>4

\* The read loop gives the connection back and calls back.
LEMMA CompleteReleaseTokens ==
  ASSUME TypeOK, NEW k \in Conns, CompleteRelease(k)
  PROVE  /\ Leaves(<<"loop", k>>)
         /\ QueryOf(<<"loop", k>>) = rmsg[k].taken.query /\ ConnOf(<<"loop", k>>) = rmsg[k].taken.conn
<1>1. UNCHANGED <<pc, local, queries, finishing>> /\ rpc[k] = "release" BY DEF CompleteRelease
<1>2. rpc' = [rpc EXCEPT ![k] = "idle"] /\ rmsg' = [rmsg EXCEPT ![k] = NoMessage] BY DEF CompleteRelease
<1>3. rpc'[k] = "idle" /\ \A x \in Conns \ {k} : rpc'[x] = rpc[x] /\ rmsg'[x] = rmsg[x] BY <1>2 DEF TypeOK
<1>4. Same({<<"loop", k>>}) BY <1>1, <1>3 DEF Same
<1>5. <<"loop", k>> \in Tokens /\ <<"loop", k>> \notin Tokens' BY <1>1, <1>3, TokenIs, TokenIsNext
<1> QED BY <1>4, <1>5, SameOthers, TokenHas DEF Leaves

-----------------------------------------------------------------------------
(* The owners of a query                                                   *)

\* The owners of a query after a step that leaves the tokens outside X alone.
LEMMA OwnersAre ==
  ASSUME NEW X, Others(X), NEW q
  PROVE  Owners(q)' \ X = Owners(q) \ X
BY Zenon DEF Others, Owners

\* Owners after a step that touches no token, ...
LEMMA OwnersStill ==
  ASSUME OwnerInv, Others({}), UNCHANGED answers, \A q \in Queries : pc'[<<q, 1>>] = "none" <=> pc[<<q, 1>>] = "none"
  PROVE  OwnerInv'
<1> SUFFICES ASSUME NEW q \in Queries PROVE Owned(q)' BY DEF OwnerInv
<1>1. Owners(q)' = Owners(q) /\ Tokens' = Tokens BY OwnersAre DEF Others
<1>2. Owned(q) BY DEF OwnerInv
<1> QED BY <1>1, <1>2, Zenon DEF Owned

\* ... a step that leaves its token where it is, ...
LEMMA OwnersStay ==
  ASSUME OwnerInv, NEW a, Stays(a), UNCHANGED answers,
         \A q \in Queries : pc'[<<q, 1>>] = "none" <=> pc[<<q, 1>>] = "none"
  PROVE  OwnerInv'
<1> SUFFICES ASSUME NEW q \in Queries PROVE Owned(q)' BY DEF OwnerInv
<1>1. Owners(q)' = Owners(q) /\ Tokens' = Tokens BY DEF Stays, Others, Owners
<1>2. Owned(q) BY DEF OwnerInv
<1> QED BY <1>1, <1>2 DEF Owned

\* ... a step that hands one on, ...
LEMMA OwnersHandOn ==
  ASSUME OwnerInv, NEW a, NEW b, HandsOn(a, b), UNCHANGED answers,
         \A q \in Queries : pc'[<<q, 1>>] = "none" <=> pc[<<q, 1>>] = "none"
  PROVE  OwnerInv'
<1> SUFFICES ASSUME NEW q \in Queries PROVE Owned(q)' BY DEF OwnerInv
<1>1. Owned(q) BY DEF OwnerInv
<1>2. CASE q # QueryOf(a)
  <2>1. Owners(q)' = Owners(q) BY <1>2 DEF HandsOn, Others, Owners
  <2>2. \A o \in Owners(q) : o \in Tokens' BY <2>1 DEF Owners
  <2> QED BY <1>1, <2>1, <2>2 DEF Owned
<1>3. CASE q = QueryOf(a)
  <2>1. a \in Owners(q) BY <1>3 DEF HandsOn, Owners
  <2>2. PICK o \in Tokens : Owners(q) = {o} BY <1>1, <2>1 DEF Owned
  <2>3. answers[q] = <<>> /\ pc[<<q, 1>>] # "none" BY <1>1, <2>1 DEF Owned
  <2>4. Owners(q)' = {b} /\ b \in Tokens' BY <1>3, <2>1, <2>2 DEF HandsOn, Others, Owners
  <2> QED BY <2>3, <2>4 DEF Owned
<1> QED BY <1>2, <1>3, Zenon

\* What calling back query p does to the answers.
LEMMA CallbackFrame ==
  ASSUME TypeOK, NEW p \in Queries, NEW r \in Queries \cup {NoQuery}, Callback(p, r)
  PROVE  /\ answers'[p] = Append(answers[p], r) /\ \A q \in Queries \ {p} : answers'[q] = answers[q]
         /\ answers' \in [Queries -> Seq(Queries \cup {NoQuery})]
<1>1. answers[p] \in Seq(Queries \cup {NoQuery}) BY DEF TypeOK
<1>2. Append(answers[p], r) \in Seq(Queries \cup {NoQuery}) BY <1>1
<1> QED BY <1>2 DEF TypeOK, Callback

\* ... a step that calls back, which leaves the query without an owner, ...
LEMMA OwnersLeave ==
  ASSUME TypeOK, OwnerInv, NEW a, Leaves(a), NEW p \in Queries, p = QueryOf(a),
         NEW r \in Queries \cup {NoQuery}, Callback(p, r),
         \A q \in Queries : pc'[<<q, 1>>] = "none" <=> pc[<<q, 1>>] = "none"
  PROVE  OwnerInv'
<1> SUFFICES ASSUME NEW q \in Queries PROVE Owned(q)' BY DEF OwnerInv
<1>1. Owned(q) BY DEF OwnerInv
<1>2. CASE q # p
  <2>1. Owners(q)' = Owners(q) BY <1>2 DEF Leaves, Others, Owners
  <2>2. \A o \in Owners(q) : o \in Tokens' BY <2>1 DEF Owners
  <2>3. answers'[q] = answers[q] BY <1>2, CallbackFrame
  <2> QED BY <1>1, <2>1, <2>2, <2>3 DEF Owned
<1>3. CASE q = p
  <2>1. a \in Owners(q) BY <1>3 DEF Leaves, Owners
  <2>2. PICK o \in Tokens : Owners(q) = {o} BY <1>1, <2>1 DEF Owned
  <2>3. answers[q] = <<>> /\ pc[<<q, 1>>] # "none" BY <1>1, <2>1 DEF Owned
  <2>4. Owners(q)' = {} BY <1>3, <2>1, <2>2 DEF Leaves, Others, Owners
  <2>5. answers'[q] = <<r>>
    <3>1. answers'[q] = Append(answers[q], r) BY <1>3, CallbackFrame, Zenon
    <3> QED BY <2>3, <3>1
  <2> QED BY <2>3, <2>4, <2>5 DEF Owned
<1> QED BY <1>2, <1>3

\* ... and a step that starts a query.
LEMMA OwnersAppear ==
  ASSUME OwnerInv, NEW b, Appears(b), NEW p \in Queries, QueryOf(b)' = p, UNCHANGED answers,
         pc[<<p, 1>>] = "none", pc'[<<p, 1>>] # "none", \A q \in Queries \ {p} : pc'[<<q, 1>>] = pc[<<q, 1>>]
  PROVE  OwnerInv'
<1> SUFFICES ASSUME NEW q \in Queries PROVE Owned(q)' BY DEF OwnerInv
<1>1. Owned(q) BY DEF OwnerInv
<1>2. CASE q # p
  <2>1. Owners(q)' = Owners(q) BY <1>2 DEF Appears, Others, Owners
  <2>2. \A o \in Owners(q) : o \in Tokens' BY <2>1 DEF Owners
  <2> QED BY <1>1, <1>2, <2>1, <2>2 DEF Owned
<1>3. CASE q = p
  <2>1. Owners(q) = {} /\ answers[q] = <<>> BY <1>1, <1>3 DEF Owned
  <2>2. Owners(q)' = {b} /\ b \in Tokens' BY <1>3, <2>1 DEF Appears, Others, Owners
  <2> QED BY <1>3, <2>1, <2>2 DEF Owned
<1> QED BY <1>2, <1>3

\* The first call of a query stays started.
Started == \A q \in Queries : pc'[<<q, 1>>] = "none" <=> pc[<<q, 1>>] = "none"

\* No step of a call takes a first call back to where it had not started.
LEMMA CallStarted == ASSUME TypeOK, NEW s \in Calls, CallStep(s) PROVE Started
<1>1. pc[s] # "none"
  BY Zenon DEF CallStep, AcquireError, AcquireConn, Register, RegisterError, RegisterErrorIdle, Write, WriteError,
         InvalidateLost, InvalidateBroken
<1>3. \E label \in Labels \ {"none"} : Goto(s, label)
  BY Zenon DEF CallStep, AcquireError, AcquireConn, Register, RegisterError, RegisterErrorIdle, Write, WriteError,
         InvalidateLost, InvalidateBroken, Labels
<1>4. pc'[s] # "none" /\ \A x \in Calls \ {s} : pc'[x] = pc[x] BY <1>3, CallFrame
<1>2. \A q \in Queries : <<q, 1>> \in Calls BY DEF Calls
<1> QED BY <1>1, <1>2, <1>4, Zenon DEF Started

\* Every step leaves each query at most one owner.  A query is called back by
\* its owner, with its own answer.
LEMMA CallOwners ==
  ASSUME TypeOK, LocalInv, PoolInv, IdInv, OwnerInv, NEW s \in Calls, CallStep(s)
  PROVE  OwnerInv'
<1>1. Started BY CallStarted
<1>2. s[1] \in Queries BY Zenon DEF Calls
<1>3. CASE AcquireError(s)
  BY <1>1, <1>2, <1>3, AcquireErrorTokens, OwnersLeave, Zenon DEF AcquireError, Started
<1>4. CASE AcquireConn(s) BY <1>1, <1>4, AcquireConnTokens, OwnersStay, Zenon DEF AcquireConn, Started
<1>5. CASE Register(s)
  <2>1. PICK n : n = NextId OBVIOUS
  <2>2. HandsOn(<<"call", s>>, <<"entry", n>>) BY <1>5, <2>1, RegisterTokens
  <2> QED BY <1>1, <1>5, <2>2, OwnersHandOn DEF Register, Started
<1>6. CASE RegisterError(s) BY <1>1, <1>6, RegisterErrorTokens, OwnersStay, Zenon DEF RegisterError, Started
<1>7. CASE RegisterErrorIdle(s)
  BY <1>1, <1>2, <1>7, RegisterErrorIdleTokens, OwnersLeave, Zenon DEF RegisterErrorIdle, Started
<1>8. CASE Write(s) \/ InvalidateLost(s)
  BY <1>1, <1>8, WriteTokens, OwnersStill DEF Write, InvalidateLost, Started
<1>9. CASE WriteError(s)
  <2>1. PICK n : n = local[s].id OBVIOUS
  <2>2. CASE queries[n] = NoQuery
    BY <1>1, <1>9, <2>1, <2>2, WriteErrorTokens, OwnersStill, Zenon DEF WriteError, Started
  <2>3. CASE queries[n] # NoQuery
    <3>1. HandsOn(<<"entry", n>>, <<"call", s>>) BY <1>9, <2>1, <2>3, WriteErrorTokens, Zenon
    <3> QED BY <1>1, <1>9, <3>1, OwnersHandOn, Zenon DEF WriteError, Started
  <2> QED BY <2>2, <2>3
<1>10. CASE InvalidateBroken(s)
  <2>1. CASE Stays(<<"call", s>>) /\ UNCHANGED answers BY <1>1, <2>1, OwnersStay, Zenon DEF Started
  <2>2. CASE Leaves(<<"call", s>>) /\ Callback(s[1], NoQuery)
    <3>1. QueryOf(<<"call", s>>) = s[1] BY TokenHas, Zenon
    <3> QED BY <1>1, <1>2, <2>2, <3>1, OwnersLeave DEF Started
  <2> QED BY <1>10, <2>1, <2>2, InvalidateBrokenTokens, Zenon
<1> QED BY <1>3, <1>4, <1>5, <1>6, <1>7, <1>8, <1>9, <1>10 DEF CallStep

\* The steps that belong to no call, timer, finishing callback or read loop.
Elsewhere ==
    \/ \E q \in Queries : EndContext(q)
    \/ \E t \in armed : TimerLate(t)
    \/ \E k \in Conns : Connect(k) \/ EndPast(k) \/ ClosePast(k)
    \/ \E keep \in BOOLEAN : SetKeepIdle(keep)
    \/ CloseIdleConnections \/ Reset \/ Close
    \/ \E w \in wire : Lose(w)

\* What those steps leave alone.
LEMMA ElsewhereFrame == Elsewhere => UNCHANGED <<pc, local, queries, finishing, rpc, rmsg, answers, aliased, queryId>>
BY Zenon DEF Elsewhere, EndContext, TimerLate, Connect, EndPast, ClosePast, SetKeepIdle, CloseIdleConnections, Reset,
       Close, Lose, readVars, idVars

\* The read loop calls back only for an entry that it has taken.
LEMMA ReadOwners ==
  ASSUME TypeOK, LocalInv, IdInv, OwnerInv, NEW k \in Conns,
         ReadMessage(k) \/ ReadGarbage(k) \/ ReadError(k) \/ CompleteStep(k)
  PROVE  OwnerInv'
<1>1. UNCHANGED pc
  BY DEF ReadMessage, ReadGarbage, ReadError, CompleteStep, Complete, CompleteRelease, CompleteIdle
<1>2. CASE ReadMessage(k) \/ ReadGarbage(k) \/ ReadError(k) \/ CompleteIdle(k)
  <2>1. UNCHANGED answers BY <1>2, Zenon DEF ReadMessage, ReadGarbage, ReadError, CompleteIdle
  <2> QED BY <1>1, <1>2, <2>1, ReadTokens, OwnersStill
<1>3. CASE Complete(k)
  <2>1. PICK n : n = rmsg[k].id OBVIOUS
  <2>2. UNCHANGED answers BY <1>3 DEF Complete
  <2>3. CASE queries[n] = NoQuery BY <1>1, <1>3, <2>1, <2>2, <2>3, CompleteTokens, OwnersStill, Zenon
  <2>4. CASE queries[n] # NoQuery
    <3>1. HandsOn(<<"entry", n>>, <<"loop", k>>) BY <1>3, <2>1, <2>4, CompleteTokens
    <3> QED BY <1>1, <2>2, <3>1, OwnersHandOn
  <2> QED BY <2>3, <2>4
<1>4. CASE CompleteRelease(k)
  <2>1. rmsg[k].taken \in Pending /\ rmsg[k].answer \in Queries BY <1>4 DEF CompleteRelease, LocalInv
  <2>2. PICK p \in Queries : p = rmsg[k].taken.query BY <2>1 DEF Pending
  <2>3. PICK r \in Queries : r = rmsg[k].answer BY <2>1, Zenon
  <2>4. Callback(p, r) BY <1>4, <2>2, <2>3, Zenon DEF CompleteRelease
  <2>5. Leaves(<<"loop", k>>) /\ p = QueryOf(<<"loop", k>>) BY <1>4, <2>2, CompleteReleaseTokens
  <2> QED BY <1>1, <2>4, <2>5, OwnersLeave, Zenon
<1> QED BY <1>2, <1>3, <1>4 DEF CompleteStep

\* Nor does a timer.
LEMMA TimerOwners ==
  ASSUME TypeOK, IdInv, RetryInv, OwnerInv, NEW t, CompleteContextDone(t) \/ CompleteConnDone(t)
  PROVE  OwnerInv'
<1>1. CASE CompleteContextDone(t)
  <2>1. PICK f \in Finish : HandsOn(<<"entry", t.id>>, <<"finish", f>>) BY <1>1, ContextDoneTokens, Zenon
  <2>2. UNCHANGED <<pc, answers>> BY <1>1 DEF CompleteContextDone
  <2> QED BY <2>1, <2>2, OwnersHandOn
<1>2. CASE CompleteConnDone(t)
  <2>1. PICK s : s = <<t.query, 2>> BY Zenon
  <2>2. s \in Calls BY <1>2, <2>1, ConnDoneTokens, Zenon
  <2>3. TakeBy(t) BY <1>2 DEF CompleteConnDone
  <2>4. t.query \in Queries /\ QueryOf(<<"entry", t.id>>) = t.query BY <2>3, TimerEntry DEF Timer
  <2>5. CASE HandsOn(<<"entry", t.id>>, <<"call", s>>) /\ pc' = [pc EXCEPT ![s] = "acquire"] /\ UNCHANGED answers
    <3>1. \A q \in Queries : pc'[<<q, 1>>] = pc[<<q, 1>>] BY <2>1, <2>2, <2>5 DEF TypeOK, Calls
    <3> QED BY <2>5, <3>1, OwnersHandOn
  <2>6. CASE Leaves(<<"entry", t.id>>) /\ UNCHANGED pc /\ Callback(t.query, NoQuery)
    BY <2>4, <2>6, OwnersLeave, Zenon
  <2> QED BY <1>2, <2>1, <2>5, <2>6, ConnDoneTokens
<1> QED BY <1>1, <1>2

\* Every step keeps the owners.
LEMMA NextOwners == Core /\ [Next]_vars => OwnerInv'
<1> SUFFICES ASSUME Core, [Next]_vars PROVE OwnerInv' BY Zenon
<1> USE DEF Core
<1>1. CASE Elsewhere \/ UNCHANGED vars
  <2>1. UNCHANGED <<pc, local, queries, finishing, rpc, rmsg, answers>> BY <1>1, ElsewhereFrame DEF vars, readVars
  <2> QED BY <2>1, StillTokens, OwnersStill
<1>2. ASSUME NEW q \in Queries, Exchange(q) PROVE OwnerInv'
  <2>1. PICK s \in Calls : s = <<q, 1>> BY Zenon DEF Calls
  <2>2. pc[s] = "none" /\ pc'[s] = "acquire" /\ \A x \in Calls \ {s} : pc'[x] = pc[x]
    BY <1>2, <2>1, CallFrame, Zenon DEF Exchange
  <2>3. \A p \in Queries \ {q} : <<p, 1>> \in Calls \ {s} BY <2>1 DEF Calls
  <2>4. Appears(<<"call", s>>) /\ QueryOf(<<"call", s>>)' = q BY <1>2, <2>1, ExchangeTokens, Zenon
  <2>5. UNCHANGED answers BY <1>2, Zenon DEF Exchange
  <2> QED BY <2>1, <2>2, <2>3, <2>4, <2>5, OwnersAppear, Zenon
<1>3. ASSUME NEW s \in Calls, CallStep(s) PROVE OwnerInv' BY <1>3, CallOwners
<1>4. ASSUME NEW t, CompleteContextDone(t) \/ CompleteConnDone(t) PROVE OwnerInv' BY <1>4, TimerOwners, SMTT(30)
<1>5. ASSUME NEW f, FinishPool(f) PROVE OwnerInv'
  <2>1. UNCHANGED pc /\ Callback(f.query, NoQuery) BY <1>5 DEF FinishPool
  <2>2. Leaves(<<"finish", f>>) /\ QueryOf(<<"finish", f>>) = f.query /\ f.query \in Queries
    BY <1>5, FinishPoolTokens DEF Finish
  <2> QED BY <2>1, <2>2, OwnersLeave
<1>6. ASSUME NEW f, FinishIdle(f) PROVE OwnerInv'
  <2>1. UNCHANGED <<pc, answers>> BY <1>6 DEF FinishIdle
  <2> QED BY <1>6, <2>1, FinishIdleTokens, OwnersStill
<1>7. ASSUME NEW k \in Conns, ReadMessage(k) \/ ReadGarbage(k) \/ ReadError(k) \/ CompleteStep(k) PROVE OwnerInv'
  BY <1>7, ReadOwners, ZenonT(30)
<1> QED BY <1>1, <1>2, <1>3, <1>4, <1>5, <1>6, <1>7 DEF Next, Elsewhere, TimerStep, FinishStep

-----------------------------------------------------------------------------
(* IDs                                                                     *)

\* Every step but register only takes entries out of the map, ...
FewerEntries ==
    \A i \in Ids : queries'[i] # NoQuery => /\ queries[i] # NoQuery
                                            /\ queries'[i].query = queries[i].query
                                            /\ queries'[i].conn = queries[i].conn
                                            /\ queries'[i].retry = queries[i].retry

\* ... and whoever remembers an ID has got it from somebody who did.
OldWrites == \A s \in Calls : pc'[s] = "write" => pc[s] = "write" /\ local'[s] = local[s]
OldWire == \A w \in wire' : w \in wire \/ \E s \in Calls : pc[s] = "write" /\ w[2] = local[s].id /\ w[3] = s[1]
OldReads ==
    \A k \in Conns : rpc'[k] = "take" =>
        \/ rpc[k] = "take" /\ rmsg'[k] = rmsg[k]
        \/ \E w \in wire : rmsg'[k].id = w[2] /\ rmsg'[k].answer = w[3]
OldTaken ==
    \A k \in Conns : rpc'[k] = "release" =>
        \/ rpc[k] = "release" /\ rmsg'[k] = rmsg[k]
        \/ /\ rpc[k] = "take" /\ queries[rmsg[k].id] # NoQuery
           /\ rmsg'[k].answer = rmsg[k].answer /\ rmsg'[k].taken = queries[rmsg[k].id]

OldIds == FewerEntries /\ OldWrites /\ armed' \subseteq armed /\ OldWire /\ OldReads /\ OldTaken

\* A step that gives nobody a new ID keeps IdInv.
LEMMA IdsKept == ASSUME TypeOK, IdInv, OldIds PROVE IdInv'
<1>1. ASSUME NEW i \in Ids, NEW q, NEW k, Its(i, q, k) PROVE Its(i, q, k)' BY <1>1 DEF Its, OldIds, FewerEntries
<1>2. ASSUME NEW s \in Calls, pc'[s] = "write" PROVE Its(local[s].id, s[1], local[s].conn)'
  <2>1. pc[s] = "write" /\ local'[s] = local[s] BY <1>2 DEF OldIds, OldWrites
  <2>2. PICK i \in Ids, k \in Conns \cup {NoConn} : i = local[s].id /\ k = local[s].conn BY Zenon DEF TypeOK, Local
  <2>3. Its(i, s[1], k) BY <2>1, <2>2 DEF IdInv
  <2>4. Its(i, s[1], k)' BY <2>3, <1>1
  <2> QED BY <2>1, <2>2, <2>4 DEF Its
<1>3. ASSUME NEW t \in armed' PROVE Its(t.id, t.query, t.conn)'
  <2>1. t \in armed /\ t.id \in Ids BY Zenon DEF OldIds, TypeOK, Timer
  <2> QED BY <1>1, <2>1, Zenon DEF IdInv
<1>4. ASSUME NEW w \in wire', queries'[w[2]] # NoQuery PROVE queries'[w[2]].query = w[3]
  <2>1. CASE w \in wire
    <3>1. w[2] \in Ids BY <2>1 DEF TypeOK
    <3>2. queries[w[2]] # NoQuery /\ queries'[w[2]].query = queries[w[2]].query
      BY <1>4, <3>1, Zenon DEF OldIds, FewerEntries
    <3> QED BY <2>1, <3>2, Zenon DEF IdInv
  <2>2. CASE \E s \in Calls : pc[s] = "write" /\ w[2] = local[s].id /\ w[3] = s[1]
    <3>1. PICK s \in Calls : pc[s] = "write" /\ w[2] = local[s].id /\ w[3] = s[1] BY <2>2
    <3>2. w[2] \in Ids BY <3>1, Zenon DEF TypeOK, Local
    <3>3. queries[w[2]] # NoQuery /\ queries'[w[2]].query = queries[w[2]].query
      BY <1>4, <3>2, Zenon DEF OldIds, FewerEntries
    <3>4. Its(local[s].id, s[1], local[s].conn) BY <3>1, Zenon DEF IdInv
    <3> QED BY <3>1, <3>3, <3>4, Zenon DEF Its
  <2> QED BY <2>1, <2>2 DEF OldIds, OldWire
<1>5. ASSUME NEW k \in Conns, rpc'[k] = "take", queries'[rmsg'[k].id] # NoQuery
      PROVE queries'[rmsg'[k].id].query = rmsg'[k].answer
  <2>1. CASE rpc[k] = "take" /\ rmsg'[k] = rmsg[k]
    <3>1. rmsg[k].id \in Ids BY DEF TypeOK, Message
    <3>2. queries'[rmsg[k].id] # NoQuery BY <1>5, <2>1, Zenon
    <3>3. queries[rmsg[k].id] # NoQuery /\ queries'[rmsg[k].id].query = queries[rmsg[k].id].query
      BY <3>1, <3>2, Zenon DEF OldIds, FewerEntries
    <3> QED BY <2>1, <3>3, Zenon DEF IdInv
  <2>2. CASE \E w \in wire : rmsg'[k].id = w[2] /\ rmsg'[k].answer = w[3]
    <3>1. PICK w \in wire : rmsg'[k].id = w[2] /\ rmsg'[k].answer = w[3] BY <2>2
    <3>2. w[2] \in Ids BY Zenon DEF TypeOK
    <3> QED BY <1>5, <3>1, <3>2, Zenon DEF OldIds, FewerEntries, IdInv
  <2> QED BY <1>5, <2>1, <2>2, Zenon DEF OldIds, OldReads
<1>6. ASSUME NEW k \in Conns, rpc'[k] = "release" PROVE rmsg'[k].taken.query = rmsg'[k].answer
  BY <1>6 DEF OldIds, OldTaken, IdInv
<1> QED BY <1>2, <1>3, <1>4, <1>5, <1>6 DEF IdInv

\* Taking an entry and hearing of a connection add no entry.
LEMMA FewerOf ==
  ASSUME TypeOK
  PROVE  /\ UNCHANGED queries => FewerEntries
         /\ \A n \in Ids : queries' = [queries EXCEPT ![n] = NoQuery] => FewerEntries
         /\ \A k \in Conns : queries' = Heard(k) => FewerEntries
<1>1. UNCHANGED queries => FewerEntries BY DEF FewerEntries
<1>2. \A n \in Ids : queries' = [queries EXCEPT ![n] = NoQuery] => FewerEntries BY DEF FewerEntries, TypeOK
<1>3. ASSUME NEW k \in Conns, queries' = Heard(k) PROVE FewerEntries
  <2> SUFFICES ASSUME NEW i \in Ids, queries'[i] # NoQuery
               PROVE /\ queries[i] # NoQuery /\ queries'[i].query = queries[i].query
                     /\ queries'[i].conn = queries[i].conn /\ queries'[i].retry = queries[i].retry
    BY Zenon DEF FewerEntries
  <2>1. \/ queries'[i] = queries[i]
        \/ queries[i] # NoQuery /\ queries'[i] = [queries[i] EXCEPT !.quiet = FALSE]
    BY <1>3 DEF Heard
  <2>2. queries[i] # NoQuery BY <2>1
  <2>3. queries[i] \in Pending BY <2>2 DEF TypeOK
  <2> QED BY <2>1, <2>2, <2>3 DEF Pending
<1> QED BY <1>1, <1>2, <1>3

\* The calls of exchangeAsync other than register get no ID.
LEMMA CallOldIds == ASSUME TypeOK, NEW s \in Calls, CallStep(s), ~Register(s) PROVE OldIds
<1>1. UNCHANGED rmsg /\ OldTaken /\ OldReads
  <2>1. UNCHANGED rmsg /\ (UNCHANGED rpc \/ rpc' = [rpc EXCEPT ![cur] = "read"])
    BY Zenon DEF CallStep, AcquireError, AcquireConn, RegisterError, RegisterErrorIdle, Write, WriteError, InvalidateLost,
           InvalidateBroken, readVars
  <2> QED BY <2>1 DEF OldTaken, OldReads, TypeOK
<1>2. OldWrites
  <2>1. \E label \in Labels \ {"write"} : Goto(s, label)
    BY Zenon DEF CallStep, AcquireError, AcquireConn, RegisterError, RegisterErrorIdle, Write, WriteError, InvalidateLost,
           InvalidateBroken, Labels
  <2>2. UNCHANGED local \/ \E l : Set(s, l)
    BY Zenon DEF CallStep, AcquireError, AcquireConn, RegisterError, RegisterErrorIdle, Write, WriteError, InvalidateLost,
           InvalidateBroken
  <2>3. pc'[s] # "write" /\ \A x \in Calls \ {s} : pc'[x] = pc[x] BY <2>1, CallFrame
  <2>4. \A x \in Calls \ {s} : local'[x] = local[x] BY <2>2, LocalFrame
  <2> QED BY <2>3, <2>4 DEF OldWrites
<1>3. CASE WriteError(s)
  <2>1. local[s].id \in Ids BY Zenon DEF TypeOK, Local
  <2>2. FewerEntries BY <1>3, <2>1, FewerOf, Zenon DEF WriteError, Take
  <2>3. armed' \subseteq armed /\ OldWire BY <1>3, Zenon DEF WriteError, Take, OldWire
  <2> QED BY <1>1, <1>2, <2>2, <2>3 DEF OldIds
<1>4. CASE Write(s)
  <2>1. OldWire
    <3> SUFFICES ASSUME NEW w \in wire', w \notin wire
                 PROVE  pc[s] = "write" /\ w[2] = local[s].id /\ w[3] = s[1]
      BY Zenon DEF OldWire
    <3>1. w = <<local[s].conn, local[s].id, s[1]>> BY <1>4, Zenon DEF Write
    <3> QED BY <1>4, <3>1, Zenon DEF Write
  <2> QED BY <1>1, <1>2, <1>4, <2>1, FewerOf, Zenon DEF Write, OldIds
<1>5. CASE UNCHANGED <<queries, armed, wire>> BY <1>1, <1>2, <1>5, FewerOf DEF OldIds, OldWire
<1>6. Write(s) \/ WriteError(s) \/ UNCHANGED <<queries, armed, wire>>
  BY Zenon DEF CallStep, AcquireError, AcquireConn, RegisterError, RegisterErrorIdle, InvalidateLost, InvalidateBroken
<1> QED BY <1>3, <1>4, <1>5, <1>6, Zenon

\* A read loop remembers an ID from a message on the wire.
LEMMA ReadOldIds ==
  ASSUME TypeOK, NEW k \in Conns, ReadMessage(k) \/ ReadGarbage(k) \/ ReadError(k) \/ CompleteStep(k)
  PROVE  OldIds
<1>1. OldWrites
  BY DEF ReadMessage, ReadGarbage, ReadError, CompleteStep, Complete, CompleteRelease, CompleteIdle, OldWrites
<1>2. OldWire
  BY DEF ReadMessage, ReadGarbage, ReadError, CompleteStep, Complete, CompleteRelease, CompleteIdle, OldWire
<1>3. armed' \subseteq armed
  BY DEF ReadMessage, ReadGarbage, ReadError, CompleteStep, Complete, CompleteRelease, CompleteIdle, Take
<1>4. rmsg[k] \in Message /\ rmsg[k].id \in Ids BY DEF TypeOK, Message
<1>5. FewerEntries
  BY <1>4, FewerOf DEF ReadMessage, ReadGarbage, ReadError, CompleteStep, Complete, CompleteRelease, CompleteIdle, Take
<1>6. CASE ReadMessage(k)
  <2>1. PICK w \in wire : rmsg' = [rmsg EXCEPT ![k] = [id |-> w[2], answer |-> w[3], taken |-> NoQuery]]
    BY <1>6, Zenon DEF ReadMessage
  <2>2. rpc' = [rpc EXCEPT ![k] = "take"] BY <1>6, Zenon DEF ReadMessage
  <2>3. rmsg'[k].id = w[2] /\ rmsg'[k].answer = w[3] /\ \A x \in Conns \ {k} : rmsg'[x] = rmsg[x] BY <2>1, Zenon DEF TypeOK
  <2>4. OldReads BY <2>2, <2>3, Zenon DEF OldReads, TypeOK
  <2>5. OldTaken BY <2>2, <2>3, Zenon DEF OldTaken, TypeOK
  <2> QED BY <1>1, <1>2, <1>3, <1>5, <2>4, <2>5, Zenon DEF OldIds
<1>7. CASE ReadGarbage(k) \/ ReadError(k) \/ CompleteRelease(k) \/ CompleteIdle(k)
  <2>1. UNCHANGED readVars \/ /\ \E l \in {"dead", "idle", "read"} : rpc' = [rpc EXCEPT ![k] = l]
                              /\ \A x \in Conns \ {k} : rmsg'[x] = rmsg[x]
    BY <1>7 DEF ReadGarbage, ReadError, CompleteRelease, CompleteIdle, TypeOK
  <2>2. OldReads /\ OldTaken BY <2>1, Zenon DEF OldReads, OldTaken, TypeOK, readVars
  <2> QED BY <1>1, <1>2, <1>3, <1>5, <2>2, Zenon DEF OldIds
<1>8. CASE Complete(k)
  <2>1. CASE queries[rmsg[k].id] = NoQuery
    <3>1. rpc' = [rpc EXCEPT ![k] = "read"] /\ rmsg' = [rmsg EXCEPT ![k] = NoMessage] BY <1>8, <2>1 DEF Complete
    <3>2. OldReads /\ OldTaken BY <3>1, Zenon DEF OldReads, OldTaken, TypeOK
    <3> QED BY <1>1, <1>2, <1>3, <1>5, <3>2 DEF OldIds
  <2>2. CASE queries[rmsg[k].id] # NoQuery
    <3>1. rpc' = [rpc EXCEPT ![k] = "release"] /\ rmsg' = [rmsg EXCEPT ![k].taken = queries[rmsg[k].id]]
      BY <1>8, <2>2 DEF Complete
    <3>2. rmsg'[k].answer = rmsg[k].answer /\ rmsg'[k].taken = queries[rmsg[k].id] BY <1>4, <3>1 DEF TypeOK, Message
    <3>3. rpc[k] = "take" BY <1>8 DEF Complete
    <3>4. rpc'[k] = "release" /\ \A x \in Conns \ {k} : rpc'[x] = rpc[x] /\ rmsg'[x] = rmsg[x] BY <3>1, Zenon DEF TypeOK
    <3>5. OldReads BY <3>4, Zenon DEF OldReads
    <3>6. OldTaken BY <2>2, <3>2, <3>3, <3>4, Zenon DEF OldTaken
    <3> QED BY <1>1, <1>2, <1>3, <1>5, <3>5, <3>6 DEF OldIds
  <2> QED BY <2>1, <2>2
<1> QED BY <1>6, <1>7, <1>8 DEF CompleteStep

\* The pool's owner, the server and the contexts give nobody an ID.
LEMMA ElsewhereOldIds == ASSUME TypeOK, Elsewhere PROVE OldIds
<1>1. UNCHANGED <<pc, local, queries, rpc, rmsg>> BY ElsewhereFrame, Zenon
<1>2. armed' \subseteq armed
  BY Zenon DEF Elsewhere, EndContext, TimerLate, Connect, EndPast, ClosePast, SetKeepIdle, CloseIdleConnections, Reset, Close, Lose
<1>3. wire' \subseteq wire
  BY Zenon DEF Elsewhere, EndContext, TimerLate, Connect, EndPast, ClosePast, SetKeepIdle, CloseIdleConnections, Reset, Close, Lose
<1> QED BY <1>1, <1>2, <1>3, FewerOf, Zenon DEF OldIds, OldWrites, OldWire, OldReads, OldTaken

\* Nor does the start of a query, ...
LEMMA ExchangeOldIds == ASSUME TypeOK, NEW q \in Queries, Exchange(q) PROVE OldIds
<1>1. <<q, 1>> \in Calls BY DEF Calls
<1>2. UNCHANGED <<local, queries, armed, wire, rpc, rmsg>> BY Zenon DEF Exchange, readVars
<1>3. OldWrites BY <1>1, <1>2 DEF Exchange, Goto, OldWrites, TypeOK
<1> QED BY <1>2, <1>3, FewerOf, Zenon DEF OldIds, OldWire, OldReads, OldTaken

\* ... a timer ...
LEMMA TimerOldIds == ASSUME TypeOK, NEW t, CompleteContextDone(t) \/ CompleteConnDone(t) PROVE OldIds
<1>1. TakeBy(t) BY Zenon DEF CompleteContextDone, CompleteConnDone
<1>2. t.id \in Ids BY <1>1 DEF TakeBy, TypeOK, Timer
<1>3. FewerEntries BY <1>1, <1>2, FewerOf, Zenon DEF TakeBy
<1>4. armed' \subseteq armed BY <1>1, Zenon DEF TakeBy
<1>5. UNCHANGED <<local, wire, rpc, rmsg>> BY Zenon DEF CompleteContextDone, CompleteConnDone, readVars
<1>6. UNCHANGED pc \/ \E s : pc' = [pc EXCEPT ![s] = "acquire"] BY Zenon DEF CompleteContextDone, CompleteConnDone, Goto
<1>7. OldWrites BY <1>5, <1>6 DEF OldWrites, TypeOK
<1> QED BY <1>3, <1>4, <1>5, <1>7, Zenon DEF OldIds, OldWire, OldReads, OldTaken

\* ... or a finishing callback.
LEMMA FinishOldIds == ASSUME TypeOK, NEW f, FinishPool(f) \/ FinishIdle(f) PROVE OldIds
<1>1. UNCHANGED <<pc, local, queries, armed, wire, rpc, rmsg>> BY Zenon DEF FinishPool, FinishIdle, readVars
<1> QED BY <1>1, FewerOf, Zenon DEF OldIds, OldWrites, OldWire, OldReads, OldTaken

\* register takes an ID that nobody remembers, unless it aliases it.
LEMMA RegisterIds ==
  ASSUME TypeOK, LocalInv, IdInv, NEW s \in Calls, Register(s), ~aliased', NEW n, n = NextId
  PROVE  IdInv'
<1> DEFINE e == [query |-> s[1], conn |-> local[s].conn, quiet |-> TRUE,
                 retry |-> s[2] = 1 /\ RetryReadError /\ ~local[s].created]
<1>1. n \in Ids /\ n \notin Remembered /\ n \in Free BY NextIdFree, Zenon DEF Register, Free
<1>2. pc'[s] = "write" /\ \A x \in Calls \ {s} : pc'[x] = pc[x] BY CallFrame DEF Register
<1>3. local'[s] = [local[s] EXCEPT !.id = n] /\ \A x \in Calls \ {s} : local'[x] = local[x] BY LocalFrame DEF Register
<1>4. local'[s].id = n /\ local'[s].conn = local[s].conn
  <2>1. local[s] \in Local BY DEF TypeOK
  <2> QED BY <1>3, <2>1 DEF Local
<1>5. queries' = [queries EXCEPT ![n] = e] BY Zenon DEF Register
<1>6. queries'[n].query = s[1] /\ queries'[n].conn = local[s].conn BY <1>1, <1>5, Zenon DEF TypeOK
<1>7. \A i \in Ids \ {n} : queries'[i] = queries[i] BY <1>5 DEF TypeOK
<1>8. UNCHANGED <<wire, rpc, rmsg>> BY DEF Register, readVars
<1>9. armed' = armed \cup {[kind |-> x, id |-> n, query |-> s[1], conn |-> local[s].conn] : x \in {"ctx", "conn"}}
  BY Zenon DEF Register
<1>10. ASSUME NEW x \in Calls, pc'[x] = "write" PROVE Its(local[x].id, x[1], local[x].conn)'
  <2>1. CASE x = s BY <1>4, <1>6, <2>1, Zenon DEF Its
  <2>2. CASE x # s
    <3>1. pc[x] = "write" /\ local'[x] = local[x] BY <1>2, <1>3, <1>10, <2>2, Zenon
    <3>2. local[x].id \in Ids /\ local[x].id # n BY <1>1, <3>1 DEF Remembered, TypeOK, Local
    <3>3. Its(local[x].id, x[1], local[x].conn) BY <3>1, Zenon DEF IdInv
    <3>4. queries'[local[x].id] = queries[local[x].id] BY <1>7, <3>2, Zenon
    <3> QED BY <3>1, <3>3, <3>4, Zenon DEF Its
  <2> QED BY <2>1, <2>2, Zenon
<1>11. ASSUME NEW t \in armed' PROVE Its(t.id, t.query, t.conn)'
  <2>1. CASE t \in armed
    <3>1. t.id \in Ids /\ t.id # n BY <1>1, <2>1 DEF Remembered, TypeOK, Timer
    <3>2. Its(t.id, t.query, t.conn) BY <2>1, Zenon DEF IdInv
    <3>3. queries'[t.id] = queries[t.id] BY <1>7, <3>1, Zenon
    <3> QED BY <3>2, <3>3, Zenon DEF Its
  <2>2. CASE t \notin armed
    <3>1. t.id = n /\ t.query = s[1] /\ t.conn = local[s].conn BY <1>9, <2>2
    <3> QED BY <1>6, <3>1, Zenon DEF Its
  <2> QED BY <2>1, <2>2, Zenon
<1>12. ASSUME NEW w \in wire' PROVE queries'[w[2]] # NoQuery => queries'[w[2]].query = w[3]
  <2>1. w \in wire /\ w[2] \in Ids /\ w[2] # n BY <1>1, <1>8, ZenonT(30) DEF Remembered, TypeOK
  <2> QED BY <1>7, <2>1, Zenon DEF IdInv
<1>13. ASSUME NEW k \in Conns, rpc'[k] = "take"
       PROVE queries'[rmsg'[k].id] # NoQuery => queries'[rmsg'[k].id].query = rmsg'[k].answer
  <2>1. rpc[k] = "take" /\ rmsg'[k] = rmsg[k] BY <1>8, <1>13
  <2>2. rmsg[k].id \in Ids /\ rmsg[k].id # n BY <1>1, <2>1, Zenon DEF Remembered, TypeOK, Message
  <2> QED BY <1>7, <2>1, <2>2 DEF IdInv
<1>14. \A k \in Conns : rpc'[k] = "release" => rmsg'[k].taken.query = rmsg'[k].answer BY <1>8, Zenon DEF IdInv
<1> QED BY <1>10, <1>11, <1>12, <1>13, <1>14, Zenon DEF IdInv

\* Every step but register keeps the IDs.
LEMMA NextOldIds == ASSUME TypeOK, [Next]_vars, \A s \in Calls : ~Register(s) PROVE OldIds
<1>1. CASE UNCHANGED vars
  BY <1>1, FewerOf, Zenon DEF vars, readVars, OldIds, OldWrites, OldWire, OldReads, OldTaken
<1>2. CASE Next
  BY <1>2, ElsewhereOldIds, ExchangeOldIds, CallOldIds, TimerOldIds, FinishOldIds, ReadOldIds
     DEF Next, Elsewhere, TimerStep, FinishStep
<1> QED BY <1>1, <1>2, Zenon

\* As long as no ID is aliased, whoever remembers one finds its own query.
LEMMA NextIds == Core /\ [Next]_vars /\ ~aliased' => IdInv'
<1> SUFFICES ASSUME Core, [Next]_vars, ~aliased' PROVE IdInv' OBVIOUS
<1>1. ASSUME NEW s \in Calls, Register(s) PROVE IdInv'
  <2>1. PICK n : n = NextId BY Zenon
  <2> QED BY <1>1, <2>1, RegisterIds DEF Core
<1> QED BY <1>1, NextOldIds, IdsKept DEF Core

-----------------------------------------------------------------------------
(* Retries                                                                 *)

\* Calls other than the second one of a query that is retried: nothing starts
\* it, and a call that wrote comes back only with its entry.
OldCalls ==
    \A q \in Queries :
        /\ pc[<<q, 2>>] = "none" => pc'[<<q, 2>>] = "none"
        /\ pc'[<<q, 1>>] \in Waiting \cup {"none"} =>
              \/ pc[<<q, 1>>] \in Waiting \cup {"none"}
              \/ pc[<<q, 1>>] = "write" /\ queries[local[<<q, 1>>].id] # NoQuery

\* A step that starts no call and registers nothing keeps RetryInv.
LEMMA RetriesKept == ASSUME TypeOK, RetryInv, OldIds, OldCalls PROVE RetryInv'
<1>1. ASSUME NEW q \in Queries, pc'[<<q, 1>>] \in Waiting \cup {"none"} PROVE pc'[<<q, 2>>] = "none"
  BY <1>1, Zenon DEF RetryInv, OldCalls, Waiting
<1>2. ASSUME NEW i \in Ids, queries'[i] # NoQuery, queries'[i].retry PROVE pc'[<<queries'[i].query, 2>>] = "none"
  <2>1. queries[i] # NoQuery /\ queries[i].retry /\ queries'[i].query = queries[i].query
    BY <1>2, Zenon DEF OldIds, FewerEntries
  <2>2. queries[i].query \in Queries BY <2>1, Zenon DEF TypeOK, Pending
  <2> QED BY <2>1, <2>2, Zenon DEF RetryInv, OldCalls
<1>3. ASSUME NEW q \in Queries, pc'[<<q, 1>>] = "write", queries'[local'[<<q, 1>>].id] # NoQuery
      PROVE pc'[<<q, 2>>] = "none"
  <2>1. <<q, 1>> \in Calls BY DEF Calls
  <2>2. pc[<<q, 1>>] = "write" /\ local'[<<q, 1>>] = local[<<q, 1>>] BY <1>3, <2>1 DEF OldIds, OldWrites
  <2>3. local[<<q, 1>>].id \in Ids BY <2>1, Zenon DEF TypeOK, Local
  <2>4. queries[local[<<q, 1>>].id] # NoQuery BY <1>3, <2>2, <2>3 DEF OldIds, FewerEntries
  <2> QED BY <2>2, <2>4 DEF RetryInv, OldCalls
<1> QED BY <1>1, <1>2, <1>3, Zenon DEF RetryInv, Waiting

\* The calls of exchangeAsync other than register.
LEMMA CallOldCalls == ASSUME TypeOK, NEW s \in Calls, CallStep(s), ~Register(s) PROVE OldCalls
<1>1. PICK label \in Labels : Goto(s, label)
  BY Zenon DEF CallStep, AcquireError, AcquireConn, RegisterError, RegisterErrorIdle, Write, WriteError, InvalidateLost,
         InvalidateBroken, Labels
<1>2. pc'[s] = label /\ \A x \in Calls \ {s} : pc'[x] = pc[x] BY <1>1, CallFrame
<1>3. pc[s] # "none"
  BY Zenon DEF CallStep, AcquireError, AcquireConn, RegisterError, RegisterErrorIdle, Write, WriteError, InvalidateLost,
         InvalidateBroken
<1>4. pc'[s] \in Waiting \cup {"none"} =>
          pc[s] \in Waiting \/ (pc[s] = "write" /\ queries[local[s].id] # NoQuery)
  <2>1. CASE WriteError(s)
    <3>1. pc[s] = "write" /\ Goto(s, IF queries[local[s].id] = NoQuery THEN "lost" ELSE "broken")
      BY <2>1, Zenon DEF WriteError
    <3>2. pc'[s] = IF queries[local[s].id] = NoQuery THEN "lost" ELSE "broken" BY <3>1, CallFrame
    <3> QED BY <3>1, <3>2, Zenon DEF Waiting
  <2>2. CASE Write(s) \/ InvalidateLost(s)
    <3>1. pc'[s] = "done" BY <2>2, CallFrame DEF Write, InvalidateLost
    <3> QED BY <3>1, Zenon DEF Waiting
  <2>3. CASE pc[s] \in Waiting BY <2>3
  <2> QED BY <2>1, <2>2, <2>3, Zenon DEF CallStep, AcquireError, AcquireConn, RegisterError, RegisterErrorIdle,
                                  InvalidateBroken, Waiting
<1>5. \A q \in Queries : <<q, 1>> \in Calls /\ <<q, 2>> \in Calls BY DEF Calls
<1>6. ASSUME NEW q \in Queries, pc[<<q, 2>>] = "none" PROVE pc'[<<q, 2>>] = "none" BY <1>2, <1>3, <1>5, <1>6, Zenon
<1>7. ASSUME NEW q \in Queries, pc'[<<q, 1>>] \in Waiting \cup {"none"}
      PROVE  \/ pc[<<q, 1>>] \in Waiting \cup {"none"}
             \/ pc[<<q, 1>>] = "write" /\ queries[local[<<q, 1>>].id] # NoQuery
  BY <1>2, <1>4, <1>5, <1>7, ZenonT(30)
<1> QED BY <1>6, <1>7, Zenon DEF OldCalls

\* register offers a retry only for a first call.
LEMMA RegisterRetries ==
  ASSUME TypeOK, LocalInv, RetryInv, NEW s \in Calls, Register(s), ~aliased', NEW n, n = NextId
  PROVE  RetryInv'
<1> DEFINE e == [query |-> s[1], conn |-> local[s].conn, quiet |-> TRUE,
                 retry |-> s[2] = 1 /\ RetryReadError /\ ~local[s].created]
<1>1. n \in Ids /\ n \notin Remembered /\ n \in Free BY NextIdFree, Zenon DEF Register, Free
<1>2. pc[s] = "register" /\ pc'[s] = "write" /\ \A x \in Calls \ {s} : pc'[x] = pc[x] BY CallFrame DEF Register
<1>3. \A x \in Calls \ {s} : local'[x] = local[x] BY LocalFrame, Zenon DEF Register
<1>4. queries' = [queries EXCEPT ![n] = e] BY DEF Register
<1>5. e.query = s[1] /\ (e.retry => s[2] = 1) BY Zenon
<1> HIDE DEF e
<1>6. queries'[n] = e /\ \A i \in Ids \ {n} : queries'[i] = queries[i] BY <1>1, <1>4 DEF TypeOK
<1>7. \A q \in Queries : <<q, 1>> \in Calls /\ <<q, 2>> \in Calls BY DEF Calls
<1>8. s[1] \in Queries /\ (s = <<s[1], 1>> \/ s = <<s[1], 2>>) BY DEF Calls
<1>9. \A q \in Queries : pc[<<q, 2>>] = "none" => pc'[<<q, 2>>] = "none" BY <1>2, <1>7, Zenon
<1>10. ASSUME NEW q \in Queries, pc'[<<q, 1>>] \in Waiting \cup {"none"} PROVE pc'[<<q, 2>>] = "none"
  BY <1>2, <1>7, <1>9, <1>10, Zenon DEF RetryInv, Waiting
<1>11. s = <<s[1], 1>> => pc'[<<s[1], 2>>] = "none" BY <1>2, <1>8, <1>9, Zenon DEF RetryInv
<1>12. ASSUME NEW i \in Ids, queries'[i] # NoQuery, queries'[i].retry PROVE pc'[<<queries'[i].query, 2>>] = "none"
  <2>1. CASE i = n
    <3>1. s[2] = 1 /\ queries'[i].query = s[1] BY <1>5, <1>6, <1>12, <2>1, Zenon
    <3>2. s = <<s[1], 1>> BY <1>8, <3>1
    <3> QED BY <1>11, <3>1, <3>2, Zenon
  <2>2. CASE i # n
    <3>1. queries'[i] = queries[i] BY <1>6, <2>2, Zenon
    <3>2. queries[i].query \in Queries BY <1>12, <3>1 DEF TypeOK, Pending
    <3> QED BY <1>9, <1>12, <3>1, <3>2 DEF RetryInv
  <2> QED BY <2>1, <2>2
<1>13. ASSUME NEW q \in Queries, pc'[<<q, 1>>] = "write", queries'[local'[<<q, 1>>].id] # NoQuery
       PROVE pc'[<<q, 2>>] = "none"
  <2>1. CASE s = <<q, 1>>
    <3>1. q = s[1] BY <2>1, Zenon
    <3> QED BY <1>11, <2>1, <3>1
  <2>2. CASE s # <<q, 1>>
    <3>1. local[<<q, 1>>].id \in Ids BY <1>7, Zenon DEF TypeOK, Local
    <3>2. pc[<<q, 1>>] = "write" /\ local'[<<q, 1>>] = local[<<q, 1>>] BY <1>2, <1>3, <1>7, <1>13, <2>2, Zenon
    <3>3. local[<<q, 1>>].id # n BY <1>1, <1>7, <3>2, Zenon DEF Remembered
    <3> QED BY <1>6, <1>9, <1>13, <3>1, <3>2, <3>3, Zenon DEF RetryInv
  <2> QED BY <2>1, <2>2
<1> QED BY <1>10, <1>12, <1>13 DEF RetryInv, Waiting

\* A retry: the read loop's connection is gone, and the entry was the only
\* thing left of the first call.
LEMMA ConnDoneRetries ==
  ASSUME TypeOK, IdInv, RetryInv, OwnerInv, NEW t, CompleteConnDone(t),
         NEW s \in Calls, s = <<t.query, 2>>, pc' = [pc EXCEPT ![s] = "acquire"]
  PROVE  RetryInv'
<1>1. TakeBy(t) BY Zenon DEF CompleteConnDone
<1>2. t.id \in Ids /\ t.query \in Queries BY <1>1, TimerEntry, ZenonT(30) DEF Timer
<1>3. <<"entry", t.id>> \in Tokens /\ QueryOf(<<"entry", t.id>>) = t.query BY <1>1, TimerEntry, Zenon
<1>4. queries'[t.id] = NoQuery /\ \A i \in Ids \ {t.id} : queries'[i] = queries[i] BY <1>1, TimerEntry, Zenon
<1>5. \A x \in Calls \ {s} : pc'[x] = pc[x] BY DEF TypeOK
<1>6. \A q \in Queries : <<q, 1>> \in Calls \ {s} /\ (q # t.query => <<q, 2>> \in Calls \ {s}) BY DEF Calls
<1>7. UNCHANGED local BY DEF CompleteConnDone
<1>8. pc[<<t.query, 1>>] \notin Waiting \cup {"none"}
  <2>1. CASE pc[<<t.query, 1>>] \in Waiting
    <3>1. <<"call", <<t.query, 1>>>> \in Tokens BY <1>2, <1>6, <2>1, TokenIs, Zenon
    <3>2. QueryOf(<<"call", <<t.query, 1>>>>) = t.query BY TokenHas
    <3>3. <<"call", <<t.query, 1>>>> = <<"entry", t.id>> BY <1>2, <1>3, <3>1, <3>2, SoleOwner, SMTT(30)
    <3> QED BY <3>3
  <2>2. CASE pc[<<t.query, 1>>] = "none"
    <3>1. <<"entry", t.id>> \in Owners(t.query) BY <1>3 DEF Owners
    <3> QED BY <1>2, <2>2, <3>1 DEF OwnerInv, Owned
  <2> QED BY <2>1, <2>2
<1>9. \A i \in Ids \ {t.id} : queries[i] # NoQuery => queries[i].query # t.query
  <2> SUFFICES ASSUME NEW i \in Ids \ {t.id}, queries[i] # NoQuery, queries[i].query = t.query PROVE FALSE BY Zenon
  <2>1. <<"entry", i>> \in Tokens /\ QueryOf(<<"entry", i>>) = t.query BY TokenIs, TokenHas
  <2>2. <<"entry", i>> = <<"entry", t.id>> BY <1>2, <1>3, <2>1, SoleOwner, Zenon
  <2> QED BY <2>2
<1>10. ASSUME NEW q \in Queries, pc'[<<q, 1>>] \in Waiting \cup {"none"} PROVE pc'[<<q, 2>>] = "none"
  BY <1>5, <1>6, <1>8, <1>10, Zenon DEF RetryInv, Waiting
<1>11. ASSUME NEW i \in Ids, queries'[i] # NoQuery, queries'[i].retry PROVE pc'[<<queries'[i].query, 2>>] = "none"
  <2>1. i # t.id /\ queries'[i] = queries[i] /\ queries[i].query # t.query BY <1>4, <1>9, <1>11, Zenon
  <2>2. queries[i].query \in Queries BY <1>11, <2>1, Zenon DEF TypeOK, Pending
  <2>3. pc[<<queries[i].query, 2>>] = "none" BY <1>11, <2>1 DEF RetryInv
  <2> QED BY <1>5, <1>6, <2>1, <2>2, <2>3
<1>12. ASSUME NEW q \in Queries, pc'[<<q, 1>>] = "write", queries'[local'[<<q, 1>>].id] # NoQuery
       PROVE pc'[<<q, 2>>] = "none"
  <2>1. pc[<<q, 1>>] = "write" /\ <<q, 1>> \in Calls BY <1>5, <1>6, <1>12, Zenon
  <2>2. PICK i \in Ids : i = local[<<q, 1>>].id BY <2>1, Zenon DEF TypeOK, Local
  <2>3. i # t.id /\ queries[i] # NoQuery BY <1>4, <1>7, <1>12, <2>2
  <2>4. queries[i].query = q BY <2>1, <2>2, <2>3, Zenon DEF IdInv, Its
  <2>5. q # t.query BY <1>9, <2>3, <2>4, Zenon
  <2>6. pc[<<q, 2>>] = "none" BY <2>1, <2>2, <2>3, Zenon DEF RetryInv
  <2> QED BY <1>5, <1>6, <2>5, <2>6
<1> QED BY <1>10, <1>11, <1>12, Zenon DEF RetryInv, Waiting

\* Every step keeps RetryInv.
LEMMA NextRetries == Core /\ [Next]_vars /\ ~aliased' => RetryInv'
<1> SUFFICES ASSUME Core, [Next]_vars, ~aliased' PROVE RetryInv' OBVIOUS
<1> USE DEF Core
<1>1. ASSUME NEW s \in Calls, Register(s) PROVE RetryInv'
  <2>1. PICK n : n = NextId OBVIOUS
  <2> QED BY <1>1, <2>1, RegisterRetries
<1>2. ASSUME UNCHANGED pc, \A s \in Calls : ~Register(s) PROVE RetryInv'
  <2>1. OldCalls BY <1>2 DEF OldCalls
  <2> QED BY <1>2, <2>1, NextOldIds, RetriesKept, Zenon
<1>3. ASSUME NEW s \in Calls, CallStep(s), \A x \in Calls : ~Register(x) PROVE RetryInv'
  BY <1>3, CallOldCalls, NextOldIds, RetriesKept
<1>4. ASSUME NEW q \in Queries, Exchange(q), \A x \in Calls : ~Register(x) PROVE RetryInv'
  <2>1. <<q, 1>> \in Calls BY DEF Calls
  <2>2. pc[<<q, 1>>] = "none" /\ pc' = [pc EXCEPT ![<<q, 1>>] = "acquire"] BY <1>4 DEF Exchange, Goto
  <2>3. pc'[<<q, 1>>] = "acquire" /\ \A x \in Calls \ {<<q, 1>>} : pc'[x] = pc[x] BY <2>1, <2>2 DEF TypeOK
  <2>4. \A p \in Queries : <<p, 2>> \in Calls \ {<<q, 1>>} /\ (p # q => <<p, 1>> \in Calls \ {<<q, 1>>}) BY DEF Calls
  <2>5. OldCalls BY <2>2, <2>3, <2>4, Zenon DEF OldCalls
  <2> QED BY <1>4, <2>5, NextOldIds, RetriesKept
<1>5. ASSUME NEW t, CompleteConnDone(t), \A x \in Calls : ~Register(x) PROVE RetryInv'
  <2>1. PICK s : s = <<t.query, 2>> BY Zenon
  <2>2. s \in Calls /\ (pc' = [pc EXCEPT ![s] = "acquire"] \/ UNCHANGED pc) BY <1>5, <2>1, ConnDoneTokens, Zenon
  <2> QED BY <1>2, <1>5, <2>1, <2>2, ConnDoneRetries
<1>6. CASE Elsewhere \/ UNCHANGED vars
  BY <1>1, <1>2, <1>6, ElsewhereFrame, Zenon DEF vars
<1>7. ASSUME NEW t, CompleteContextDone(t) PROVE UNCHANGED pc BY <1>7, Zenon DEF CompleteContextDone
<1>8. ASSUME NEW f, FinishPool(f) \/ FinishIdle(f) PROVE UNCHANGED pc BY <1>8 DEF FinishPool, FinishIdle
<1>9. ASSUME NEW k \in Conns, ReadMessage(k) \/ ReadGarbage(k) \/ ReadError(k) \/ CompleteStep(k) PROVE UNCHANGED pc
  BY <1>9 DEF ReadMessage, ReadGarbage, ReadError, CompleteStep, Complete, CompleteRelease, CompleteIdle
<1> QED BY <1>1, <1>2, <1>3, <1>4, <1>5, <1>6, <1>7, <1>8, <1>9, SMTT(30) DEF Next, Elsewhere, TimerStep, FinishStep

-----------------------------------------------------------------------------
(* Answers                                                                 *)

\* A callback with the query's own answer or with an error keeps Matched.
LEMMA MatchedKept ==
  ASSUME TypeOK, Matched, NEW p \in Queries, NEW r \in {p, NoQuery}, Callback(p, r)
  PROVE  Matched'
<1> SUFFICES ASSUME NEW q \in Queries, NEW i \in 1 .. Len(answers'[q]) PROVE answers'[q][i] \in {q, NoQuery} BY DEF Matched
<1>1. answers'[p] = Append(answers[p], r) /\ \A x \in Queries \ {p} : answers'[x] = answers[x] BY CallbackFrame
<1>2. answers[q] \in Seq(Queries \cup {NoQuery}) BY DEF TypeOK
<1>3. CASE q # p BY <1>1, <1>3, Zenon DEF Matched
<1>4. CASE q = p
  <2>0. Len(answers[q]) \in Nat BY <1>2
  <2>1. i \in 1 .. Len(answers[q]) + 1 BY <1>1, <1>2, <1>4
  <2>2. CASE i = Len(answers[q]) + 1 BY <1>1, <1>2, <1>4, <2>2
  <2>3. CASE i \in 1 .. Len(answers[q])
    <3>1. answers'[q][i] = answers[q][i] BY <1>1, <1>2, <1>4, <2>3
    <3> QED BY <2>3, <3>1 DEF Matched
  <2>4. i = Len(answers[q]) + 1 \/ i \in 1 .. Len(answers[q]) BY <2>0, <2>1
  <2> QED BY <2>2, <2>3, <2>4, Zenon
<1> QED BY <1>3, <1>4

\* A callback gets an error, or what the read loop has read for its query.
LEMMA NextCallback ==
  ASSUME Core, [Next]_vars
  PROVE  UNCHANGED answers \/ \E p \in Queries : \E r \in {p, NoQuery} : Callback(p, r)
<1> USE DEF Core
<1>1. CASE Elsewhere \/ UNCHANGED vars BY <1>1, ElsewhereFrame, Zenon DEF vars
<1>2. ASSUME NEW q \in Queries, Exchange(q) PROVE UNCHANGED answers BY <1>2 DEF Exchange
<1>3. ASSUME NEW s \in Calls, CallStep(s) PROVE UNCHANGED answers \/ \E p \in Queries : Callback(p, NoQuery)
  <2>1. s[1] \in Queries BY DEF Calls
  <2>2. UNCHANGED answers \/ Callback(s[1], NoQuery)
    BY <1>3, Zenon DEF CallStep, AcquireError, AcquireConn, Register, RegisterError, RegisterErrorIdle, Write, WriteError,
                InvalidateLost, InvalidateBroken
  <2> QED BY <2>1, <2>2
<1>4. ASSUME NEW t, CompleteContextDone(t) \/ CompleteConnDone(t)
      PROVE  UNCHANGED answers \/ \E p \in Queries : Callback(p, NoQuery)
  <2>1. CASE CompleteContextDone(t) BY <2>1 DEF CompleteContextDone
  <2>2. CASE CompleteConnDone(t)
    <3>1. TakeBy(t) BY <2>2, Zenon DEF CompleteConnDone
    <3>2. queries[t.id].query \in Queries BY <3>1, TimerEntry, Zenon DEF Pending
    <3>3. UNCHANGED answers \/ Callback(queries[t.id].query, NoQuery) BY <2>2 DEF CompleteConnDone
    <3> QED BY <3>2, <3>3
  <2> QED BY <1>4, <2>1, <2>2, Zenon
<1>5. ASSUME NEW f \in finishing, FinishPool(f) \/ FinishIdle(f)
      PROVE  UNCHANGED answers \/ \E p \in Queries : Callback(p, NoQuery)
  <2>1. f.query \in Queries BY DEF TypeOK, Finish
  <2>2. UNCHANGED answers \/ Callback(f.query, NoQuery) BY <1>5 DEF FinishPool, FinishIdle
  <2> QED BY <2>1, <2>2
<1>6. ASSUME NEW k \in Conns, CompleteRelease(k) PROVE \E p \in Queries : Callback(p, p)
  <2>1. rmsg[k].answer \in Queries /\ rmsg[k].taken.query = rmsg[k].answer BY <1>6, Zenon DEF CompleteRelease, LocalInv, IdInv
  <2>2. Callback(rmsg[k].taken.query, rmsg[k].answer) BY <1>6 DEF CompleteRelease
  <2> QED BY <2>1, <2>2, Zenon
<1>7. ASSUME NEW k \in Conns, ReadMessage(k) \/ ReadGarbage(k) \/ ReadError(k) \/ Complete(k) \/ CompleteIdle(k)
      PROVE UNCHANGED answers
  BY <1>7, Zenon DEF ReadMessage, ReadGarbage, ReadError, Complete, CompleteIdle
<1>8. CASE Next
  BY <1>1, <1>2, <1>3, <1>4, <1>5, <1>6, <1>7, <1>8, SMTT(30) DEF Next, Elsewhere, TimerStep, FinishStep, CompleteStep
<1> QED BY <1>1, <1>8

\* Every step keeps Matched.
LEMMA NextMatched == Core /\ [Next]_vars => Matched'
<1> SUFFICES ASSUME Core, [Next]_vars PROVE Matched' OBVIOUS
<1>1. CASE UNCHANGED answers BY <1>1 DEF Core, Matched
<1> QED BY <1>1, NextCallback, MatchedKept DEF Core
=============================================================================
