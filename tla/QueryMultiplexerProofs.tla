----------------------- MODULE QueryMultiplexerProofs -----------------------
(***************************************************************************)
(* Proofs about QueryMultiplexer, for any number of queries, connections,  *)
(* IDs and operations of the owner: the users of the connection are the    *)
(* tokens on it, and with QueryMultiplexerTokens the invariant holds in    *)
(* every reachable state in which no ID has been aliased.                  *)
(***************************************************************************)
EXTENDS QueryMultiplexerTokens, FiniteSetTheorems

-----------------------------------------------------------------------------
(* The users of the connection                                             *)

Vacated == cur # NoConn /\ cur' = NoConn /\ claimed' = FALSE /\ users' = 0 /\ past' = past \cup {cur}
Connected == cur = NoConn /\ cur' \in Conns \ past /\ UNCHANGED <<claimed, users, past>>
Returned == cur # NoConn /\ UNCHANGED <<cur, claimed, past>> /\ users' = IF users > 0 THEN users - 1 ELSE users

HoldInv == KnownConns /\ IsFiniteSet(Tokens) /\ Counted

\* Only the tokens in X can come to hold a connection or let go of it.
LEMMA HoldersAre ==
  ASSUME NEW X, Others(X), NEW c, \A x \in X : x \in Holders(c)' <=> x \in Holders(c)
  PROVE  Holders(c)' = Holders(c)
<1>1. \A o : o \notin X => (o \in Holders(c)' <=> o \in Holders(c)) BY DEF Others, Holders
<1> QED BY <1>1

\* The users of a connection can be counted.
LEMMA HoldersFinite == ASSUME IsFiniteSet(Tokens), NEW c PROVE IsFiniteSet(Holders(c)) /\ Cardinality(Holders(c)) \in Nat
<1>1. Holders(c) \subseteq Tokens BY DEF Holders
<1> QED BY <1>1, FS_Subset, FS_CardinalityType

\* A step changes at most two tokens.
LEMMA TokensFinite ==
  ASSUME IsFiniteSet(Tokens), NEW a, NEW b, Others({a, b}) PROVE IsFiniteSet(Tokens')
<1>1. Tokens' \subseteq (Tokens \cup {a}) \cup {b} BY DEF Others
<1>2. IsFiniteSet((Tokens \cup {a}) \cup {b}) BY FS_AddElement, Zenon
<1> QED BY <1>1, <1>2, FS_Subset

\* Whatever was known of is still known of.
LEMMA KnownKept ==
  ASSUME KnownConns, UNCHANGED <<cur, past>> \/ Vacated \/ Connected, NEW X, Others(X),
         \A x \in X : x \in Tokens' => ConnOf(x)' \in past \cup {cur, NoConn}
  PROVE  KnownConns'
<1> SUFFICES ASSUME NEW o \in Tokens' PROVE ConnOf(o)' \in past' \cup {cur', NoConn} BY DEF KnownConns
<1>1. ConnOf(o)' \in past \cup {cur, NoConn} BY DEF KnownConns, Others
<1> QED BY <1>1 DEF Vacated, Connected

\* Nobody holds a connection that is new.
LEMMA NewUnheld ==
  ASSUME KnownConns, NEW c \in Conns, c \notin past, cur = NoConn PROVE Holders(c) = {}
BY MultiplexerAssumption DEF KnownConns, Holders

\* The count, when the pool loses or gets a connection and no token is touched.
LEMMA HoldStill ==
  ASSUME TypeOK, PoolInv, HoldInv, Others({}), UNCHANGED <<cur, users, past>> \/ Vacated \/ Connected
  PROVE  HoldInv'
<1>1. KnownConns' BY KnownKept DEF HoldInv
<1>2. IsFiniteSet(Tokens') BY DEF HoldInv, Others
<1>3. \A c : Holders(c)' = Holders(c) BY DEF Others, Holders
<1>4. CASE UNCHANGED <<cur, users, past>>
  <2>1. PICK c : c = cur OBVIOUS
  <2>2. Holders(c)' = Holders(c) BY <1>3
  <2>3. Counted' BY <1>4, <2>1, <2>2 DEF Counted, HoldInv, Holders
  <2> QED BY <1>1, <1>2, <2>3 DEF HoldInv
<1>5. CASE Vacated BY <1>1, <1>2, <1>5 DEF Vacated, Counted, HoldInv
<1>6. CASE Connected
  <2>1. PICK c \in Conns : c = cur' /\ c \notin past BY <1>6 DEF Connected
  <2>2. Holders(c) = {} BY <1>6, <2>1, NewUnheld DEF Connected, HoldInv
  <2>3. Cardinality({}) = 0 BY FS_EmptySet, Zenon
  <2>4. users' = 0 BY <1>6, Zenon DEF Connected, PoolInv
  <2>5. Holders(c)' = {} BY <1>3, <2>2
  <2>6. Holders(cur)' = {} BY <2>1, <2>5 DEF Holders
  <2>7. Counted' BY <2>3, <2>4, <2>6 DEF Counted
  <2> QED BY <1>1, <1>2, <2>7 DEF HoldInv
<1> QED BY <1>4, <1>5, <1>6, Zenon

\* Counted, for a connection and the set of its users.
LEMMA CountedIf ==
  ASSUME NEW c, cur' = c, NEW S, S = Holders(c)', c # NoConn => users' = Cardinality(S)
  PROVE  Counted'
<1>1. Holders(cur)' = S BY Zenon DEF Holders
<1> QED BY <1>1 DEF Counted

\* Token a lets go of its connection, or of none.
LEMMA HoldFrees ==
  ASSUME TypeOK, PoolInv, HoldInv, NEW a \in Tokens, Others({a}), a \in Tokens' => ConnOf(a)' = NoConn,
         \/ UNCHANGED <<cur, users, past>> /\ (ConnOf(a) # cur \/ cur = NoConn)
         \/ Vacated
         \/ Returned /\ ConnOf(a) = cur
  PROVE  HoldInv'
<1>1. KnownConns' BY KnownKept DEF HoldInv, Returned
<1>2. IsFiniteSet(Tokens')
  <2>1. Others({a, a}) OBVIOUS
  <2> QED BY <2>1, TokensFinite, Zenon DEF HoldInv
<1>3. CASE UNCHANGED <<cur, users, past>> /\ (ConnOf(a) # cur \/ cur = NoConn)
  <2>1. PICK c : c = cur BY Zenon
  <2>2. c # NoConn => Holders(c)' = Holders(c) BY <1>3, <2>1, HoldersAre DEF Holders
  <2>3. c # NoConn => users' = Cardinality(Holders(c)') BY <1>3, <2>1, <2>2 DEF HoldInv, Counted
  <2>4. Counted' BY <1>3, <2>1, <2>3, CountedIf, Zenon
  <2> QED BY <1>1, <1>2, <2>4 DEF HoldInv
<1>4. CASE Vacated BY <1>1, <1>2, <1>4, Zenon DEF Vacated, Counted, HoldInv
<1>5. CASE Returned /\ ConnOf(a) = cur
  <2>1. PICK c : c = cur /\ c # NoConn BY <1>5 DEF Returned
  <2>2. a \in Holders(c) BY <1>5, <2>1, Zenon DEF Holders
  <2>3. Holders(c)' = Holders(c) \ {a} BY <2>1, <2>2, Zenon DEF Holders, Others
  <2>4. users = Cardinality(Holders(c)) BY <2>1 DEF HoldInv, Counted
  <2>5. IsFiniteSet(Holders(c)) BY HoldersFinite DEF HoldInv
  <2>6. Cardinality(Holders(c) \ {a}) = Cardinality(Holders(c)) - 1 BY <2>2, <2>5, FS_RemoveElement, Zenon
  <2>7. Cardinality(Holders(c)) # 0 BY <2>2, <2>5, FS_EmptySet, Zenon
  <2>8. users' = users - 1 BY <1>5, <2>4, <2>7 DEF Returned, TypeOK
  <2>9. users' = Cardinality(Holders(c)') BY <2>3, <2>4, <2>6, <2>8, Zenon
  <2>10. Counted' BY <1>5, <2>1, <2>9, CountedIf DEF Returned
  <2> QED BY <1>1, <1>2, <2>10 DEF HoldInv
<1> QED BY <1>3, <1>4, <1>5, Zenon

\* Token a hands its connection on to b, or loses one that is not current.
LEMMA HoldHandsOn ==
  ASSUME TypeOK, HoldInv, NEW a, NEW b, HandsOn(a, b), UNCHANGED <<cur, users, past>>,
         \/ ConnOf(b)' = ConnOf(a)
         \/ ConnOf(b)' = NoConn /\ ConnOf(a) # cur
  PROVE  HoldInv'
<1>1. a # b /\ Others({a, b}) BY DEF HandsOn
<1>2. ConnOf(b)' \in past \cup {cur, NoConn} BY Zenon DEF HandsOn, HoldInv, KnownConns
<1>3. KnownConns' BY <1>1, <1>2, KnownKept DEF HoldInv, HandsOn
<1>4. IsFiniteSet(Tokens') BY <1>1, TokensFinite, Zenon DEF HoldInv
<1>5. PICK c : c = cur OBVIOUS
<1>6. c # NoConn => users = Cardinality(Holders(c)) BY <1>5, Zenon DEF HoldInv, Counted
<1>7. CASE c # NoConn /\ ConnOf(b)' = ConnOf(a) /\ ConnOf(a) = c
  <2>1. a \in Holders(c) /\ b \notin Holders(c) BY <1>7, Zenon DEF HandsOn, Holders
  <2>2. Holders(c)' = (Holders(c) \ {a}) \cup {b} BY <1>1, <1>7, <2>1 DEF HandsOn, Holders, Others
  <2>3. IsFiniteSet(Holders(c)) /\ Cardinality(Holders(c)) \in Nat BY HoldersFinite, Zenon DEF HoldInv
  <2>4. IsFiniteSet(Holders(c) \ {a}) /\ Cardinality(Holders(c) \ {a}) = Cardinality(Holders(c)) - 1
    BY <2>1, <2>3, FS_RemoveElement
  <2>5. b \notin Holders(c) \ {a} BY <2>1
  <2>6. Cardinality((Holders(c) \ {a}) \cup {b}) = Cardinality(Holders(c) \ {a}) + 1 BY <2>4, <2>5, FS_AddElement, Zenon
  <2>7. users' = Cardinality(Holders(c)') BY <1>6, <1>7, <2>2, <2>3, <2>4, <2>6, SMTT(30)
  <2>8. Counted' BY <1>5, <2>7, CountedIf
  <2> QED BY <1>3, <1>4, <2>8 DEF HoldInv
<1>8. CASE c # NoConn /\ ConnOf(b)' # c /\ ConnOf(a) # c
  <2>3. \A x \in {a, b} : x \notin Holders(c)' /\ x \notin Holders(c) BY <1>8 DEF Holders, HandsOn
  <2>1. Holders(c)' = Holders(c) BY <1>1, <2>3, HoldersAre
  <2>2. Counted' BY <1>5, <1>6, <2>1, CountedIf
  <2> QED BY <1>3, <1>4, <2>2 DEF HoldInv
<1>9. CASE c = NoConn BY <1>3, <1>4, <1>5, <1>9 DEF HoldInv, Counted
<1> QED BY <1>5, <1>7, <1>8, <1>9

\* A token that appears holds nothing.
LEMMA HoldAppears ==
  ASSUME TypeOK, HoldInv, NEW b, Appears(b), ConnOf(b)' = NoConn, UNCHANGED <<cur, users, past>>
  PROVE  HoldInv'
<1>1. Others({b}) /\ Others({b, b}) BY DEF Appears
<1>2. KnownConns' BY <1>1, KnownKept DEF HoldInv
<1>3. IsFiniteSet(Tokens') BY <1>1, TokensFinite, Zenon DEF HoldInv
<1>4. PICK c : c = cur OBVIOUS
<1>5. c # NoConn => Holders(c)' = Holders(c) BY <1>1, HoldersAre DEF Holders, Appears
<1>6. c # NoConn => users' = Cardinality(Holders(c)') BY <1>4, <1>5 DEF HoldInv, Counted
<1>7. Counted' BY <1>4, <1>6, CountedIf
<1> QED BY <1>2, <1>3, <1>7 DEF HoldInv

\* A call gets the current connection, and is one more user.
LEMMA HoldAcquires ==
  ASSUME TypeOK, HoldInv, NEW a, Stays(a), ConnOf(a) = NoConn, ConnOf(a)' = cur, cur # NoConn,
         UNCHANGED <<cur, past>>, users' = users + 1
  PROVE  HoldInv'
<1>1. Others({a}) /\ Others({a, a}) BY DEF Stays
<1>2. KnownConns' BY <1>1, KnownKept DEF HoldInv
<1>3. IsFiniteSet(Tokens') BY <1>1, TokensFinite, Zenon DEF HoldInv
<1>4. PICK c : c = cur OBVIOUS
<1>5. a \notin Holders(c) BY <1>4 DEF Holders
<1>6. Holders(c)' = Holders(c) \cup {a} BY <1>1, <1>4, <1>5 DEF Holders, Stays, Others
<1>7. IsFiniteSet(Holders(c)) BY HoldersFinite DEF HoldInv
<1>8. Cardinality(Holders(c) \cup {a}) = Cardinality(Holders(c)) + 1 BY <1>5, <1>7, FS_AddElement
<1>9. users' = Cardinality(Holders(c)') BY <1>4, <1>6, <1>8 DEF HoldInv, Counted
<1>10. Counted' BY <1>4, <1>9, CountedIf
<1> QED BY <1>2, <1>3, <1>10 DEF HoldInv

\* What the operations of the pool do to the current connection.
LEMMA PoolOps ==
  ASSUME TypeOK
  PROVE  /\ \A k \in Conns : Pool!GiveBack(k) =>
               IF k = cur THEN Returned ELSE UNCHANGED <<cur, claimed, users, past>>
         /\ \A k \in Conns : \A cause : Discard(k, cause) =>
               IF k = cur THEN Vacated ELSE UNCHANGED <<cur, claimed, users, past>>
         /\ CloseIdle => Vacated \/ UNCHANGED <<cur, claimed, users, past>>
<1>1. Pool!Drop => Vacated BY DEF Pool!Drop, Pool!Vacate, Vacated
<1>2. ASSUME NEW k \in Conns, Pool!GiveBack(k) PROVE IF k = cur THEN Returned ELSE UNCHANGED <<cur, claimed, users, past>>
  BY <1>2, MultiplexerAssumption DEF Pool!GiveBack, Returned
<1>3. ASSUME NEW k \in Conns, NEW cause, Discard(k, cause)
      PROVE IF k = cur THEN Vacated ELSE UNCHANGED <<cur, claimed, users, past>>
  BY <1>1, <1>3 DEF Discard, Pool!Discard
<1>4. CloseIdle => Vacated \/ UNCHANGED <<cur, claimed, users, past>> BY <1>1 DEF CloseIdle, Pool!DropIdle, poolVars
<1> QED BY <1>2, <1>3, <1>4

\* What the other steps do to the current connection.
LEMMA ElsewherePool == Elsewhere /\ TypeOK => UNCHANGED <<cur, claimed, users, past>> \/ Vacated \/ Connected
<1> SUFFICES ASSUME Elsewhere, TypeOK PROVE UNCHANGED <<cur, claimed, users, past>> \/ Vacated \/ Connected OBVIOUS
<1>1. Pool!Drop => Vacated BY DEF Pool!Drop, Pool!Vacate, Vacated
<1>2. Pool!Replace => Vacated \/ UNCHANGED <<cur, claimed, users, past>> BY DEF Pool!Replace, Pool!Vacate, Vacated
<1>3. ASSUME NEW k \in Conns, Connect(k) PROVE Connected BY <1>3 DEF Connect, Pool!Connect, Connected
<1>4. ASSUME NEW keep \in BOOLEAN, SetKeepIdle(keep) PROVE UNCHANGED <<cur, claimed, users, past>> \/ Vacated
  BY <1>1, <1>4, Zenon DEF SetKeepIdle, Pool!DropIdle, poolVars
<1>5. CASE CloseIdleConnections \/ Reset \/ Close
  BY <1>1, <1>2, <1>5, Zenon DEF CloseIdleConnections, Reset, Close, Pool!DropIdle, Pool!Reset, Pool!Close
<1> QED BY <1>3, <1>4, <1>5, Zenon DEF Elsewhere, EndContext, TimerLate, EndPast, ClosePast, Lose, poolVars

\* The steps of a call keep the count, ...
LEMMA CallHold ==
  ASSUME TypeOK, LocalInv, PoolInv, IdInv, HoldInv, NEW s \in Calls, CallStep(s)
  PROVE  HoldInv'
<1>1. CASE AcquireError(s)
  <2>1. UNCHANGED <<cur, users, past>> BY <1>1, Zenon DEF AcquireError, poolVars
  <2> QED BY <1>1, <2>1, AcquireErrorTokens, HoldFrees, Zenon DEF Leaves
<1>2. CASE AcquireConn(s)
  <2>1. cur # NoConn /\ UNCHANGED <<cur, past>> /\ users' = users + 1 BY <1>2 DEF AcquireConn, Pool!HandOut
  <2> QED BY <1>2, <2>1, AcquireConnTokens, HoldAcquires, Zenon
<1>3. CASE Register(s)
  <2>1. PICK n : n = NextId OBVIOUS
  <2>2. UNCHANGED <<cur, users, past>> BY <1>3 DEF Register, poolVars
  <2>3. HandsOn(<<"call", s>>, <<"entry", n>>) /\ ConnOf(<<"entry", n>>)' = ConnOf(<<"call", s>>)
    BY <1>3, <2>1, RegisterTokens, Zenon
  <2> QED BY <2>2, <2>3, HoldHandsOn
<1>4. CASE RegisterError(s)
  <2>1. PICK k \in Conns : k = local[s].conn BY <1>4, Zenon DEF RegisterError, LocalInv
  <2>2. IF k = cur THEN Returned ELSE UNCHANGED <<cur, claimed, users, past>>
    BY <1>4, <2>1, PoolOps, Zenon DEF RegisterError
  <2> QED BY <1>4, <2>1, <2>2, RegisterErrorTokens, HoldFrees, Zenon DEF Stays
<1>5. CASE RegisterErrorIdle(s)
  <2>1. Vacated \/ UNCHANGED <<cur, claimed, users, past>> BY <1>5, PoolOps, Zenon DEF RegisterErrorIdle
  <2> QED BY <1>5, <2>1, RegisterErrorIdleTokens, HoldFrees, Zenon DEF Leaves
<1>6. CASE Write(s)
  <2>1. UNCHANGED <<cur, users, past>> BY <1>6 DEF Write, poolVars
  <2> QED BY <1>6, <2>1, WriteTokens, HoldStill, Zenon
<1>7. CASE WriteError(s)
  <2>1. PICK n : n = local[s].id OBVIOUS
  <2>2. UNCHANGED <<cur, users, past>> BY <1>7, Zenon DEF WriteError, poolVars
  <2>3. CASE queries[n] = NoQuery BY <1>7, <2>1, <2>2, <2>3, WriteErrorTokens, HoldStill, Zenon
  <2>4. CASE queries[n] # NoQuery
    <3>1. HandsOn(<<"entry", n>>, <<"call", s>>) /\ ConnOf(<<"call", s>>)' = ConnOf(<<"entry", n>>)
      BY <1>7, <2>1, <2>4, WriteErrorTokens
    <3> QED BY <2>2, <3>1, HoldHandsOn, Zenon
  <2> QED BY <2>3, <2>4
<1>8. CASE InvalidateLost(s)
  <2>1. PICK k \in Conns : k = local[s].conn BY <1>8, Zenon DEF InvalidateLost, LocalInv
  <2>2. UNCHANGED <<cur, users, past>> \/ Vacated BY <1>8, <2>1, PoolOps, Zenon DEF InvalidateLost
  <2> QED BY <1>8, <2>2, WriteTokens, HoldStill
<1>9. CASE InvalidateBroken(s)
  <2>1. PICK k \in Conns : k = local[s].conn BY <1>9 DEF InvalidateBroken, LocalInv
  <2>2. IF k = cur THEN Vacated ELSE UNCHANGED <<cur, claimed, users, past>>
    BY <1>9, <2>1, PoolOps, Zenon DEF InvalidateBroken
  <2>3. <<"call", s>> \in Tokens /\ Others({<<"call", s>>}) /\ ConnOf(<<"call", s>>) = k
    BY <1>9, <2>1, InvalidateBrokenTokens, Zenon DEF Stays, Leaves
  <2>4. <<"call", s>> \in Tokens' => ConnOf(<<"call", s>>)' = NoConn
    BY <1>9, InvalidateBrokenTokens, Zenon DEF Leaves
  <2> QED BY <2>2, <2>3, <2>4, HoldFrees
<1> QED BY <1>1, <1>2, <1>3, <1>4, <1>5, <1>6, <1>7, <1>8, <1>9, SMTT(30) DEF CallStep

\* ... those of a read loop ...
LEMMA ReadHold ==
  ASSUME TypeOK, LocalInv, PoolInv, HoldInv, NEW k \in Conns,
         ReadMessage(k) \/ ReadGarbage(k) \/ ReadError(k) \/ CompleteStep(k)
  PROVE  HoldInv'
<1>1. CASE ReadMessage(k) \/ ReadGarbage(k)
  <2>1. UNCHANGED <<cur, users, past>> BY <1>1, Zenon DEF ReadMessage, ReadGarbage, poolVars
  <2> QED BY <1>1, <2>1, ReadTokens, HoldStill
<1>2. CASE ReadError(k)
  <2>1. UNCHANGED <<cur, users, past>> \/ Vacated BY <1>2, PoolOps DEF ReadError
  <2> QED BY <1>2, <2>1, ReadTokens, HoldStill, Zenon
<1>3. CASE CompleteIdle(k)
  <2>1. UNCHANGED <<cur, users, past>> \/ Vacated BY <1>3, PoolOps DEF CompleteIdle
  <2> QED BY <1>3, <2>1, ReadTokens, HoldStill, Zenon
<1>4. CASE Complete(k)
  <2>1. PICK n : n = rmsg[k].id OBVIOUS
  <2>2. UNCHANGED <<cur, users, past>> BY <1>4, Zenon DEF Complete, poolVars
  <2>3. CASE queries[n] = NoQuery BY <1>4, <2>1, <2>2, <2>3, CompleteTokens, HoldStill, Zenon
  <2>4. CASE queries[n] # NoQuery
    <3>1. HandsOn(<<"entry", n>>, <<"loop", k>>) /\ ConnOf(<<"loop", k>>)' = ConnOf(<<"entry", n>>)
      BY <1>4, <2>1, <2>4, CompleteTokens
    <3> QED BY <2>2, <3>1, HoldHandsOn
  <2> QED BY <2>3, <2>4
<1>5. CASE CompleteRelease(k)
  <2>1. PICK c \in Conns : c = rmsg[k].taken.conn BY <1>5, Zenon DEF CompleteRelease, LocalInv, Pending
  <2>2. IF c = cur THEN Returned ELSE UNCHANGED <<cur, claimed, users, past>>
    BY <1>5, <2>1, PoolOps, Zenon DEF CompleteRelease
  <2>3. Leaves(<<"loop", k>>) /\ ConnOf(<<"loop", k>>) = c BY <1>5, <2>1, CompleteReleaseTokens
  <2> QED BY <2>2, <2>3, HoldFrees DEF Leaves
<1> QED BY <1>1, <1>2, <1>3, <1>4, <1>5 DEF CompleteStep

\* ... and those of a timer.
LEMMA TimerHold ==
  ASSUME TypeOK, PoolInv, IdInv, RetryInv, OwnerInv, HoldInv, NEW t, CompleteContextDone(t) \/ CompleteConnDone(t)
  PROVE  HoldInv'
<1>1. UNCHANGED <<cur, users, past>> BY Zenon DEF CompleteContextDone, CompleteConnDone, poolVars
<1>2. CASE CompleteContextDone(t)
  <2>1. PICK f \in Finish : /\ HandsOn(<<"entry", t.id>>, <<"finish", f>>)
                            /\ ConnOf(<<"finish", f>>)' = ConnOf(<<"entry", t.id>>)
    BY <1>2, ContextDoneTokens, Zenon
  <2> QED BY <1>1, <2>1, HoldHandsOn
<1>3. CASE CompleteConnDone(t)
  <2>1. PICK s : s = <<t.query, 2>> BY Zenon
  <2>2. TakeBy(t) /\ t.kind = "conn" BY <1>3, Zenon DEF CompleteConnDone
  <2>3. t \in Timer /\ ConnOf(<<"entry", t.id>>) = t.conn BY <2>2, TimerEntry, Zenon
  <2>4. t.conn \in past BY <2>2, <2>3 DEF TakeBy, Fired, PoolInv, Timer
  <2>5. ConnOf(<<"entry", t.id>>) # cur BY <2>3, <2>4 DEF PoolInv
  <2>6. CASE HandsOn(<<"entry", t.id>>, <<"call", s>>) /\ ConnOf(<<"call", s>>)' = NoConn
    BY <1>1, <2>5, <2>6, HoldHandsOn
  <2>7. CASE Leaves(<<"entry", t.id>>) BY <1>1, <2>5, <2>7, HoldFrees, Zenon DEF Leaves
  <2> QED BY <1>3, <2>1, <2>6, <2>7, ConnDoneTokens
<1> QED BY <1>2, <1>3

\* Every step keeps the count.
LEMMA NextHold == Core /\ [Next]_vars => HoldInv'
<1> SUFFICES ASSUME Core, [Next]_vars PROVE HoldInv' OBVIOUS
<1> USE DEF Core
<1>0. HoldInv BY DEF HoldInv
<1>1. CASE Elsewhere
  <2>1. Others({}) BY <1>1, ElsewhereFrame, StillTokens
  <2> QED BY <1>0, <1>1, <2>1, ElsewherePool, HoldStill
<1>2. CASE UNCHANGED vars
  <2>1. UNCHANGED <<pc, local, queries, finishing, rpc, rmsg, cur, users, past>> BY <1>2 DEF vars, readVars, poolVars
  <2> QED BY <1>0, <2>1, StillTokens, HoldStill, Zenon
<1>3. ASSUME NEW q \in Queries, Exchange(q) PROVE HoldInv'
  <2>1. UNCHANGED <<cur, users, past>> BY <1>3, Zenon DEF Exchange, poolVars
  <2>2. PICK b : b = <<"call", <<q, 1>>>> BY Zenon
  <2>3. Appears(b) /\ ConnOf(b)' = NoConn BY <1>3, <2>2, ExchangeTokens
  <2> QED BY <1>0, <2>1, <2>3, HoldAppears
<1>4. ASSUME NEW s \in Calls, CallStep(s) PROVE HoldInv' BY <1>0, <1>4, CallHold
<1>5. ASSUME NEW t, CompleteContextDone(t) \/ CompleteConnDone(t) PROVE HoldInv' BY <1>0, <1>5, TimerHold
<1>6. ASSUME NEW f, FinishPool(f) PROVE HoldInv'
  <2>1. PICK k \in Conns : k = f.conn BY <1>6, FinishPoolTokens, Zenon DEF Finish
  <2>2. Leaves(<<"finish", f>>) /\ ConnOf(<<"finish", f>>) = k BY <1>6, <2>1, FinishPoolTokens
  <2>3. IF k = cur THEN Returned \/ Vacated ELSE UNCHANGED <<cur, claimed, users, past>>
    BY <1>6, <2>1, PoolOps DEF FinishPool
  <2> QED BY <1>0, <2>2, <2>3, HoldFrees DEF Leaves
<1>7. ASSUME NEW f, FinishIdle(f) PROVE HoldInv'
  <2>1. Vacated \/ UNCHANGED <<cur, claimed, users, past>> BY <1>7, PoolOps DEF FinishIdle
  <2> QED BY <1>0, <1>7, <2>1, FinishIdleTokens, HoldStill, Zenon
<1>8. ASSUME NEW k \in Conns, ReadMessage(k) \/ ReadGarbage(k) \/ ReadError(k) \/ CompleteStep(k) PROVE HoldInv'
  BY <1>0, <1>8, ReadHold
<1> QED BY <1>1, <1>2, <1>3, <1>4, <1>5, <1>6, <1>7, <1>8, SMTT(30) DEF Next, Elsewhere, TimerStep, FinishStep

-----------------------------------------------------------------------------
(* The pool, and the types                                                 *)

HandedOut == cur # NoConn /\ UNCHANGED <<cur, past>> /\ claimed' = TRUE /\ users' = users + 1

\* What a step does to the contexts of the connections: a context that is done
\* is that of a connection that is not current any more.
EndedStep ==
    /\ ended' \in [Conns -> {"no", "read", "other"}]
    /\ \A k \in Conns : ended'[k] = ended[k] \/ k \in past'

\* The operations of the pool that end a context.
LEMMA EndedOps ==
  ASSUME TypeOK
  PROVE  /\ UNCHANGED ended => EndedStep
         /\ \A k \in Conns : \A cause \in {"read", "other"} : Discard(k, cause) => EndedStep
         /\ CloseIdle => EndedStep
         /\ Pool!Drop /\ ended' = [ended EXCEPT ![cur] = "other"] => EndedStep
<1>1. UNCHANGED ended => EndedStep BY Zenon DEF TypeOK, EndedStep
<1>2. ASSUME Pool!Drop, NEW cause \in {"read", "other"}, ended' = [ended EXCEPT ![cur] = cause] PROVE EndedStep
  BY <1>2 DEF Pool!Drop, Pool!Vacate, TypeOK, EndedStep
<1>3. ASSUME NEW k \in Conns, NEW cause \in {"read", "other"}, Discard(k, cause) PROVE EndedStep
  BY <1>1, <1>2, <1>3, Zenon DEF Discard, Pool!Discard
<1>4. CloseIdle => EndedStep BY <1>1, <1>2, Zenon DEF CloseIdle, Pool!DropIdle
<1> QED BY <1>1, <1>2, <1>3, <1>4

\* Every step is like that.
LEMMA NextEnded == ASSUME TypeOK, LocalInv, [Next]_vars PROVE EndedStep
<1>1. ASSUME NEW s \in Calls, CallStep(s) PROVE EndedStep
  <2>1. CASE InvalidateLost(s) \/ InvalidateBroken(s)
    <3>1. PICK k \in Conns : k = local[s].conn BY <2>1 DEF InvalidateLost, InvalidateBroken, LocalInv
    <3>2. Discard(k, "other") BY <2>1, <3>1, Zenon DEF InvalidateLost, InvalidateBroken
    <3> QED BY <3>2, EndedOps
  <2>2. CASE RegisterErrorIdle(s) BY <2>2, EndedOps DEF RegisterErrorIdle
  <2>3. CASE UNCHANGED ended BY <2>3, EndedOps
  <2> QED BY <1>1, <2>1, <2>2, <2>3, Zenon DEF CallStep, AcquireError, AcquireConn, Register, RegisterError, Write, WriteError
<1>2. ASSUME NEW f \in finishing, FinishPool(f) \/ FinishIdle(f) PROVE EndedStep
  <2>1. f.conn \in Conns BY DEF TypeOK, Finish
  <2>2. Discard(f.conn, "other") \/ UNCHANGED ended \/ CloseIdle BY <1>2 DEF FinishPool, FinishIdle
  <2> QED BY <2>1, <2>2, EndedOps, Zenon
<1>3. ASSUME NEW k \in Conns, ReadMessage(k) \/ ReadGarbage(k) \/ ReadError(k) \/ CompleteStep(k) PROVE EndedStep
  <2>1. Discard(k, "read") \/ UNCHANGED ended \/ CloseIdle
    BY <1>3 DEF ReadMessage, ReadGarbage, ReadError, CompleteStep, Complete, CompleteRelease, CompleteIdle
  <2> QED BY <2>1, EndedOps
<1>4. CASE Elsewhere
  <2>1. ASSUME NEW k \in Conns, EndPast(k) PROVE EndedStep
    <3>1. past' = past /\ k \in past /\ ended' = [ended EXCEPT ![k] = "other"] BY <2>1 DEF EndPast, poolVars
    <3> QED BY <3>1 DEF TypeOK, EndedStep
  <2>2. CASE (\E keep \in BOOLEAN : SetKeepIdle(keep)) \/ CloseIdleConnections
    <3>1. UNCHANGED ended \/ (Pool!Drop /\ ended' = [ended EXCEPT ![cur] = "other"])
      BY <2>2 DEF SetKeepIdle, CloseIdleConnections, Pool!DropIdle
    <3> QED BY <3>1, EndedOps
  <2>3. CASE UNCHANGED ended BY <2>3, EndedOps, Zenon
  <2> QED BY <1>4, <2>1, <2>2, <2>3, Zenon DEF Elsewhere, EndContext, TimerLate, Connect, ClosePast, Reset, Close, Lose
<1>5. ASSUME NEW q \in Queries, Exchange(q) PROVE UNCHANGED ended BY <1>5 DEF Exchange
<1>6. ASSUME NEW t, CompleteContextDone(t) \/ CompleteConnDone(t) PROVE UNCHANGED ended
  BY <1>6, Zenon DEF CompleteContextDone, CompleteConnDone
<1>7. UNCHANGED vars => UNCHANGED ended BY DEF vars
<1> QED BY <1>1, <1>2, <1>3, <1>4, <1>5, <1>6, <1>7, EndedOps, SMTT(30) DEF Next, Elsewhere, TimerStep, FinishStep

\* A step does one thing to the pool at most.
LEMMA NextPool ==
  ASSUME TypeOK, LocalInv, [Next]_vars
  PROVE  UNCHANGED <<cur, claimed, users, past>> \/ Vacated \/ Connected \/ Returned \/ HandedOut
<1> DEFINE P == UNCHANGED <<cur, claimed, users, past>> \/ Vacated \/ Connected \/ Returned \/ HandedOut
<1>1. ASSUME NEW s \in Calls, CallStep(s) PROVE P
  <2>1. CASE InvalidateLost(s) \/ InvalidateBroken(s) \/ RegisterError(s)
    <3>1. PICK k \in Conns : k = local[s].conn BY <2>1 DEF InvalidateLost, InvalidateBroken, RegisterError, LocalInv
    <3>2. Discard(k, "other") \/ Pool!GiveBack(k) BY <2>1, <3>1 DEF InvalidateLost, InvalidateBroken, RegisterError
    <3> QED BY <3>2, PoolOps
  <2>2. CASE RegisterErrorIdle(s) BY <2>2, PoolOps, Zenon DEF RegisterErrorIdle
  <2>3. CASE AcquireConn(s) BY <2>3, Zenon DEF AcquireConn, Pool!HandOut, HandedOut
  <2> QED BY <1>1, <2>1, <2>2, <2>3, SMTT(30) DEF CallStep, AcquireError, Register, Write, WriteError, poolVars
<1>2. ASSUME NEW f \in finishing, FinishPool(f) \/ FinishIdle(f) PROVE P
  <2>1. f.conn \in Conns BY DEF TypeOK, Finish
  <2>2. Discard(f.conn, "other") \/ Pool!GiveBack(f.conn) \/ CloseIdle BY <1>2 DEF FinishPool, FinishIdle
  <2> QED BY <2>1, <2>2, PoolOps
<1>3. ASSUME NEW k \in Conns, ReadMessage(k) \/ ReadGarbage(k) \/ ReadError(k) \/ CompleteStep(k) PROVE P
  <2>1. CASE CompleteRelease(k)
    <3>1. rmsg[k].taken.conn \in Conns BY <2>1, Zenon DEF CompleteRelease, LocalInv, Pending
    <3> QED BY <2>1, <3>1, PoolOps DEF CompleteRelease
  <2>2. CASE ReadError(k) \/ CompleteIdle(k) BY <2>2, PoolOps DEF ReadError, CompleteIdle
  <2> QED BY <1>3, <2>1, <2>2, SMTT(30) DEF ReadMessage, ReadGarbage, CompleteStep, Complete, poolVars
<1>4. Elsewhere => P BY ElsewherePool, Zenon
<1>5. ASSUME NEW q \in Queries, Exchange(q) PROVE P BY <1>5 DEF Exchange, poolVars
<1>6. ASSUME NEW t, CompleteContextDone(t) \/ CompleteConnDone(t) PROVE P
  BY <1>6, Zenon DEF CompleteContextDone, CompleteConnDone, poolVars
<1>7. UNCHANGED vars => P BY Zenon DEF vars, poolVars
<1> HIDE DEF P
<1>8. P BY <1>1, <1>2, <1>3, <1>4, <1>5, <1>6, <1>7, SMTT(30) DEF Next, Elsewhere, TimerStep, FinishStep
<1> QED BY <1>8 DEF P

\* The read loops: rpc, rmsg and what they have at which point.
ReadInv ==
    /\ rpc \in [Conns -> {"none", "read", "take", "release", "idle", "dead"}]
    /\ rmsg \in [Conns -> Message]
    /\ \A k \in Conns : rpc[k] = "take" => rmsg[k].answer \in Queries
    /\ \A k \in Conns : rpc[k] = "release" => rmsg[k].answer \in Queries /\ rmsg[k].taken \in Pending

\* A step of a read loop concerns that read loop.
LEMMA ReadLoop ==
  ASSUME TypeOK, LocalInv, NEW k \in Conns,
         ReadMessage(k) \/ ReadGarbage(k) \/ ReadError(k) \/ CompleteStep(k)
  PROVE  ReadInv' /\ rpc[k] # "none" /\ \A x \in Conns \ {k} : rpc'[x] = rpc[x]
<1>1. NoMessage \in Message BY MultiplexerAssumption DEF NoMessage, Message, Ids
<1>2. rmsg[k] \in Message BY DEF TypeOK
<1>3. CASE ReadMessage(k)
  <2>1. rpc' = [rpc EXCEPT ![k] = "take"] /\ rpc[k] = "read" BY <1>3, Zenon DEF ReadMessage
  <2>2. PICK w \in wire : rmsg' = [rmsg EXCEPT ![k] = [id |-> w[2], answer |-> w[3], taken |-> NoQuery]]
    BY <1>3, Zenon DEF ReadMessage
  <2>3. w[2] \in Ids /\ w[3] \in Queries BY Zenon DEF TypeOK
  <2>4. PICK m \in Message : m = [id |-> w[2], answer |-> w[3], taken |-> NoQuery] BY <2>3, Zenon DEF Message
  <2>5. m.answer \in Queries BY <2>3, <2>4
  <2>6. rmsg' = [rmsg EXCEPT ![k] = m] BY <2>2, <2>4, Zenon
  <2> QED BY <2>1, <2>5, <2>6, Zenon DEF TypeOK, LocalInv, ReadInv
<1>4. CASE ReadGarbage(k) BY <1>4, Zenon DEF ReadGarbage, readVars, TypeOK, LocalInv, ReadInv
<1>5. CASE ReadError(k) BY <1>5, Zenon DEF ReadError, TypeOK, LocalInv, ReadInv
<1>6. CASE CompleteIdle(k) BY <1>6, Zenon DEF CompleteIdle, TypeOK, LocalInv, ReadInv
<1>7. CASE CompleteRelease(k) BY <1>1, <1>7, Zenon DEF CompleteRelease, TypeOK, LocalInv, ReadInv
<1>8. CASE Complete(k) /\ queries[rmsg[k].id] = NoQuery BY <1>1, <1>8, ZenonT(30) DEF Complete, TypeOK, LocalInv, ReadInv
<1>9. CASE Complete(k) /\ queries[rmsg[k].id] # NoQuery
  <2>1. rpc[k] = "take" /\ rpc' = [rpc EXCEPT ![k] = "release"] BY <1>9 DEF Complete
  <2>2. rmsg' = [rmsg EXCEPT ![k] = [rmsg[k] EXCEPT !.taken = queries[rmsg[k].id]]] BY <1>9 DEF Complete
  <2>3. rmsg[k].id \in Ids /\ rmsg[k].answer \in Queries BY <1>2, <2>1, Zenon DEF Message, LocalInv
  <2>4. queries[rmsg[k].id] \in Pending BY <1>9, <2>3, Zenon DEF TypeOK
  <2>5. PICK m : m = [rmsg[k] EXCEPT !.taken = queries[rmsg[k].id]] BY Zenon
  <2>6. m \in Message BY <1>2, <2>4, <2>5 DEF Message
  <2>7. m.answer \in Queries /\ m.taken \in Pending BY <1>2, <2>3, <2>4, <2>5 DEF Message
  <2>8. rmsg' = [rmsg EXCEPT ![k] = m] BY <2>2, <2>5
  <2> QED BY <2>1, <2>6, <2>7, <2>8, Zenon DEF TypeOK, LocalInv, ReadInv
<1> QED BY <1>3, <1>4, <1>5, <1>6, <1>7, <1>8, <1>9, Zenon DEF CompleteStep

\* The steps of everybody else.
LEMMA OtherReads ==
  ASSUME TypeOK, LocalInv, UNCHANGED readVars \/ \E s \in Calls : AcquireConn(s)
  PROVE  ReadInv'
<1>1. CASE UNCHANGED readVars BY <1>1, Zenon DEF readVars, TypeOK, LocalInv, ReadInv
<1>2. ASSUME NEW s \in Calls, AcquireConn(s) PROVE ReadInv'
  <2>1. UNCHANGED rmsg /\ cur # NoConn /\ (UNCHANGED rpc \/ rpc' = [rpc EXCEPT ![cur] = "read"])
    BY <1>2, Zenon DEF AcquireConn, Pool!HandOut
  <2> QED BY <2>1 DEF TypeOK, LocalInv, ReadInv
<1> QED BY <1>1, <1>2

\* Every step; a read loop is started for the connection that is handed out.
LEMMA NextReads ==
  ASSUME TypeOK, LocalInv, [Next]_vars
  PROVE  /\ ReadInv'
         /\ \A k \in Conns : rpc'[k] # "none" => rpc[k] # "none" \/ (k = cur /\ HandedOut)
<1>1. ASSUME NEW k \in Conns, ReadMessage(k) \/ ReadGarbage(k) \/ ReadError(k) \/ CompleteStep(k)
      PROVE ReadInv' /\ \A x \in Conns : rpc'[x] # "none" => rpc[x] # "none" \/ (x = cur /\ HandedOut)
  BY <1>1, ReadLoop, Zenon
<1>2. ASSUME NEW s \in Calls, AcquireConn(s)
      PROVE ReadInv' /\ \A x \in Conns : rpc'[x] # "none" => rpc[x] # "none" \/ (x = cur /\ HandedOut)
  <2>1. UNCHANGED rpc \/ rpc' = [rpc EXCEPT ![cur] = "read"] BY <1>2 DEF AcquireConn
  <2>2. HandedOut BY <1>2 DEF AcquireConn, Pool!HandOut, HandedOut
  <2> QED BY <1>2, <2>1, <2>2, OtherReads DEF TypeOK
<1>3. ASSUME UNCHANGED readVars
      PROVE ReadInv' /\ \A x \in Conns : rpc'[x] # "none" => rpc[x] # "none" \/ (x = cur /\ HandedOut)
  BY <1>3, OtherReads DEF readVars
<1>4. ASSUME NEW s \in Calls, CallStep(s), ~AcquireConn(s) PROVE UNCHANGED readVars
  BY <1>4 DEF CallStep, AcquireError, Register, RegisterError, RegisterErrorIdle, Write, WriteError, InvalidateLost,
              InvalidateBroken
<1>5. Elsewhere => UNCHANGED readVars BY ElsewhereFrame, Zenon DEF readVars
<1>6. ASSUME NEW q \in Queries, Exchange(q) PROVE UNCHANGED readVars BY <1>6 DEF Exchange
<1>7. ASSUME NEW t, CompleteContextDone(t) \/ CompleteConnDone(t) PROVE UNCHANGED readVars
  BY <1>7, Zenon DEF CompleteContextDone, CompleteConnDone
<1>8. ASSUME NEW f, FinishPool(f) \/ FinishIdle(f) PROVE UNCHANGED readVars BY <1>8 DEF FinishPool, FinishIdle
<1>9. UNCHANGED vars => UNCHANGED readVars BY Zenon DEF vars
<1> QED BY <1>1, <1>2, <1>3, <1>4, <1>5, <1>6, <1>7, <1>8, <1>9, Zenon DEF Next, Elsewhere, TimerStep, FinishStep

\* Every step keeps PoolInv.
LEMMA NextPoolInv == Core /\ [Next]_vars => PoolInv'
<1> SUFFICES ASSUME Core, [Next]_vars PROVE PoolInv' OBVIOUS
<1> USE DEF Core
<1>1. UNCHANGED <<cur, claimed, users, past>> \/ Vacated \/ Connected \/ Returned \/ HandedOut BY NextPool
<1>2. past \subseteq past' BY <1>1, Zenon DEF Vacated, Connected, Returned, HandedOut
<1>3. cur' \notin past'
  <2>1. cur \notin past /\ past \subseteq Conns BY Zenon DEF PoolInv, TypeOK
  <2>2. CASE Vacated
    <3>1. NoConn \notin past \cup {cur} BY <2>1, <2>2, MultiplexerAssumption, Zenon DEF Vacated
    <3> QED BY <2>2, <3>1, Zenon DEF Vacated
  <2>3. CASE UNCHANGED <<cur, claimed, users, past>> BY <2>1, <2>3, Zenon
  <2>4. CASE Connected BY <2>4, Zenon DEF Connected
  <2>5. CASE Returned BY <2>1, <2>5, Zenon DEF Returned
  <2>6. CASE HandedOut BY <2>1, <2>6, Zenon DEF HandedOut
  <2> QED BY <1>1, <2>2, <2>3, <2>4, <2>5, <2>6, Zenon
<1>4. cur' = NoConn => users' = 0
  BY <1>1, MultiplexerAssumption DEF PoolInv, TypeOK, Vacated, Connected, Returned, HandedOut
<1>5. \A k \in Conns : ended'[k] # "no" => k \in past' BY <1>2, NextEnded, Zenon DEF PoolInv, EndedStep
<1>6. ASSUME NEW k \in Conns, rpc'[k] # "none" PROVE k \in past' \/ (k = cur' /\ claimed')
  <2>1. CASE k = cur /\ HandedOut BY <2>1, Zenon DEF HandedOut
  <2>2. CASE rpc[k] # "none"
    <3>1. k \in past \/ (k = cur /\ claimed) BY <2>2, Zenon DEF PoolInv
    <3> QED BY <1>1, <1>2, <3>1, MultiplexerAssumption DEF Vacated, Connected, Returned, HandedOut
  <2> QED BY <1>6, <2>1, <2>2, NextReads
<1> QED BY <1>3, <1>4, <1>5, <1>6, Zenon DEF PoolInv

\* The calls: pc, local and the connection that a call has.
CallInv ==
    /\ pc \in [Calls -> Labels]
    /\ local \in [Calls -> Local]
    /\ \A s \in Calls : pc[s] \in {"register", "write", "lost", "broken"} => local[s].conn \in Conns

\* A call goes to label with locals l.
LEMMA CallMoves ==
  ASSUME TypeOK, LocalInv, NEW s \in Calls, NEW label \in Labels, NEW l \in Local,
         pc' = [pc EXCEPT ![s] = label], local' = [local EXCEPT ![s] = l],
         label \in {"register", "write", "lost", "broken"} => l.conn \in Conns
  PROVE  CallInv'
BY DEF TypeOK, LocalInv, CallInv

\* Every step of a call keeps CallInv.
LEMMA CallTypes == ASSUME TypeOK, LocalInv, NEW s \in Calls, CallStep(s) PROVE CallInv'
<1>1. NoCall \in Local BY MultiplexerAssumption DEF NoCall, Local, Ids
<1>2. [NoCall EXCEPT !.first = FALSE] \in Local BY <1>1, Zenon DEF Local
<1>3. local[s] \in Local BY Zenon DEF TypeOK
<1>4. local' = local => local' = [local EXCEPT ![s] = local[s]] BY DEF TypeOK
<1>5. CASE AcquireError(s) \/ RegisterErrorIdle(s) \/ Write(s) \/ InvalidateLost(s)
  <2>1. pc' = [pc EXCEPT ![s] = "done"] /\ local' = [local EXCEPT ![s] = NoCall]
    BY <1>5, Zenon DEF AcquireError, RegisterErrorIdle, Write, InvalidateLost, Goto, Set
  <2> QED BY <1>1, <2>1, CallMoves, Zenon DEF Labels
<1>6. CASE AcquireConn(s)
  <2>1. pc' = [pc EXCEPT ![s] = "register"] BY <1>6 DEF AcquireConn, Goto
  <2>2. PICK created \in BOOLEAN : local' = [local EXCEPT ![s] = [local[s] EXCEPT !.conn = cur, !.created = created]]
    BY <1>6, Zenon DEF AcquireConn, Set
  <2>3. cur \in Conns BY <1>6 DEF AcquireConn, Pool!HandOut, TypeOK
  <2>4. PICK l : l = [local[s] EXCEPT !.conn = cur, !.created = created] OBVIOUS
  <2>5. l \in Local /\ l.conn \in Conns BY <1>3, <2>3, <2>4, Zenon DEF Local
  <2> QED BY <2>1, <2>2, <2>4, <2>5, CallMoves, Zenon DEF Labels
<1>7. CASE Register(s)
  <2>1. pc[s] = "register" /\ pc' = [pc EXCEPT ![s] = "write"] BY <1>7 DEF Register, Goto
  <2>2. PICK n \in Ids : n = NextId BY <1>7, NextIdFree DEF Register, Free
  <2>3. PICK l : l = [local[s] EXCEPT !.id = n] BY Zenon
  <2>4. local' = [local EXCEPT ![s] = l] BY <1>7, <2>2, <2>3 DEF Register, Set
  <2>5. l \in Local /\ l.conn = local[s].conn BY <1>3, <2>3 DEF Local
  <2>6. local[s].conn \in Conns BY <2>1, Zenon DEF LocalInv
  <2> QED BY <2>1, <2>4, <2>5, <2>6, CallMoves, Zenon DEF Labels
<1>8. CASE RegisterError(s)
  <2>1. pc' = [pc EXCEPT ![s] = "idle"] /\ local' = local BY <1>8, Zenon DEF RegisterError, Goto
  <2> QED BY <1>3, <1>4, <2>1, CallMoves, Zenon DEF Labels
<1>9. CASE WriteError(s)
  <2>1. PICK label \in {"lost", "broken"} : pc' = [pc EXCEPT ![s] = label] BY <1>9, Zenon DEF WriteError, Goto
  <2>2. local' = local /\ local[s].conn \in Conns BY <1>9, Zenon DEF WriteError, LocalInv
  <2> QED BY <1>3, <1>4, <2>1, <2>2, CallMoves, Zenon DEF Labels
<1>10. CASE InvalidateBroken(s)
  <2>1. \/ pc' = [pc EXCEPT ![s] = "acquire"] /\ local' = [local EXCEPT ![s] = [NoCall EXCEPT !.first = FALSE]]
        \/ pc' = [pc EXCEPT ![s] = "done"] /\ local' = [local EXCEPT ![s] = NoCall]
    BY <1>10, Zenon DEF InvalidateBroken, Goto, Set
  <2> QED BY <1>1, <1>2, <2>1, CallMoves, Zenon DEF Labels
<1> QED BY <1>5, <1>6, <1>7, <1>8, <1>9, <1>10, Zenon DEF CallStep

\* Every step keeps CallInv.
LEMMA NextCalls == Core /\ [Next]_vars => CallInv'
<1> SUFFICES ASSUME Core, [Next]_vars PROVE CallInv' OBVIOUS
<1> USE DEF Core
<1>1. ASSUME UNCHANGED <<pc, local>> PROVE CallInv' BY <1>1, Zenon DEF TypeOK, LocalInv, CallInv
<1>2. ASSUME NEW s \in Calls, pc' = [pc EXCEPT ![s] = "acquire"], UNCHANGED local PROVE CallInv'
  BY <1>2, Zenon DEF TypeOK, LocalInv, CallInv, Labels
<1>3. ASSUME NEW s \in Calls, CallStep(s) PROVE CallInv' BY <1>3, CallTypes, Zenon
<1>4. ASSUME NEW q \in Queries, Exchange(q) PROVE CallInv'
  <2>1. <<q, 1>> \in Calls BY DEF Calls
  <2> QED BY <1>2, <1>4, <2>1, Zenon DEF Exchange, Goto
<1>5. ASSUME NEW t, CompleteConnDone(t) PROVE CallInv'
  <2>1. PICK s : s = <<t.query, 2>> BY Zenon
  <2>2. s \in Calls /\ (pc' = [pc EXCEPT ![s] = "acquire"] \/ UNCHANGED pc) BY <1>5, <2>1, ConnDoneTokens, Zenon
  <2>3. UNCHANGED local BY <1>5, Zenon DEF CompleteConnDone
  <2> QED BY <1>1, <1>2, <2>2, <2>3
<1>6. Elsewhere => UNCHANGED <<pc, local>> BY ElsewhereFrame, Zenon
<1>7. ASSUME NEW t, CompleteContextDone(t) PROVE UNCHANGED <<pc, local>> BY <1>7 DEF CompleteContextDone
<1>8. ASSUME NEW f, FinishPool(f) \/ FinishIdle(f) PROVE UNCHANGED <<pc, local>> BY <1>8 DEF FinishPool, FinishIdle
<1>9. ASSUME NEW k \in Conns, ReadMessage(k) \/ ReadGarbage(k) \/ ReadError(k) \/ CompleteStep(k)
      PROVE UNCHANGED <<pc, local>>
  BY <1>9 DEF ReadMessage, ReadGarbage, ReadError, CompleteStep, Complete, CompleteRelease, CompleteIdle
<1>10. UNCHANGED vars => UNCHANGED <<pc, local>> BY DEF vars
<1> QED BY <1>1, <1>3, <1>4, <1>5, <1>6, <1>7, <1>8, <1>9, <1>10, SMTT(30) DEF Next, Elsewhere, TimerStep, FinishStep

\* The map and those who remember its IDs.
EntryInv ==
    /\ queryId \in Ids
    /\ queries \in [Ids -> Pending \cup {NoQuery}]
    /\ armed \subseteq Timer
    /\ wire \subseteq Conns \X Ids \X Queries
    /\ finishing \subseteq Finish

\* The map is well-typed after an entry is taken or marked as heard of.
LEMMA QueriesType ==
  ASSUME TypeOK
  PROVE  /\ \A n \in Ids : [queries EXCEPT ![n] = NoQuery] \in [Ids -> Pending \cup {NoQuery}]
         /\ \A k \in Conns : Heard(k) \in [Ids -> Pending \cup {NoQuery}]
<1>1. \A n \in Ids : [queries EXCEPT ![n] = NoQuery] \in [Ids -> Pending \cup {NoQuery}] BY DEF TypeOK
<1>2. ASSUME NEW k \in Conns, NEW i \in Ids PROVE Heard(k)[i] \in Pending \cup {NoQuery}
  <2>1. queries[i] # NoQuery => queries[i] \in Pending BY DEF TypeOK
  <2>2. queries[i] # NoQuery => [queries[i] EXCEPT !.quiet = FALSE] \in Pending BY <2>1, Zenon DEF Pending
  <2> QED BY <2>2 DEF Heard, TypeOK
<1>3. \A k \in Conns : Heard(k) \in [Ids -> Pending \cup {NoQuery}] BY <1>2 DEF Heard
<1> QED BY <1>1, <1>3, Zenon

\* Every step of a call keeps EntryInv.
LEMMA CallEntries == ASSUME TypeOK, LocalInv, NEW s \in Calls, CallStep(s) PROVE EntryInv'
<1>1. UNCHANGED finishing
  BY Zenon DEF CallStep, AcquireError, AcquireConn, Register, RegisterError, RegisterErrorIdle, Write, WriteError,
         InvalidateLost, InvalidateBroken
<1>2. CASE Register(s)
  <2>1. PICK n \in Ids : n = NextId BY <1>2, NextIdFree DEF Register, Free
  <2>2. s[1] \in Queries /\ local[s].conn \in Conns BY <1>2 DEF Calls, Register, LocalInv
  <2>3. PICK e : e = [query |-> s[1], conn |-> local[s].conn, quiet |-> TRUE,
                      retry |-> s[2] = 1 /\ RetryReadError /\ ~local[s].created]
    BY Zenon
  <2>4. e \in Pending BY <2>2, <2>3, Zenon DEF Pending
  <2>5. queries' = [queries EXCEPT ![n] = e] BY <1>2, <2>1, <2>3 DEF Register
  <2>6. armed' = armed \cup {[kind |-> x, id |-> n, query |-> s[1], conn |-> local[s].conn] : x \in {"ctx", "conn"}}
    BY <1>2, <2>1 DEF Register
  <2>7. armed' \subseteq Timer
    <3>1. \A x \in {"ctx", "conn"} : [kind |-> x, id |-> n, query |-> s[1], conn |-> local[s].conn] \in Timer
      BY <2>2, Zenon DEF Timer
    <3>2. armed \subseteq Timer BY Zenon DEF TypeOK
    <3> QED BY <2>6, <3>1, <3>2, Zenon
  <2>8. queries' \in [Ids -> Pending \cup {NoQuery}] BY <2>4, <2>5, Zenon DEF TypeOK
  <2> QED BY <1>1, <1>2, <2>1, <2>7, <2>8, SMTT(30) DEF Register, TypeOK, EntryInv
<1>3. CASE WriteError(s)
  <2>1. local[s].id \in Ids BY DEF TypeOK, Local
  <2>2. queries' \in [Ids -> Pending \cup {NoQuery}] BY <1>3, <2>1, QueriesType, Zenon DEF WriteError, Take
  <2> QED BY <1>1, <1>3, <2>2, Zenon DEF WriteError, Take, TypeOK, EntryInv, idVars
<1>4. CASE Write(s)
  <2>1. s[1] \in Queries /\ local[s].conn \in Conns /\ local[s].id \in Ids
    BY <1>4 DEF Calls, Write, LocalInv, TypeOK, Local
  <2>2. wire' \subseteq Conns \X Ids \X Queries
    <3>1. wire' = wire \cup {<<local[s].conn, local[s].id, s[1]>>} BY <1>4, Zenon DEF Write
    <3>2. <<local[s].conn, local[s].id, s[1]>> \in Conns \X Ids \X Queries BY <2>1, Zenon
    <3>3. wire \subseteq Conns \X Ids \X Queries BY Zenon DEF TypeOK
    <3> QED BY <3>1, <3>2, <3>3, Zenon
  <2> QED BY <1>1, <1>4, <2>2, ZenonT(30) DEF Write, TypeOK, EntryInv, idVars
<1> QED BY <1>1, <1>2, <1>3, <1>4, Zenon
        DEF CallStep, AcquireError, AcquireConn, RegisterError, RegisterErrorIdle, InvalidateLost, InvalidateBroken,
            TypeOK, EntryInv, idVars

\* Every step keeps EntryInv.
LEMMA NextEntries == Core /\ [Next]_vars => EntryInv'
<1> SUFFICES ASSUME Core, [Next]_vars PROVE EntryInv' OBVIOUS
<1> USE DEF Core
<1>1. ASSUME NEW s \in Calls, CallStep(s) PROVE EntryInv' BY <1>1, CallEntries, Zenon
<1>2. ASSUME NEW t, CompleteContextDone(t) \/ CompleteConnDone(t) PROVE EntryInv'
  <2>1. TakeBy(t) BY <1>2, Zenon DEF CompleteContextDone, CompleteConnDone
  <2>2. t.id \in Ids BY <2>1 DEF TakeBy, TypeOK, Timer
  <2>3. queries' \in [Ids -> Pending \cup {NoQuery}] BY <2>1, <2>2, QueriesType, Zenon DEF TakeBy
  <2>4. armed' \subseteq Timer BY <2>1 DEF TakeBy, TypeOK
  <2>5. UNCHANGED <<queryId, wire>> BY <1>2, Zenon DEF CompleteContextDone, CompleteConnDone, idVars
  <2>6. finishing' \subseteq Finish
    <3>1. CASE CompleteContextDone(t)
      <4>1. PICK f \in Finish : finishing' = finishing \cup {f} BY <3>1, ContextDoneTokens, Zenon
      <4> QED BY <4>1 DEF TypeOK
    <3>2. CASE CompleteConnDone(t) BY <3>2, Zenon DEF CompleteConnDone, TypeOK
    <3> QED BY <1>2, <3>1, <3>2
  <2> QED BY <2>3, <2>4, <2>5, <2>6 DEF TypeOK, EntryInv
<1>3. ASSUME NEW f, FinishPool(f) \/ FinishIdle(f) PROVE EntryInv'
  <2>1. UNCHANGED <<queryId, queries, armed, wire>> BY <1>3 DEF FinishPool, FinishIdle, idVars
  <2>2. f \in Finish BY <1>3 DEF FinishPool, FinishIdle, TypeOK
  <2>3. [f EXCEPT !.step = "idle"] \in Finish BY <2>2 DEF Finish
  <2>4. finishing' \subseteq Finish BY <1>3, <2>3, Zenon DEF FinishPool, FinishIdle, TypeOK
  <2> QED BY <2>1, <2>4, Zenon DEF TypeOK, EntryInv
<1>4. ASSUME NEW k \in Conns, ReadMessage(k) \/ ReadGarbage(k) \/ ReadError(k) \/ CompleteStep(k) PROVE EntryInv'
  <2>1. UNCHANGED <<queryId, finishing>> /\ wire' \subseteq wire
    BY <1>4 DEF ReadMessage, ReadGarbage, ReadError, CompleteStep, Complete, CompleteRelease, CompleteIdle, idVars
  <2>2. armed' \subseteq armed BY <1>4, ReadOldIds DEF OldIds
  <2>3. rmsg[k].id \in Ids BY DEF TypeOK, Message
  <2>4. queries' \in [Ids -> Pending \cup {NoQuery}]
    BY <1>4, <2>3, QueriesType, Zenon
       DEF ReadMessage, ReadGarbage, ReadError, CompleteStep, Complete, CompleteRelease, CompleteIdle, Take, TypeOK
  <2> QED BY <2>1, <2>2, <2>4, Zenon DEF TypeOK, EntryInv
<1>5. CASE Elsewhere
  <2>1. UNCHANGED <<queryId, queries, finishing>> BY <1>5, ElsewhereFrame
  <2>2. armed' \subseteq armed BY <1>5, ElsewhereOldIds DEF OldIds
  <2>3. wire' \subseteq wire
    BY <1>5, Zenon DEF Elsewhere, EndContext, TimerLate, Connect, EndPast, ClosePast, SetKeepIdle, CloseIdleConnections,
                Reset, Close, Lose
  <2> QED BY <2>1, <2>2, <2>3, SMTT(30) DEF TypeOK, EntryInv
<1>6. ASSUME NEW q \in Queries, Exchange(q) PROVE EntryInv' BY <1>6, Zenon DEF Exchange, idVars, TypeOK, EntryInv
<1>7. UNCHANGED vars => EntryInv' BY DEF vars, idVars, TypeOK, EntryInv
<1> QED BY <1>1, <1>2, <1>3, <1>4, <1>5, <1>6, <1>7, SMTT(30) DEF Next, Elsewhere, TimerStep, FinishStep

\* Type correctness of a step.
LEMMA NextTypes == Core /\ [Next]_vars => TypeOK' /\ LocalInv'
<1> SUFFICES ASSUME Core, [Next]_vars PROVE TypeOK' /\ LocalInv' OBVIOUS
<1>1. cur' \in Conns \cup {NoConn} /\ users' \in Nat /\ past' \subseteq Conns
  <2>1. UNCHANGED <<cur, claimed, users, past>> \/ Vacated \/ Connected \/ Returned \/ HandedOut BY NextPool DEF Core
  <2>2. cur \in Conns \cup {NoConn} /\ users \in Nat /\ past \subseteq Conns BY DEF Core, TypeOK
  <2> QED BY <2>1, <2>2, SMTT(30) DEF Vacated, Connected, Returned, HandedOut
<1>2. ended' \in [Conns -> {"no", "read", "other"}] BY NextEnded, Zenon DEF Core, EndedStep
<1>3. EntryInv' /\ CallInv' /\ ReadInv' BY NextEntries, NextCalls, NextReads DEF Core
<1>4. answers' \in [Queries -> Seq(Queries \cup {NoQuery})]
  <2>1. CASE UNCHANGED answers BY <2>1 DEF Core, TypeOK
  <2> QED BY <2>1, NextCallback, CallbackFrame, Zenon DEF Core
<1>5. TypeOK' BY <1>1, <1>2, <1>3, <1>4, Zenon DEF TypeOK, EntryInv, CallInv, ReadInv
<1>6. LocalInv' BY <1>3 DEF LocalInv, CallInv, ReadInv
<1> QED BY <1>5, <1>6

-----------------------------------------------------------------------------
(* The results                                                             *)

\* Initially there is no token.
LEMMA InitInv == Init => Inv
<1> SUFFICES ASSUME Init PROVE Core BY DEF Inv
<1>1. 0 \in Ids BY MultiplexerAssumption DEF Ids
<1>2. NoCall \in Local BY <1>1 DEF NoCall, Local
<1>3. NoMessage \in Message BY <1>1 DEF NoMessage, Message
<1>4. cur = NoConn /\ users = 0 /\ past = {} BY Zenon DEF Init, Pool!Init
<1>5. TypeOK
  <2>1. cur \in Conns \cup {NoConn} /\ users \in Nat /\ past \subseteq Conns BY <1>4
  <2>2. pc \in [Calls -> Labels] /\ local \in [Calls -> Local] BY <1>2 DEF Init, Labels
  <2>3. rmsg \in [Conns -> Message] BY <1>3 DEF Init
  <2>4. <<>> \in Seq(Queries \cup {NoQuery}) OBVIOUS
  <2>5. answers \in [Queries -> Seq(Queries \cup {NoQuery})] BY <2>4 DEF Init
  <2>6. armed \subseteq Timer /\ finishing \subseteq Finish /\ wire \subseteq Conns \X Ids \X Queries BY DEF Init
  <2> QED BY <1>1, <2>1, <2>2, <2>3, <2>5, <2>6, SMTT(30) DEF Init, TypeOK
<1>6. Tokens = {}
  <2>1. \A o : o \notin Tokens
    <3> SUFFICES ASSUME NEW o \in Tokens PROVE FALSE OBVIOUS
    <3>1. \A s \in Calls : pc[s] = "none" BY DEF Init
    <3>2. \A i \in Ids : queries[i] = NoQuery BY DEF Init
    <3>3. \A k \in Conns : rpc[k] = "none" BY DEF Init
    <3>4. finishing = {} BY DEF Init
    <3>5. <<o[1], o[2]>> \in Tokens /\ o[1] \in {"call", "entry", "finish", "loop"} BY TokenIs
    <3> QED BY <3>1, <3>2, <3>3, <3>4, <3>5, TokenIs, SMTT(30) DEF Waiting
  <2> QED BY <2>1
<1>7. LocalInv /\ PoolInv BY <1>4 DEF Init, LocalInv, PoolInv
<1>8. KnownConns /\ IsFiniteSet(Tokens) BY <1>6, FS_EmptySet, Zenon DEF KnownConns
<1>9. IdInv BY Zenon DEF Init, IdInv
<1>10. RetryInv
  <2>1. \A q \in Queries : <<q, 1>> \in Calls /\ <<q, 2>> \in Calls BY DEF Calls
  <2> QED BY <2>1 DEF Init, RetryInv
<1>11. OwnerInv
  <2> SUFFICES ASSUME NEW q \in Queries PROVE Owned(q) BY DEF OwnerInv
  <2>1. <<q, 1>> \in Calls /\ Owners(q) = {} BY <1>6 DEF Calls, Owners
  <2> QED BY <2>1 DEF Init, Owned
<1>12. Matched BY DEF Init, Matched
<1>13. Counted BY <1>4 DEF Counted
<1> QED BY <1>5, <1>7, <1>8, <1>9, <1>10, <1>11, <1>12, <1>13, SMTT(30) DEF Core

\* An ID that has been aliased stays so.
LEMMA AliasedStays == [Next]_vars /\ ~aliased' => ~aliased
<1> SUFFICES ASSUME [Next]_vars PROVE aliased => aliased' OBVIOUS
<1>1. ASSUME NEW s \in Calls, CallStep(s) PROVE aliased => aliased'
  BY <1>1, Zenon DEF CallStep, AcquireError, AcquireConn, Register, RegisterError, RegisterErrorIdle, Write, WriteError,
              InvalidateLost, InvalidateBroken, idVars
<1>2. Elsewhere => UNCHANGED aliased BY ElsewhereFrame
<1>3. ASSUME NEW q \in Queries, Exchange(q) PROVE UNCHANGED aliased BY <1>3 DEF Exchange, idVars
<1>4. ASSUME NEW t, CompleteContextDone(t) \/ CompleteConnDone(t) PROVE UNCHANGED aliased
  BY <1>4, Zenon DEF CompleteContextDone, CompleteConnDone, idVars
<1>5. ASSUME NEW f, FinishPool(f) \/ FinishIdle(f) PROVE UNCHANGED aliased BY <1>5 DEF FinishPool, FinishIdle, idVars
<1>6. ASSUME NEW k \in Conns, ReadMessage(k) \/ ReadGarbage(k) \/ ReadError(k) \/ CompleteStep(k) PROVE UNCHANGED aliased
  BY <1>6 DEF ReadMessage, ReadGarbage, ReadError, CompleteStep, Complete, CompleteRelease, CompleteIdle, idVars
<1>7. UNCHANGED vars => UNCHANGED aliased BY DEF vars, idVars
<1> QED BY <1>1, <1>2, <1>3, <1>4, <1>5, <1>6, <1>7, Zenon DEF Next, Elsewhere, TimerStep, FinishStep

\* Every step keeps the invariant.
LEMMA NextInv == Inv /\ [Next]_vars => Inv'
<1> SUFFICES ASSUME Inv, [Next]_vars, ~aliased' PROVE Core' BY DEF Inv
<1>1. Core BY AliasedStays DEF Inv
<1>2. HoldInv' BY <1>1, NextHold
<1>3. KnownConns' /\ IsFiniteSet(Tokens)' /\ Counted' BY <1>2 DEF HoldInv
<1>4. TypeOK' /\ LocalInv' /\ PoolInv' /\ Matched' BY <1>1, NextTypes, NextPoolInv, NextMatched, SMTT(30)
<1>5. IdInv' /\ RetryInv' /\ OwnerInv' BY <1>1, NextIds, NextRetries, NextOwners
<1> QED BY <1>3, <1>4, <1>5 DEF Core

\* So it always holds.
LEMMA SpecInv == Spec => []Inv
BY InitInv, NextInv, PTL DEF Spec

\* It says that a query has one owner or one answer.
LEMMA InvOneOwner == Inv => OneOwner
<1> SUFFICES ASSUME Core, NEW q \in Queries
             PROVE  Cardinality(Owners(q)) + Len(answers[q]) = IF pc[<<q, 1>>] = "none" THEN 0 ELSE 1
  BY Zenon DEF Inv, OneOwner
<1>1. Owned(q) BY DEF Core, OwnerInv
<1>2. Cardinality({}) = 0 BY FS_EmptySet
<1>3. \A o : Cardinality({o}) = 1 BY FS_Singleton, Zenon
<1>4. answers[q] = <<>> => Len(answers[q]) = 0 OBVIOUS
<1>5. CASE pc[<<q, 1>>] = "none"
  <2>1. Owners(q) = {} /\ answers[q] = <<>> BY <1>1, <1>5 DEF Owned
  <2>2. Cardinality(Owners(q)) = 0 /\ Len(answers[q]) = 0 BY <1>2, <1>4, <2>1, SMTT(30)
  <2> QED BY <1>5, <2>2
<1>6. CASE pc[<<q, 1>>] # "none" /\ Owners(q) = {} /\ Len(answers[q]) = 1 BY <1>2, <1>6, SMTT(30)
<1>7. CASE pc[<<q, 1>>] # "none" /\ answers[q] = <<>> /\ \E o \in Tokens : Owners(q) = {o}
  <2>1. Cardinality(Owners(q)) = 1 BY <1>3, <1>7, Zenon
  <2>2. Len(answers[q]) = 0 BY <1>4, <1>7
  <2> QED BY <1>7, <2>1, <2>2, SMTT(30)
<1> QED BY <1>1, <1>5, <1>6, <1>7, Zenon DEF Owned

\* exchangeAsync, take and the four places that call a callback: as long as no
\* ID is aliased, a query that was started has exactly one owner until it is
\* called back, and is called back once.
THEOREM CalledBackOnce == Spec => []OneOwner
BY SpecInv, InvOneOwner, PTL

\* complete: the callback of a query gets the answer to that query or an
\* error, whatever arrives late or twice and however the IDs wrap around.
THEOREM AnswersAreOwn == Spec => []AnswersMatch
<1>1. Inv => AnswersMatch BY DEF Inv, Core, Matched, AnswersMatch
<1> QED BY <1>1, SpecInv, PTL

\* Release and Invalidate: sharedUsers of the current connection counts those
\* who are going to give it back, so that it is dropped as idle only when
\* nobody uses it.
THEOREM UsersAreExact == Spec => []UsersAccounted
<1>1. Inv => UsersAccounted BY DEF Inv, Core, Counted, UsersAccounted
<1> QED BY <1>1, SpecInv, PTL
=============================================================================
