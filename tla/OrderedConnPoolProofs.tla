----------------------- MODULE OrderedConnPoolProofs -----------------------
(***************************************************************************)
(* OneUser, SlotsExact and NoLeak of the ordered pool, for any number of   *)
(* callers, connections, slots and Resets.  They are conjuncts, or easy    *)
(* consequences, of the inductive invariant Inv: who holds a slot can only *)
(* be counted if the waiters are exactly the callers at "wait" (WaitInv),  *)
(* and a connection has one user only if no dial yields one that somebody  *)
(* already has or that is idle (HandsInv, IdleInv).                        *)
(***************************************************************************)
EXTENDS OrderedConnPool, SequenceTheorems, FiniteSetTheorems, TLAPS

-----------------------------------------------------------------------------
(* Sequences                                                               *)

\* RemoveAt takes out one entry and moves up those after it.
LEMMA RemoveAtEntries ==
  ASSUME NEW S, NEW s \in Seq(S), NEW k \in 1 .. Len(s)
  PROVE  /\ RemoveAt(s, k) \in Seq(S)
         /\ Len(RemoveAt(s, k)) = Len(s) - 1
         /\ \A i \in 1 .. (Len(s) - 1) : RemoveAt(s, k)[i] = IF i < k THEN s[i] ELSE s[i + 1]
<1> DEFINE a == SubSeq(s, 1, k - 1)
           b == SubSeq(s, k + 1, Len(s))
<1>1. Len(s) \in Nat BY LenProperties
<1>2. /\ a \in Seq(S) /\ Len(a) = k - 1
      /\ \A i \in 1 .. (k - 1) : a[i] = s[i]
  <2>1. \A i \in 1 .. (k - 1) : s[i] \in S BY <1>1, ElementOfSeq
  <2> QED BY <1>1, <2>1, SubSeqProperties
<1>3. /\ b \in Seq(S) /\ Len(b) = Len(s) - k
      /\ \A i \in 1 .. (Len(s) - k) : b[i] = s[k + i]
  <2>1. \A i \in (k + 1) .. Len(s) : s[i] \in S BY <1>1, ElementOfSeq
  <2> QED BY <1>1, <2>1, SubSeqProperties
<1>6. RemoveAt(s, k) = a \o b BY DEF RemoveAt
<1> HIDE DEF a, b
<1>4. /\ a \o b \in Seq(S) /\ Len(a \o b) = Len(a) + Len(b)
      /\ \A i \in 1 .. Len(a) + Len(b) : (a \o b)[i] = IF i <= Len(a) THEN a[i] ELSE b[i - Len(a)]
  BY <1>2, <1>3, ConcatProperties, Zenon
<1>5. ASSUME NEW i \in 1 .. (Len(s) - 1)
      PROVE  (a \o b)[i] = IF i < k THEN s[i] ELSE s[i + 1]
  <2>1. i \in 1 .. Len(a) + Len(b) BY <1>1, <1>2, <1>3
  <2>2. CASE i < k
    <3>1. i \in 1 .. (k - 1) /\ i <= Len(a) BY <1>1, <1>2, <2>2
    <3> QED BY <1>2, <1>4, <2>1, <2>2, <3>1
  <2>3. CASE ~(i < k)
    <3>1. i - Len(a) \in 1 .. (Len(s) - k) /\ ~(i <= Len(a)) /\ k + (i - Len(a)) = i + 1
      BY <1>1, <1>2, <2>3
    <3>2. (a \o b)[i] = b[i - Len(a)] BY <1>4, <2>1, <3>1
    <3>3. b[i - Len(a)] = s[k + (i - Len(a))] BY <1>3, <3>1
    <3> QED BY <2>3, <3>1, <3>2, <3>3
  <2> QED BY <2>2, <2>3, Zenon
<1>7. Len(a \o b) = Len(s) - 1 BY <1>1, <1>2, <1>3, <1>4
<1> QED BY <1>4, <1>5, <1>6, <1>7, Zenon

\* Without a sequence of distinct entries contains what it did, but e.
LEMMA WithoutEntry ==
  ASSUME NEW S, NEW s \in Seq(S), Distinct(s), NEW e
  PROVE  /\ Without(s, e) \in Seq(S)
         /\ Distinct(Without(s, e))
         /\ \A x : Contains(Without(s, e), x) <=> Contains(s, x) /\ x # e
<1>0. Len(s) \in Nat BY LenProperties
<1>1. CASE ~Contains(s, e)
  BY <1>1 DEF Without, Contains
<1>2. CASE Contains(s, e)
  <2> DEFINE k == CHOOSE i \in 1 .. Len(s) : s[i] = e
             t == RemoveAt(s, k)
  <2>1. k \in 1 .. Len(s) /\ s[k] = e BY <1>2 DEF Contains
  <2> HIDE DEF k
  <2>2. /\ t \in Seq(S) /\ Len(t) = Len(s) - 1
        /\ \A i \in 1 .. (Len(s) - 1) : t[i] = IF i < k THEN s[i] ELSE s[i + 1]
    BY <2>1, RemoveAtEntries, Zenon
  <2> HIDE DEF t
  <2>3. Without(s, e) = t BY <1>2 DEF Without, k, t
  <2>4. Distinct(t) BY <1>0, <2>1, <2>2 DEF Distinct
  <2>5. ASSUME NEW x, Contains(t, x) PROVE Contains(s, x) /\ x # e
    <3>1. PICK i \in 1 .. Len(t) : t[i] = x BY <2>5 DEF Contains
    <3>2. CASE i < k BY <1>0, <2>1, <2>2, <3>1, <3>2 DEF Contains, Distinct
    <3>3. CASE ~(i < k)
      <4>1. s[i + 1] = x /\ i + 1 \in 1 .. Len(s) /\ i + 1 # k
        BY <1>0, <2>1, <2>2, <3>1, <3>3
      <4> QED BY <4>1, <2>1 DEF Contains, Distinct
    <3> QED BY <3>2, <3>3
  <2>6. ASSUME NEW x, Contains(s, x), x # e PROVE Contains(t, x)
    <3>1. PICK i \in 1 .. Len(s) : s[i] = x BY <2>6 DEF Contains
    <3>2. CASE i < k BY <1>0, <2>1, <2>2, <3>1, <3>2 DEF Contains
    <3>3. CASE ~(i < k)
      <4>1. i # k BY <2>1, <2>6, <3>1
      <4>2. i - 1 \in 1 .. Len(t) /\ t[i - 1] = x
        BY <1>0, <2>1, <2>2, <3>1, <3>3, <4>1
      <4> QED BY <4>2 DEF Contains
    <3> QED BY <3>2, <3>3
  <2> QED BY <2>2, <2>3, <2>4, <2>5, <2>6
<1> QED BY <1>1, <1>2

\* The tail of a sequence of distinct entries lacks its head.
LEMMA TailEntries ==
  ASSUME NEW S, NEW s \in Seq(S), Distinct(s), s # <<>>
  PROVE  /\ Head(s) \in S /\ Tail(s) \in Seq(S)
         /\ Contains(s, Head(s)) /\ Distinct(Tail(s))
         /\ \A i \in 1 .. Len(Tail(s)) : i + 1 \in 1 .. Len(s) /\ Tail(s)[i] = s[i + 1]
         /\ \A x : Contains(Tail(s), x) <=> Contains(s, x) /\ x # Head(s)
<1>0. Len(s) \in Nat /\ Len(s) # 0 BY LenProperties, EmptySeq
<1>1. /\ Head(s) \in S /\ Head(s) = s[1]
      /\ Tail(s) \in Seq(S) /\ Len(Tail(s)) = Len(s) - 1
      /\ \A i \in 1 .. (Len(s) - 1) : Tail(s)[i] = s[i + 1]
  BY <1>0, HeadTailProperties
<1>2. Contains(s, Head(s)) BY <1>0, <1>1 DEF Contains
<1>3. Distinct(Tail(s)) BY <1>0, <1>1 DEF Distinct
<1>4. ASSUME NEW x, Contains(Tail(s), x) PROVE Contains(s, x) /\ x # Head(s)
  <2>1. PICK i \in 1 .. Len(Tail(s)) : Tail(s)[i] = x BY <1>4 DEF Contains
  <2>2. s[i + 1] = x /\ i + 1 \in 1 .. Len(s) /\ i + 1 # 1 /\ 1 \in 1 .. Len(s) BY <1>0, <1>1, <2>1
  <2> QED BY <2>2, <1>1 DEF Contains, Distinct
<1>5. ASSUME NEW x, Contains(s, x), x # Head(s) PROVE Contains(Tail(s), x)
  <2>1. PICK i \in 1 .. Len(s) : s[i] = x BY <1>5 DEF Contains
  <2>2. i - 1 \in 1 .. Len(Tail(s)) /\ Tail(s)[i - 1] = x BY <1>0, <1>1, <1>5, <2>1
  <2> QED BY <2>2 DEF Contains
<1> QED BY <1>0, <1>1, <1>2, <1>3, <1>4, <1>5

\* Appending a new entry keeps the entries distinct.
LEMMA AppendEntry ==
  ASSUME NEW S, NEW s \in Seq(S), Distinct(s), NEW e \in S, ~Contains(s, e)
  PROVE  /\ Append(s, e) \in Seq(S) /\ Append(s, e) # <<>>
         /\ Distinct(Append(s, e))
         /\ \A x : Contains(Append(s, e), x) <=> Contains(s, x) \/ x = e
<1>0. Len(s) \in Nat BY LenProperties
<1>1. /\ Append(s, e) \in Seq(S) /\ Append(s, e) # <<>>
      /\ Len(Append(s, e)) = Len(s) + 1
      /\ \A i \in 1 .. Len(s) : Append(s, e)[i] = s[i]
      /\ Append(s, e)[Len(s) + 1] = e
  BY AppendProperties
<1>2. Distinct(Append(s, e)) BY <1>0, <1>1 DEF Distinct, Contains
<1>3. ASSUME NEW x PROVE Contains(Append(s, e), x) <=> Contains(s, x) \/ x = e
  BY <1>0, <1>1 DEF Contains
<1> QED BY <1>1, <1>2, <1>3

-----------------------------------------------------------------------------
(* Slots handed on                                                         *)

\* releaseSlot moves its caller on, and the first waiter to "granted".
LEMMA PutSlotMoves ==
  ASSUME Inv, NEW p \in Callers, pc[p] \in HoldsSlot, NEW l \in {"off", "using"}, PutSlot(p, l)
  PROVE  /\ pc'[p] = l /\ pc' \in [Callers -> {"off", "take", "slot", "wait"} \cup HasConn \cup HoldsSlot]
         /\ \A q \in Callers \ {p} : pc'[q] = pc[q] \/ (pc[q] = "wait" /\ pc'[q] = "granted")
         /\ waiters' \in Seq(Callers) /\ slots' \in Int
         /\ WaitInv'
<1> USE DEF Inv, TypeOK, HasConn, HoldsSlot
<1>1. CASE waiters = <<>> BY <1>1 DEF PutSlot, Goto, WaitInv, Contains, Distinct
<1>2. CASE waiters # <<>>
  <2> DEFINE h == Head(waiters)
  <2>1. /\ h \in Callers /\ Tail(waiters) \in Seq(Callers)
        /\ Contains(waiters, h) /\ Distinct(Tail(waiters))
        /\ \A x : Contains(Tail(waiters), x) <=> Contains(waiters, x) /\ x # h
    BY <1>2, TailEntries DEF WaitInv
  <2>2. pc[h] = "wait" BY <2>1 DEF WaitInv
  <2>3. h # p BY <2>2
  <2>4. waiters' = Tail(waiters) /\ pc' = [pc EXCEPT ![p] = l, ![h] = "granted"] /\ slots' = slots
    BY <1>2 DEF PutSlot
  <2> HIDE DEF h
  <2>5. WaitInv' BY <2>1, <2>2, <2>3, <2>4 DEF WaitInv
  <2> QED BY <2>1, <2>2, <2>3, <2>4, <2>5, Zenon
<1> QED BY <1>1, <1>2

-----------------------------------------------------------------------------
(* The step, one lemma for each conjunct of Inv                            *)

\* Types are kept.
LEMMA TypeStep == ASSUME Inv, [Next]_vars PROVE TypeOK'
<1>a. TypeOK /\ HandsInv /\ IdleInv /\ WaitInv BY DEF Inv
<1> USE <1>a DEF TypeOK, HasConn, HoldsSlot
<1>1. ASSUME NEW p \in Callers, Call(p) PROVE TypeOK'
  BY <1>1 DEF Call, Goto, pool, sem, conns
<1>2. ASSUME NEW p \in Callers, EndContext(p) PROVE TypeOK'
  BY <1>2 DEF EndContext, Goto, pool, sem, conns
<1>3. ASSUME NEW p \in Callers, TakeClosed(p) PROVE TypeOK'
  BY <1>3 DEF TakeClosed, Goto, pool, sem, conns
<1>4. ASSUME NEW p \in Callers, TakeIdle(p) PROVE TypeOK'
  BY <1>4, TailEntries DEF TakeIdle, Goto, pool, sem, conns, IdleInv
<1>5. ASSUME NEW p \in Callers, TakeDead(p) PROVE TypeOK'
  BY <1>5, TailEntries DEF TakeDead, Goto, pool, sem, conns, IdleInv
<1>6. ASSUME NEW p \in Callers, Bury(p) PROVE TypeOK'
  BY <1>6 DEF Bury, Goto, CloseConn, pool, sem, conns, HandsInv
<1>7. ASSUME NEW p \in Callers, TakeNone(p) PROVE TypeOK'
  BY <1>7 DEF TakeNone, Goto, pool, sem, conns
<1>8. ASSUME NEW p \in Callers, AcquireSlot(p) PROVE TypeOK'
  <2>1. Append(waiters, p) \in Seq(Callers) BY AppendProperties
  <2>0. (slots' = slots + 1 /\ waiters' = waiters) \/ (slots' = slots /\ waiters' = Append(waiters, p)) BY <1>8 DEF AcquireSlot
  <2>2. waiters' \in Seq(Callers) BY <2>0, <2>1, Zenon
  <2>4. slots' \in Int BY <2>0
  <2>3. pc' \in [Callers -> {"off", "take", "slot", "wait"} \cup HasConn \cup HoldsSlot] BY <1>8, Zenon DEF AcquireSlot, Goto
  <2> QED BY <1>8, <2>2, <2>3, <2>4 DEF AcquireSlot, pool, conns
<1>9. ASSUME NEW p \in Callers, RefuseSlot(p) PROVE TypeOK'
  BY <1>9 DEF RefuseSlot, Goto, Return, pool, sem, conns
<1>10. ASSUME NEW p \in Callers, CancelWait(p) PROVE TypeOK'
  <2>1. CASE pc[p] = "wait"
    <3>1. Without(waiters, p) \in Seq(Callers) BY WithoutEntry DEF WaitInv
    <3> QED BY <1>10, <2>1, <3>1 DEF CancelWait, Goto, Return, pool, conns
  <2>2. CASE pc[p] = "granted"
    <3>1. /\ pc' \in [Callers -> {"off", "take", "slot", "wait"} \cup HasConn \cup HoldsSlot]
          /\ waiters' \in Seq(Callers) /\ slots' \in Int
      BY <1>10, <2>2, PutSlotMoves DEF CancelWait
    <3> QED BY <1>10, <3>1, Zenon DEF CancelWait, Return, pool, conns
  <2> QED BY <1>10, <2>1, <2>2 DEF CancelWait
<1>11. ASSUME NEW p \in Callers, UseGrant(p) PROVE TypeOK'
  BY <1>11 DEF UseGrant, Goto, pool, sem, conns
<1>12. ASSUME NEW p \in Callers, DialFails(p) PROVE TypeOK'
  BY <1>12 DEF DialFails, Goto, pool, sem, conns
<1>13. ASSUME NEW p \in Callers, NEW c \in Conns, DialReturns(p, c) PROVE TypeOK'
  BY <1>13 DEF DialReturns, Goto, pool, sem, conns
<1>14. ASSUME NEW p \in Callers, Install(p) PROVE TypeOK'
  BY <1>14, Zenon DEF Install, Goto, pool, sem, conns, HandsInv
<1>15. ASSUME NEW p \in Callers, Discard(p) PROVE TypeOK'
  BY <1>15 DEF Discard, Goto, CloseConn, pool, sem, conns, HandsInv
<1>16. ASSUME NEW p \in Callers, ReleaseSlot(p) PROVE TypeOK'
  BY <1>16, PutSlotMoves DEF ReleaseSlot, Goto, Return, pool, sem, conns
<1>17. ASSUME NEW p \in Callers, ReleaseReusable(p) PROVE TypeOK'
  BY <1>17, AppendProperties DEF ReleaseReusable, Goto, pool, sem, conns, HandsInv
<1>18. ASSUME NEW p \in Callers, ReleaseClose(p) PROVE TypeOK'
  <2>1. conn[p] \in Conns BY <1>18 DEF ReleaseClose, HandsInv
  <2>2. Without(idle, conn[p]) \in Seq(Conns) BY WithoutEntry DEF IdleInv
  <2>0. (home' = home /\ idle' = idle) \/ (home' = [home EXCEPT ![conn[p]] = 0] /\ idle' = Without(idle, conn[p]))
    BY <1>18 DEF ReleaseClose, RemoveConn
  <2>3. idle' \in Seq(Conns) BY <2>0, <2>2, Zenon
  <2>6. home' \in [Conns -> Nat]
    <3>1. home' = home \/ home' = [home EXCEPT ![conn[p]] = 0] BY <2>0
    <3>2. \A x \in Conns : [home EXCEPT ![x] = 0] \in [Conns -> Nat] OBVIOUS
    <3> QED BY <3>1, <3>2, <2>1, Zenon
  <2>4. pc' \in [Callers -> {"off", "take", "slot", "wait"} \cup HasConn \cup HoldsSlot] /\ conn' \in [Callers -> Conns \cup {None}]
    BY <1>18 DEF ReleaseClose, Goto
  <2>5. UNCHANGED <<pool, sem, current, ctxDone, status>> /\ doomed' \subseteq Conns BY <1>18 DEF ReleaseClose, conns
  <2> QED BY <2>3, <2>4, <2>5, <2>6 DEF pool, sem
<1>19. ASSUME NEW p \in Callers, Close(p) PROVE TypeOK'
  BY <1>19 DEF Close, Goto, CloseConn, pool, sem, conns, HandsInv
<1>20. ASSUME NEW p \in Callers, InvalidateUsed(p) PROVE TypeOK'
  <2>1. conn[p] \in Conns BY <1>20 DEF InvalidateUsed, HandsInv
  <2>2. Without(idle, conn[p]) \in Seq(Conns) BY WithoutEntry DEF IdleInv
  <2>0. (home' = home /\ idle' = idle) \/ (home' = [home EXCEPT ![conn[p]] = 0] /\ idle' = Without(idle, conn[p]))
    BY <1>20, SMTT(30) DEF InvalidateUsed, RemoveConn
  <2>3. idle' \in Seq(Conns) BY <2>0, <2>2, Zenon
  <2>6. home' \in [Conns -> Nat]
    <3>1. home' = home \/ home' = [home EXCEPT ![conn[p]] = 0] BY <2>0
    <3>2. \A x \in Conns : [home EXCEPT ![x] = 0] \in [Conns -> Nat] OBVIOUS
    <3> QED BY <3>1, <3>2, <2>1, Zenon
  <2>4. pc' \in [Callers -> {"off", "take", "slot", "wait"} \cup HasConn \cup HoldsSlot] /\ conn' \in [Callers -> Conns \cup {None}]
    BY <1>20, Zenon DEF InvalidateUsed, Goto
  <2>5. UNCHANGED <<pool, sem, current, ctxDone, status>> /\ doomed' \subseteq Conns BY <1>20 DEF InvalidateUsed, conns
  <2> QED BY <2>3, <2>4, <2>5, <2>6 DEF pool, sem
<1>21. ASSUME Reset PROVE TypeOK'
  BY <1>21 DEF Reset, pool, sem, conns
<1>22. ASSUME ClosePool PROVE TypeOK'
  BY <1>22 DEF ClosePool, pool, sem, conns
<1>23. ASSUME NEW g \in 1 .. state, CloseState(g) PROVE TypeOK'
  BY <1>23 DEF CloseState, pool, sem, conns
<1>24. ASSUME NEW c \in Conns, InvalidateOther(c) PROVE TypeOK'
  <2>1. c \in Conns BY <1>24 DEF InvalidateOther, HandsInv
  <2>2. Without(idle, c) \in Seq(Conns) BY WithoutEntry DEF IdleInv
  <2>0. (home' = home /\ idle' = idle) \/ (home' = [home EXCEPT ![c] = 0] /\ idle' = Without(idle, c))
    BY <1>24 DEF InvalidateOther, RemoveConn
  <2>3. idle' \in Seq(Conns) BY <2>0, <2>2, Zenon
  <2>6. home' \in [Conns -> Nat]
    <3>1. home' = home \/ home' = [home EXCEPT ![c] = 0] BY <2>0
    <3>2. \A x \in Conns : [home EXCEPT ![x] = 0] \in [Conns -> Nat] OBVIOUS
    <3> QED BY <3>1, <3>2, <2>1, Zenon
  <2>4. pc' \in [Callers -> {"off", "take", "slot", "wait"} \cup HasConn \cup HoldsSlot] /\ conn' \in [Callers -> Conns \cup {None}]
    BY <1>24 DEF InvalidateOther, Goto
  <2>5. UNCHANGED <<pool, sem, current, ctxDone, status>> /\ doomed' \subseteq Conns BY <1>24 DEF InvalidateOther, conns
  <2> QED BY <2>3, <2>4, <2>5, <2>6 DEF pool, sem
<1>25. ASSUME NEW c \in Conns, CloseDoomed(c) PROVE TypeOK'
  BY <1>25 DEF CloseDoomed, CloseConn, pool, sem, conns
<1>26. ASSUME NEW c \in Conns, Break(c) PROVE TypeOK'
  BY <1>26 DEF Break, pool, sem, conns
<1>27. CASE UNCHANGED vars BY <1>27 DEF vars
<1> QED BY <1>1, <1>2, <1>3, <1>4, <1>5, <1>6, <1>7, <1>8, <1>9, <1>10, <1>11, <1>12, <1>13, <1>14, <1>15, <1>16, <1>17, <1>18, <1>19, <1>20, <1>21, <1>22, <1>23, <1>24, <1>25, <1>26, <1>27, Zenon DEF Next, Acquire, Dial, Use

\* Callers have one dialled connection each.
LEMMA HandsStep == ASSUME Inv, [Next]_vars PROVE HandsInv'
<1>a. TypeOK /\ HandsInv /\ IdleInv BY DEF Inv
<1> USE <1>a DEF TypeOK, HasConn, HoldsSlot, HandsInv
<1>1. ASSUME NEW p \in Callers, Call(p) PROVE HandsInv'
  BY <1>1 DEF Call, Goto, pool, sem, conns
<1>2. ASSUME NEW p \in Callers, EndContext(p) PROVE HandsInv'
  BY <1>2 DEF EndContext, Goto, pool, sem, conns
<1>3. ASSUME NEW p \in Callers, TakeClosed(p) PROVE HandsInv'
  BY <1>3 DEF TakeClosed, Goto, pool, sem, conns
<1>4. ASSUME NEW p \in Callers, TakeIdle(p) PROVE HandsInv'
  BY <1>4, TailEntries DEF TakeIdle, Goto, pool, sem, conns, IdleInv
<1>5. ASSUME NEW p \in Callers, TakeDead(p) PROVE HandsInv'
  BY <1>5, TailEntries DEF TakeDead, Goto, pool, sem, conns, IdleInv
<1>6. ASSUME NEW p \in Callers, Bury(p) PROVE HandsInv'
  BY <1>6 DEF Bury, Goto, CloseConn, pool, sem, conns
<1>7. ASSUME NEW p \in Callers, TakeNone(p) PROVE HandsInv'
  BY <1>7 DEF TakeNone, Goto, pool, sem, conns
<1>8. ASSUME NEW p \in Callers, AcquireSlot(p) PROVE HandsInv'
  <2>1. conn' = conn /\ status' = status /\ pc[p] = "slot" BY <1>8 DEF AcquireSlot, conns
  <2>2. \A q \in Callers : pc'[q] = pc[q] \/ (q = p /\ pc'[q] \in {"dial", "wait"}) BY <1>8 DEF AcquireSlot, Goto
  <2> QED BY <2>1, <2>2, Zenon
<1>9. ASSUME NEW p \in Callers, RefuseSlot(p) PROVE HandsInv'
  BY <1>9 DEF RefuseSlot, Goto, Return, pool, sem, conns
<1>10. ASSUME NEW p \in Callers, CancelWait(p) PROVE HandsInv'
  <2>1. conn' = conn /\ status' = status BY <1>10 DEF CancelWait, conns
  <2>2. pc[p] \in {"wait", "granted"} /\ pc'[p] = "off" /\ \A q \in Callers \ {p} : pc'[q] = pc[q] \/ (pc[q] = "wait" /\ pc'[q] = "granted")
    <3>1. CASE pc[p] = "wait" BY <1>10, <3>1 DEF CancelWait, Goto
    <3>2. CASE pc[p] = "granted" BY <1>10, <3>2, PutSlotMoves DEF CancelWait
    <3> QED BY <1>10, <3>1, <3>2 DEF CancelWait
  <2> QED BY <2>1, <2>2, Zenon
<1>11. ASSUME NEW p \in Callers, UseGrant(p) PROVE HandsInv'
  BY <1>11 DEF UseGrant, Goto, pool, sem, conns
<1>12. ASSUME NEW p \in Callers, DialFails(p) PROVE HandsInv'
  BY <1>12 DEF DialFails, Goto, pool, sem, conns
<1>13. ASSUME NEW p \in Callers, NEW c \in Conns, DialReturns(p, c) PROVE HandsInv'
  BY <1>13, OrderedAssumption DEF DialReturns, Goto, pool, sem, conns
<1>14. ASSUME NEW p \in Callers, Install(p) PROVE HandsInv'
  BY <1>14 DEF Install, Goto, pool, sem, conns
<1>15. ASSUME NEW p \in Callers, Discard(p) PROVE HandsInv'
  BY <1>15 DEF Discard, Goto, CloseConn, pool, sem, conns
<1>16. ASSUME NEW p \in Callers, ReleaseSlot(p) PROVE HandsInv'
  <2>1. conn' = conn /\ status' = status BY <1>16 DEF ReleaseSlot, conns
  <2>2. pc'[p] = (IF conn[p] = None THEN "off" ELSE "using") /\ \A q \in Callers \ {p} : pc'[q] = pc[q] \/ (pc[q] = "wait" /\ pc'[q] = "granted")
    BY <1>16, PutSlotMoves DEF ReleaseSlot
  <2> QED BY <2>1, <2>2, Zenon
<1>17. ASSUME NEW p \in Callers, ReleaseReusable(p) PROVE HandsInv'
  BY <1>17 DEF ReleaseReusable, Goto, pool, sem, conns
<1>18. ASSUME NEW p \in Callers, ReleaseClose(p) PROVE HandsInv'
  BY <1>18 DEF ReleaseClose, Goto, RemoveConn, pool, sem, conns
<1>19. ASSUME NEW p \in Callers, Close(p) PROVE HandsInv'
  BY <1>19 DEF Close, Goto, CloseConn, pool, sem, conns
<1>20. ASSUME NEW p \in Callers, InvalidateUsed(p) PROVE HandsInv'
  <2>1. status' = status /\ pc[p] = "using" BY <1>20 DEF InvalidateUsed, conns
  <2>2. \A q \in Callers \ {p} : pc'[q] = pc[q] /\ conn'[q] = conn[q] BY <1>20 DEF InvalidateUsed, Goto
  <2>3. (pc'[p] = "close" /\ conn'[p] = conn[p]) \/ (pc'[p] = "off" /\ conn'[p] = None) BY <1>20 DEF InvalidateUsed, Goto
  <2>4. \A q \in Callers : conn'[q] \in {conn[q], None} BY <2>2, <2>3
  <2>5. \A q, r \in Callers : q # r /\ conn'[q] # None => conn'[q] # conn'[r] BY <2>4
  <2>6. \A q \in Callers : pc'[q] \in HasConn => conn'[q] # None
    <3>1. conn[p] # None BY <2>1
    <3>2. pc'[p] \in HasConn => conn'[p] # None BY <2>3, <3>1
    <3>3. \A q \in Callers \ {p} : pc'[q] \in HasConn => conn'[q] # None BY <2>2
    <3> QED BY <3>2, <3>3
  <2>7. \A q \in Callers : conn'[q] # None => pc'[q] \in HasConn \cup {"release"} BY <2>2, <2>3, Zenon
  <2>8. \A q \in Callers : conn'[q] # None => status'[conn'[q]] # "new" BY <2>1, <2>4
  <2> QED BY <2>5, <2>6, <2>7, <2>8, SMTT(30)
<1>21. ASSUME Reset PROVE HandsInv'
  BY <1>21 DEF Reset, pool, sem, conns
<1>22. ASSUME ClosePool PROVE HandsInv'
  BY <1>22 DEF ClosePool, pool, sem, conns
<1>23. ASSUME NEW g \in 1 .. state, CloseState(g) PROVE HandsInv'
  BY <1>23 DEF CloseState, pool, sem, conns
<1>24. ASSUME NEW c \in Conns, InvalidateOther(c) PROVE HandsInv'
  BY <1>24 DEF InvalidateOther, RemoveConn, pool, sem, conns
<1>25. ASSUME NEW c \in Conns, CloseDoomed(c) PROVE HandsInv'
  BY <1>25 DEF CloseDoomed, CloseConn, pool, sem, conns
<1>26. ASSUME NEW c \in Conns, Break(c) PROVE HandsInv'
  BY <1>26 DEF Break, pool, sem, conns
<1>27. CASE UNCHANGED vars BY <1>27 DEF vars
<1> QED BY <1>1, <1>2, <1>3, <1>4, <1>5, <1>6, <1>7, <1>8, <1>9, <1>10, <1>11, <1>12, <1>13, <1>14, <1>15, <1>16, <1>17, <1>18, <1>19, <1>20, <1>21, <1>22, <1>23, <1>24, <1>25, <1>26, <1>27, Zenon DEF Next, Acquire, Dial, Use

\* Idle connections are dialled, listed once, and in nobody's hands.
LEMMA IdleStep == ASSUME Inv, [Next]_vars PROVE IdleInv'
<1>a. TypeOK /\ HandsInv /\ IdleInv BY DEF Inv
<1>n. ~Contains(idle, None)
  BY <1>a, OrderedAssumption, LenProperties, ElementOfSeq DEF Contains, TypeOK
<1>e. Distinct(<<>>) /\ \A x : ~Contains(<<>>, x) BY DEF Distinct, Contains
<1>1. ASSUME NEW p \in Callers, Call(p) PROVE IdleInv'
  BY <1>1, <1>a DEF Call, Goto, pool, sem, conns, IdleInv, TypeOK
<1>2. ASSUME NEW p \in Callers, EndContext(p) PROVE IdleInv'
  BY <1>2, <1>a DEF EndContext, Goto, pool, sem, conns, IdleInv, TypeOK
<1>3. ASSUME NEW p \in Callers, TakeClosed(p) PROVE IdleInv'
  BY <1>3, <1>a DEF TakeClosed, Goto, pool, sem, conns, IdleInv, TypeOK
<1>4. ASSUME NEW p \in Callers, TakeIdle(p) PROVE IdleInv'
  <2>1. /\ Head(idle) \in Conns /\ Distinct(Tail(idle))
        /\ \A x : Contains(Tail(idle), x) <=> Contains(idle, x) /\ x # Head(idle)
    BY <1>4, <1>a, TailEntries DEF TakeIdle, IdleInv, TypeOK
  <2>2. \A q \in Callers : ~Contains(Tail(idle), conn'[q]) BY <1>4, <2>1, <1>a DEF TakeIdle, IdleInv, TypeOK
  <2> QED BY <1>4, <2>1, <2>2, <1>a DEF TakeIdle, conns, IdleInv
<1>5. ASSUME NEW p \in Callers, TakeDead(p) PROVE IdleInv'
  <2>1. /\ Head(idle) \in Conns /\ Distinct(Tail(idle))
        /\ \A x : Contains(Tail(idle), x) <=> Contains(idle, x) /\ x # Head(idle)
    BY <1>5, <1>a, TailEntries DEF TakeDead, IdleInv, TypeOK
  <2>2. \A q \in Callers : ~Contains(Tail(idle), conn'[q]) BY <1>5, <2>1, <1>a DEF TakeDead, IdleInv, TypeOK
  <2> QED BY <1>5, <2>1, <2>2, <1>a DEF TakeDead, conns, IdleInv
<1>6. ASSUME NEW p \in Callers, Bury(p) PROVE IdleInv'
  <2>1. conn[p] \in Conns BY <1>6, <1>a DEF Bury, HandsInv, HasConn, TypeOK
  <2>2. \A x \in Conns : status[x] # "new" => status'[x] # "new" BY <1>6, <2>1, <1>a DEF Bury, CloseConn, TypeOK
  <2>3. \A q \in Callers : ~Contains(idle, conn'[q]) BY <1>6, <1>a, <1>n DEF Bury, IdleInv, TypeOK
  <2>4. idle' = idle BY <1>6 DEF Bury
  <2> QED BY <2>2, <2>3, <2>4, <1>a DEF IdleInv
<1>7. ASSUME NEW p \in Callers, TakeNone(p) PROVE IdleInv'
  BY <1>7, <1>a DEF TakeNone, Goto, pool, sem, conns, IdleInv, TypeOK
<1>8. ASSUME NEW p \in Callers, AcquireSlot(p) PROVE IdleInv'
  BY <1>8, <1>a DEF AcquireSlot, Goto, pool, sem, conns, IdleInv, TypeOK
<1>9. ASSUME NEW p \in Callers, RefuseSlot(p) PROVE IdleInv'
  BY <1>9, <1>a DEF RefuseSlot, Goto, Return, pool, sem, conns, IdleInv, TypeOK
<1>10. ASSUME NEW p \in Callers, CancelWait(p) PROVE IdleInv'
  BY <1>10, <1>a DEF CancelWait, Goto, Return, pool, sem, conns, IdleInv, TypeOK
<1>11. ASSUME NEW p \in Callers, UseGrant(p) PROVE IdleInv'
  BY <1>11, <1>a DEF UseGrant, Goto, pool, sem, conns, IdleInv, TypeOK
<1>12. ASSUME NEW p \in Callers, DialFails(p) PROVE IdleInv'
  BY <1>12, <1>a DEF DialFails, Goto, pool, sem, conns, IdleInv, TypeOK
<1>13. ASSUME NEW p \in Callers, NEW c \in Conns, DialReturns(p, c) PROVE IdleInv'
  <2>1. ~Contains(idle, c) BY <1>13, <1>a DEF DialReturns, IdleInv
  <2>2. \A q \in Callers : ~Contains(idle, conn'[q]) BY <1>13, <2>1, <1>a DEF DialReturns, IdleInv, TypeOK
  <2> QED BY <1>13, <2>2, <1>a DEF DialReturns, IdleInv, TypeOK
<1>14. ASSUME NEW p \in Callers, Install(p) PROVE IdleInv'
  BY <1>14, <1>a, Zenon DEF Install, Goto, pool, sem, conns, IdleInv, TypeOK
<1>15. ASSUME NEW p \in Callers, Discard(p) PROVE IdleInv'
  <2>1. conn[p] \in Conns BY <1>15, <1>a DEF Discard, HandsInv, HasConn, TypeOK
  <2>2. \A x \in Conns : status[x] # "new" => status'[x] # "new" BY <1>15, <2>1, <1>a DEF Discard, CloseConn, TypeOK
  <2>3. \A q \in Callers : ~Contains(idle, conn'[q]) BY <1>15, <1>a, <1>n DEF Discard, IdleInv, TypeOK
  <2>4. idle' = idle BY <1>15 DEF Discard
  <2> QED BY <2>2, <2>3, <2>4, <1>a DEF IdleInv
<1>16. ASSUME NEW p \in Callers, ReleaseSlot(p) PROVE IdleInv'
  BY <1>16, <1>a DEF ReleaseSlot, Goto, Return, pool, sem, conns, IdleInv, TypeOK
<1>17. ASSUME NEW p \in Callers, ReleaseReusable(p) PROVE IdleInv'
  <2>1. conn[p] \in Conns /\ ~Contains(idle, conn[p]) /\ status[conn[p]] # "new"
    BY <1>17, <1>a DEF ReleaseReusable, HandsInv, IdleInv, HasConn, TypeOK
  <2>2. Distinct(idle') /\ \A x : Contains(idle', x) <=> Contains(idle, x) \/ x = conn[p]
    BY <1>17, <2>1, <1>a, AppendEntry DEF ReleaseReusable, IdleInv, TypeOK
  <2>3. \A q \in Callers : conn'[q] = IF q = p THEN None ELSE conn[q] BY <1>17, <1>a DEF ReleaseReusable, TypeOK
  <2>4. \A q \in Callers : conn'[q] # conn[p] BY <2>1, <2>3, <1>a, OrderedAssumption, SMTT(30) DEF HandsInv
  <2>5. \A q \in Callers : ~Contains(idle', conn'[q]) BY <2>2, <2>3, <2>4, <1>a, <1>n, SMTT(30) DEF IdleInv
  <2>6. status' = status BY <1>17 DEF ReleaseReusable, conns
  <2> QED BY <2>1, <2>2, <2>5, <2>6, <1>a, Zenon DEF IdleInv
<1>18. ASSUME NEW p \in Callers, ReleaseClose(p) PROVE IdleInv'
  <2>1. Distinct(idle') /\ \A x : Contains(idle', x) => Contains(idle, x)
    BY <1>18, <1>a, WithoutEntry DEF ReleaseClose, RemoveConn, IdleInv, TypeOK
  <2>2. status' = status BY <1>18 DEF ReleaseClose, conns
  <2>3. \A q \in Callers : conn'[q] \in {conn[q], None} BY <1>18, <1>a, Zenon DEF ReleaseClose, TypeOK
  <2> QED BY <2>1, <2>2, <2>3, <1>a, <1>n, SMTT(30) DEF IdleInv
<1>19. ASSUME NEW p \in Callers, Close(p) PROVE IdleInv'
  <2>1. conn[p] \in Conns BY <1>19, <1>a DEF Close, HandsInv, HasConn, TypeOK
  <2>2. \A x \in Conns : status[x] # "new" => status'[x] # "new" BY <1>19, <2>1, <1>a DEF Close, CloseConn, TypeOK
  <2>3. \A q \in Callers : ~Contains(idle, conn'[q]) BY <1>19, <1>a, <1>n DEF Close, IdleInv, TypeOK
  <2>4. idle' = idle BY <1>19, Zenon DEF Close
  <2> QED BY <2>2, <2>3, <2>4, <1>a DEF IdleInv
<1>20. ASSUME NEW p \in Callers, InvalidateUsed(p) PROVE IdleInv'
  <2>1. Distinct(idle') /\ \A x : Contains(idle', x) => Contains(idle, x)
    BY <1>20, <1>a, WithoutEntry DEF InvalidateUsed, RemoveConn, IdleInv, TypeOK
  <2>2. status' = status BY <1>20 DEF InvalidateUsed, conns
  <2>3. \A q \in Callers : conn'[q] \in {conn[q], None} BY <1>20, <1>a DEF InvalidateUsed, TypeOK
  <2> QED BY <2>1, <2>2, <2>3, <1>a, <1>n DEF IdleInv
<1>21. ASSUME Reset PROVE IdleInv'
  BY <1>21, <1>a, <1>e DEF Reset, pool, sem, conns, IdleInv, TypeOK
<1>22. ASSUME ClosePool PROVE IdleInv'
  BY <1>22, <1>a, <1>e DEF ClosePool, pool, sem, conns, IdleInv, TypeOK
<1>23. ASSUME NEW g \in 1 .. state, CloseState(g) PROVE IdleInv'
  BY <1>23, <1>a DEF CloseState, pool, sem, conns, IdleInv, TypeOK
<1>24. ASSUME NEW c \in Conns, InvalidateOther(c) PROVE IdleInv'
  <2>1. Distinct(idle') /\ \A x : Contains(idle', x) => Contains(idle, x)
    BY <1>24, <1>a, WithoutEntry DEF InvalidateOther, RemoveConn, IdleInv, TypeOK
  <2>2. status' = status BY <1>24 DEF InvalidateOther, conns
  <2>3. \A q \in Callers : conn'[q] \in {conn[q], None} BY <1>24, <1>a DEF InvalidateOther, TypeOK
  <2> QED BY <2>1, <2>2, <2>3, <1>a, <1>n, SMTT(30) DEF IdleInv
<1>25. ASSUME NEW c \in Conns, CloseDoomed(c) PROVE IdleInv'
  BY <1>25, <1>a DEF CloseDoomed, CloseConn, pool, sem, conns, IdleInv, TypeOK
<1>26. ASSUME NEW c \in Conns, Break(c) PROVE IdleInv'
  BY <1>26, <1>a DEF Break, pool, sem, conns, IdleInv, TypeOK
<1>27. CASE UNCHANGED vars BY <1>27, <1>a, SMTT(30) DEF vars, IdleInv, TypeOK
<1> QED BY <1>1, <1>2, <1>3, <1>4, <1>5, <1>6, <1>7, <1>8, <1>9, <1>10, <1>11, <1>12, <1>13, <1>14, <1>15, <1>16, <1>17, <1>18, <1>19, <1>20, <1>21, <1>22, <1>23, <1>24, <1>25, <1>26, <1>27, Zenon DEF Next, Acquire, Dial, Use

\* The waiters are the callers at "wait".
LEMMA WaitStep == ASSUME Inv, [Next]_vars PROVE WaitInv'
<1>a. TypeOK /\ WaitInv BY DEF Inv
<1>1. ASSUME NEW p \in Callers, Call(p) PROVE WaitInv'
  BY <1>1, <1>a DEF Call, Goto, pool, sem, conns, WaitInv, TypeOK
<1>2. ASSUME NEW p \in Callers, EndContext(p) PROVE WaitInv'
  BY <1>2, <1>a, SMTT(30) DEF EndContext, Goto, pool, sem, conns, WaitInv, TypeOK
<1>3. ASSUME NEW p \in Callers, TakeClosed(p) PROVE WaitInv'
  BY <1>3, <1>a DEF TakeClosed, Goto, pool, sem, conns, WaitInv, TypeOK
<1>4. ASSUME NEW p \in Callers, TakeIdle(p) PROVE WaitInv'
  BY <1>4, <1>a DEF TakeIdle, Goto, pool, sem, conns, WaitInv, TypeOK
<1>5. ASSUME NEW p \in Callers, TakeDead(p) PROVE WaitInv'
  BY <1>5, <1>a DEF TakeDead, Goto, pool, sem, conns, WaitInv, TypeOK
<1>6. ASSUME NEW p \in Callers, Bury(p) PROVE WaitInv'
  BY <1>6, <1>a DEF Bury, Goto, CloseConn, pool, sem, conns, WaitInv, TypeOK
<1>7. ASSUME NEW p \in Callers, TakeNone(p) PROVE WaitInv'
  BY <1>7, <1>a DEF TakeNone, Goto, pool, sem, conns, WaitInv, TypeOK
<1>8. ASSUME NEW p \in Callers, AcquireSlot(p) PROVE WaitInv'
  <2>1. ~Contains(waiters, p) /\ pc[p] = "slot" BY <1>8, <1>a DEF AcquireSlot, WaitInv
  <2>2. CASE HasRoom BY <1>8, <2>1, <2>2, <1>a, SMTT(30) DEF AcquireSlot, Goto, WaitInv, TypeOK
  <2>3. CASE ~HasRoom
    <3>0. waiters' = Append(waiters, p) BY <1>8, <2>3 DEF AcquireSlot
    <3>1. /\ Distinct(waiters')
          /\ \A x : Contains(waiters', x) <=> Contains(waiters, x) \/ x = p
      BY <2>1, <3>0, <1>a, AppendEntry DEF WaitInv, TypeOK
    <3>2. \A q \in Callers : pc'[q] = IF q = p THEN "wait" ELSE pc[q] BY <1>8, <2>3, <1>a DEF AcquireSlot, Goto, TypeOK
    <3> QED BY <3>1, <3>2, <2>1, <1>a DEF WaitInv
  <2> QED BY <2>2, <2>3
<1>9. ASSUME NEW p \in Callers, RefuseSlot(p) PROVE WaitInv'
  BY <1>9, <1>a DEF RefuseSlot, Goto, Return, pool, sem, conns, WaitInv, TypeOK
<1>10. ASSUME NEW p \in Callers, CancelWait(p) PROVE WaitInv'
  <2>1. CASE pc[p] = "wait"
    <3>1. /\ Distinct(waiters')
          /\ \A x : Contains(waiters', x) <=> Contains(waiters, x) /\ x # p
      BY <1>10, <2>1, <1>a, WithoutEntry, SMTT(30) DEF CancelWait, WaitInv, TypeOK
    <3>2. \A q \in Callers : pc'[q] = IF q = p THEN "off" ELSE pc[q] BY <1>10, <2>1, <1>a DEF CancelWait, Goto, TypeOK
    <3> QED BY <3>1, <3>2, <2>1, <1>a, SMTT(30) DEF WaitInv
  <2>2. CASE pc[p] = "granted" BY <1>10, <2>2, PutSlotMoves DEF CancelWait, HoldsSlot
  <2> QED BY <1>10, <2>1, <2>2 DEF CancelWait
<1>11. ASSUME NEW p \in Callers, UseGrant(p) PROVE WaitInv'
  BY <1>11, <1>a DEF UseGrant, Goto, pool, sem, conns, WaitInv, TypeOK
<1>12. ASSUME NEW p \in Callers, DialFails(p) PROVE WaitInv'
  BY <1>12, <1>a DEF DialFails, Goto, pool, sem, conns, WaitInv, TypeOK
<1>13. ASSUME NEW p \in Callers, NEW c \in Conns, DialReturns(p, c) PROVE WaitInv'
  BY <1>13, <1>a DEF DialReturns, Goto, pool, sem, conns, WaitInv, TypeOK
<1>14. ASSUME NEW p \in Callers, Install(p) PROVE WaitInv'
  BY <1>14, <1>a DEF Install, Goto, pool, sem, conns, WaitInv, TypeOK
<1>15. ASSUME NEW p \in Callers, Discard(p) PROVE WaitInv'
  BY <1>15, <1>a DEF Discard, Goto, CloseConn, pool, sem, conns, WaitInv, TypeOK
<1>16. ASSUME NEW p \in Callers, ReleaseSlot(p) PROVE WaitInv'
  BY <1>16, <1>a, PutSlotMoves, SMTT(30) DEF ReleaseSlot, Goto, Return, pool, sem, conns, HoldsSlot, WaitInv, TypeOK
<1>17. ASSUME NEW p \in Callers, ReleaseReusable(p) PROVE WaitInv'
  BY <1>17, <1>a DEF ReleaseReusable, Goto, pool, sem, conns, WaitInv, TypeOK
<1>18. ASSUME NEW p \in Callers, ReleaseClose(p) PROVE WaitInv'
  BY <1>18, <1>a DEF ReleaseClose, Goto, RemoveConn, pool, sem, conns, WaitInv, TypeOK
<1>19. ASSUME NEW p \in Callers, Close(p) PROVE WaitInv'
  BY <1>19, <1>a DEF Close, Goto, CloseConn, pool, sem, conns, WaitInv, TypeOK
<1>20. ASSUME NEW p \in Callers, InvalidateUsed(p) PROVE WaitInv'
  BY <1>20, <1>a DEF InvalidateUsed, Goto, RemoveConn, pool, sem, conns, WaitInv, TypeOK
<1>21. ASSUME Reset PROVE WaitInv'
  BY <1>21, <1>a DEF Reset, pool, sem, conns, WaitInv, TypeOK
<1>22. ASSUME ClosePool PROVE WaitInv'
  BY <1>22, <1>a DEF ClosePool, pool, sem, conns, WaitInv, TypeOK
<1>23. ASSUME NEW g \in 1 .. state, CloseState(g) PROVE WaitInv'
  BY <1>23, <1>a DEF CloseState, pool, sem, conns, WaitInv, TypeOK
<1>24. ASSUME NEW c \in Conns, InvalidateOther(c) PROVE WaitInv'
  BY <1>24, <1>a DEF InvalidateOther, RemoveConn, pool, sem, conns, WaitInv, TypeOK
<1>25. ASSUME NEW c \in Conns, CloseDoomed(c) PROVE WaitInv'
  BY <1>25, <1>a DEF CloseDoomed, CloseConn, pool, sem, conns, WaitInv, TypeOK
<1>26. ASSUME NEW c \in Conns, Break(c) PROVE WaitInv'
  BY <1>26, <1>a DEF Break, pool, sem, conns, WaitInv, TypeOK
<1>27. CASE UNCHANGED vars BY <1>27, <1>a DEF vars, WaitInv, TypeOK
<1> QED BY <1>1, <1>2, <1>3, <1>4, <1>5, <1>6, <1>7, <1>8, <1>9, <1>10, <1>11, <1>12, <1>13, <1>14, <1>15, <1>16, <1>17, <1>18, <1>19, <1>20, <1>21, <1>22, <1>23, <1>24, <1>25, <1>26, <1>27, Zenon DEF Next, Acquire, Dial, Use

-----------------------------------------------------------------------------
(* Counting the holders of slots                                           *)

\* Holders is finite, and one caller more or less is one slot more or less.
LEMMA HoldersCount ==
  ASSUME TypeOK
  PROVE  /\ Cardinality(Holders) \in Nat
         /\ \A p : p \notin Holders => Cardinality(Holders \cup {p}) = Cardinality(Holders) + 1
         /\ \A p : p \in Holders => Cardinality(Holders \ {p}) = Cardinality(Holders) - 1
         /\ \A p, q : p \in Holders /\ q \notin Holders => Cardinality((Holders \ {p}) \cup {q}) = Cardinality(Holders)
<1>1. IsFiniteSet(Holders) BY OrderedAssumption, FS_Subset DEF Holders
<1>2. Cardinality(Holders) \in Nat BY <1>1, FS_CardinalityType
<1>3. ASSUME NEW p, p \notin Holders PROVE Cardinality(Holders \cup {p}) = Cardinality(Holders) + 1
  BY <1>1, <1>3, FS_AddElement
<1>4. ASSUME NEW p, p \in Holders
      PROVE  IsFiniteSet(Holders \ {p}) /\ Cardinality(Holders \ {p}) = Cardinality(Holders) - 1
  BY <1>1, <1>4, FS_RemoveElement
<1>5. ASSUME NEW p, NEW q, p \in Holders, q \notin Holders
      PROVE  Cardinality((Holders \ {p}) \cup {q}) = Cardinality(Holders)
  <2>1. IsFiniteSet(Holders \ {p}) /\ Cardinality(Holders \ {p}) = Cardinality(Holders) - 1 BY <1>4, <1>5
  <2>2. q \notin Holders \ {p} BY <1>5
  <2>3. Cardinality((Holders \ {p}) \cup {q}) = Cardinality(Holders \ {p}) + 1 BY <2>1, <2>2, FS_AddElement
  <2> QED BY <2>1, <2>3, <1>2
<1> QED BY <1>2, <1>3, <1>4, <1>5, Zenon

\* Nothing is counted anew while the same callers hold slots.
LEMMA SlotsKept ==
  ASSUME SlotInv, Holders' = Holders, slots' = slots, waiters' # <<>> => waiters # <<>>
  PROVE  SlotInv'
BY DEF SlotInv

\* releaseSlot frees the slot or hands it to the first waiter.
LEMMA PutSlotCounts ==
  ASSUME Inv, NEW p \in Callers, pc[p] \in HoldsSlot, NEW l \in {"off", "using"}, PutSlot(p, l)
  PROVE  SlotInv'
<1>a. TypeOK /\ WaitInv /\ SlotInv BY DEF Inv
<1>h. p \in Holders /\ Cardinality(Holders) \in Nat /\ slots = Cardinality(Holders)
  BY <1>a, HoldersCount DEF Holders, SlotInv
<1>1. CASE waiters = <<>>
  <2>1. slots' = slots - 1 /\ waiters' = <<>> /\ pc' = [pc EXCEPT ![p] = l] BY <1>1 DEF PutSlot, Goto
  <2>2. Holders' = Holders \ {p} BY <2>1, <1>a DEF Holders, HoldsSlot, TypeOK
  <2>3. Cardinality(Holders') = Cardinality(Holders) - 1 BY <2>2, <1>a, <1>h, HoldersCount
  <2> QED BY <2>1, <2>3, <1>a, <1>h, OrderedAssumption, SMTT(30) DEF SlotInv
<1>2. CASE waiters # <<>>
  <2> DEFINE h == Head(waiters)
  <2>1. h \in Callers /\ Contains(waiters, h) BY <1>2, <1>a, TailEntries DEF WaitInv, TypeOK
  <2>2. pc[h] = "wait" BY <2>1, <1>a DEF WaitInv
  <2>3. h \notin Holders BY <2>2 DEF Holders, HoldsSlot
  <2>4. pc' = [pc EXCEPT ![p] = l, ![h] = "granted"] /\ slots' = slots BY <1>2 DEF PutSlot
  <2> HIDE DEF h
  <2>5. h # p BY <2>3, <1>h
  <2>6. Holders' = (Holders \ {p}) \cup {h} BY <2>1, <2>4, <2>5, <1>a DEF Holders, HoldsSlot, TypeOK
  <2>7. Cardinality(Holders') = Cardinality(Holders) BY <2>3, <2>6, <1>a, <1>h, HoldersCount, SMTT(30)
  <2> QED BY <2>4, <2>7, <1>2, <1>a DEF SlotInv
<1> QED BY <1>1, <1>2

\* The slots taken are those of the holders, MaxInflight at most.
LEMMA SlotStep == ASSUME Inv, [Next]_vars PROVE SlotInv'
<1>a. TypeOK /\ SlotInv BY DEF Inv
<1>1. ASSUME NEW p \in Callers, Call(p) PROVE SlotInv'
  <2>1. Holders' = Holders BY <1>1, <1>a DEF Call, Goto, Holders, HoldsSlot, TypeOK
  <2>2. slots' = slots /\ waiters' = waiters BY <1>1, SMTT(30) DEF Call, sem
  <2> QED BY <2>1, <2>2, <1>a, SlotsKept
<1>2. ASSUME NEW p \in Callers, EndContext(p) PROVE SlotInv'
  <2>1. Holders' = Holders BY <1>2, <1>a DEF EndContext, Goto, Holders, HoldsSlot, TypeOK
  <2>2. slots' = slots /\ waiters' = waiters BY <1>2, SMTT(30) DEF EndContext, sem
  <2> QED BY <2>1, <2>2, <1>a, SlotsKept
<1>3. ASSUME NEW p \in Callers, TakeClosed(p) PROVE SlotInv'
  <2>1. Holders' = Holders BY <1>3, <1>a DEF TakeClosed, Goto, Holders, HoldsSlot, TypeOK
  <2>2. slots' = slots /\ waiters' = waiters BY <1>3, SMTT(30) DEF TakeClosed, sem
  <2> QED BY <2>1, <2>2, <1>a, SlotsKept
<1>4. ASSUME NEW p \in Callers, TakeIdle(p) PROVE SlotInv'
  <2>1. Holders' = Holders BY <1>4, <1>a DEF TakeIdle, Goto, Holders, HoldsSlot, TypeOK
  <2>2. slots' = slots /\ waiters' = waiters BY <1>4, SMTT(30) DEF TakeIdle, sem
  <2> QED BY <2>1, <2>2, <1>a, SlotsKept
<1>5. ASSUME NEW p \in Callers, TakeDead(p) PROVE SlotInv'
  <2>1. Holders' = Holders BY <1>5, <1>a DEF TakeDead, Goto, Holders, HoldsSlot, TypeOK
  <2>2. slots' = slots /\ waiters' = waiters BY <1>5, SMTT(30) DEF TakeDead, sem
  <2> QED BY <2>1, <2>2, <1>a, SlotsKept
<1>6. ASSUME NEW p \in Callers, Bury(p) PROVE SlotInv'
  <2>1. Holders' = Holders BY <1>6, <1>a DEF Bury, Goto, Holders, HoldsSlot, TypeOK
  <2>2. slots' = slots /\ waiters' = waiters BY <1>6, SMTT(30) DEF Bury, sem
  <2> QED BY <2>1, <2>2, <1>a, SlotsKept
<1>7. ASSUME NEW p \in Callers, TakeNone(p) PROVE SlotInv'
  <2>1. Holders' = Holders BY <1>7, <1>a DEF TakeNone, Goto, Holders, HoldsSlot, TypeOK
  <2>2. slots' = slots /\ waiters' = waiters BY <1>7 DEF TakeNone, sem
  <2> QED BY <2>1, <2>2, <1>a, SlotsKept
<1>8. ASSUME NEW p \in Callers, AcquireSlot(p) PROVE SlotInv'
  <2>1. p \notin Holders BY <1>8 DEF AcquireSlot, Holders, HoldsSlot
  <2>2. CASE HasRoom
    <3>1. slots' = slots + 1 /\ waiters' = waiters /\ pc' = [pc EXCEPT ![p] = "dial"]
      BY <1>8, <2>2 DEF AcquireSlot, Goto
    <3>2. Holders' = Holders \cup {p} BY <3>1, <1>a DEF Holders, HoldsSlot, TypeOK
    <3>3. Cardinality(Holders') = Cardinality(Holders) + 1 BY <3>2, <2>1, <1>a, HoldersCount
    <3>4. Cardinality(Holders) \in Nat BY <1>a, HoldersCount
    <3>5. MaxInflight = 0 => waiters = <<>> BY <1>a DEF SlotInv
    <3> QED BY <3>1, <3>3, <3>4, <3>5, <2>2, <1>a, OrderedAssumption, SMTT(30) DEF SlotInv, HasRoom
  <2>3. CASE ~HasRoom
    <3>1. Holders' = Holders /\ slots' = slots BY <1>8, <2>3, <1>a DEF AcquireSlot, Goto, Holders, HoldsSlot, TypeOK
    <3>2. MaxInflight > 0 /\ slots = MaxInflight
      <4>1. MaxInflight # 0 /\ (slots < MaxInflight => waiters # <<>>) BY <2>3 DEF HasRoom
      <4>2. slots \in Int BY <1>a DEF TypeOK
      <4> QED BY <4>1, <4>2, <1>a, OrderedAssumption DEF SlotInv
    <3> QED BY <3>1, <3>2, <1>a DEF SlotInv
  <2> QED BY <2>2, <2>3
<1>9. ASSUME NEW p \in Callers, RefuseSlot(p) PROVE SlotInv'
  <2>1. Holders' = Holders BY <1>9, <1>a DEF RefuseSlot, Goto, Holders, HoldsSlot, TypeOK
  <2>2. slots' = slots /\ waiters' = waiters BY <1>9 DEF RefuseSlot, sem
  <2> QED BY <2>1, <2>2, <1>a, SlotsKept
<1>10. ASSUME NEW p \in Callers, CancelWait(p) PROVE SlotInv'
  <2>1. CASE pc[p] = "wait"
    <3>1. Holders' = Holders BY <1>10, <2>1, <1>a DEF CancelWait, Goto, Holders, HoldsSlot, TypeOK
    <3>2. slots' = slots /\ waiters' = Without(waiters, p) BY <1>10, <2>1 DEF CancelWait
    <3>3. waiters = <<>> => Without(waiters, p) = <<>> BY DEF Without, Contains
    <3> QED BY <3>1, <3>2, <3>3, <1>a, SlotsKept, ZenonT(30)
  <2>2. CASE pc[p] = "granted" BY <1>10, <2>2, PutSlotCounts, Zenon DEF CancelWait, HoldsSlot
  <2> QED BY <1>10, <2>1, <2>2 DEF CancelWait
<1>11. ASSUME NEW p \in Callers, UseGrant(p) PROVE SlotInv'
  <2>1. Holders' = Holders BY <1>11, <1>a DEF UseGrant, Goto, Holders, HoldsSlot, TypeOK
  <2>2. slots' = slots /\ waiters' = waiters BY <1>11, SMTT(30) DEF UseGrant, sem
  <2> QED BY <2>1, <2>2, <1>a, SlotsKept
<1>12. ASSUME NEW p \in Callers, DialFails(p) PROVE SlotInv'
  <2>1. Holders' = Holders BY <1>12, <1>a DEF DialFails, Goto, Holders, HoldsSlot, TypeOK
  <2>2. slots' = slots /\ waiters' = waiters BY <1>12 DEF DialFails, sem
  <2> QED BY <2>1, <2>2, <1>a, SlotsKept
<1>13. ASSUME NEW p \in Callers, NEW c \in Conns, DialReturns(p, c) PROVE SlotInv'
  <2>1. Holders' = Holders BY <1>13, <1>a DEF DialReturns, Goto, Holders, HoldsSlot, TypeOK
  <2>2. slots' = slots /\ waiters' = waiters BY <1>13 DEF DialReturns, sem
  <2> QED BY <2>1, <2>2, <1>a, SlotsKept, SMTT(30)
<1>14. ASSUME NEW p \in Callers, Install(p) PROVE SlotInv'
  <2>1. Holders' = Holders BY <1>14, <1>a, SMTT(30) DEF Install, Goto, Holders, HoldsSlot, TypeOK
  <2>2. slots' = slots /\ waiters' = waiters BY <1>14 DEF Install, sem
  <2> QED BY <2>1, <2>2, <1>a, SlotsKept
<1>15. ASSUME NEW p \in Callers, Discard(p) PROVE SlotInv'
  <2>1. Holders' = Holders BY <1>15, <1>a DEF Discard, Goto, Holders, HoldsSlot, TypeOK
  <2>2. slots' = slots /\ waiters' = waiters BY <1>15 DEF Discard, sem
  <2> QED BY <2>1, <2>2, <1>a, SlotsKept
<1>16. ASSUME NEW p \in Callers, ReleaseSlot(p) PROVE SlotInv'
  <2> QED BY <1>16, PutSlotCounts, ZenonT(30) DEF ReleaseSlot, HoldsSlot
<1>17. ASSUME NEW p \in Callers, ReleaseReusable(p) PROVE SlotInv'
  <2>1. Holders' = Holders BY <1>17, <1>a DEF ReleaseReusable, Goto, Holders, HoldsSlot, TypeOK
  <2>2. slots' = slots /\ waiters' = waiters BY <1>17, SMTT(30) DEF ReleaseReusable, sem
  <2> QED BY <2>1, <2>2, <1>a, SlotsKept
<1>18. ASSUME NEW p \in Callers, ReleaseClose(p) PROVE SlotInv'
  <2>1. Holders' = Holders BY <1>18, <1>a, SMTT(30) DEF ReleaseClose, Goto, Holders, HoldsSlot, TypeOK
  <2>2. slots' = slots /\ waiters' = waiters BY <1>18, SMTT(30) DEF ReleaseClose, sem
  <2> QED BY <2>1, <2>2, <1>a, SlotsKept
<1>19. ASSUME NEW p \in Callers, Close(p) PROVE SlotInv'
  <2>1. Holders' = Holders BY <1>19, <1>a, SMTT(30) DEF Close, Goto, Holders, HoldsSlot, TypeOK
  <2>2. slots' = slots /\ waiters' = waiters BY <1>19, SMTT(30) DEF Close, sem
  <2> QED BY <2>1, <2>2, <1>a, SlotsKept
<1>20. ASSUME NEW p \in Callers, InvalidateUsed(p) PROVE SlotInv'
  <2>1. Holders' = Holders BY <1>20, <1>a DEF InvalidateUsed, Goto, Holders, HoldsSlot, TypeOK
  <2>2. slots' = slots /\ waiters' = waiters BY <1>20 DEF InvalidateUsed, sem
  <2> QED BY <2>1, <2>2, <1>a, SlotsKept
<1>21. ASSUME Reset PROVE SlotInv'
  <2>1. Holders' = Holders BY <1>21, <1>a DEF Reset, Holders, HoldsSlot, TypeOK
  <2>2. slots' = slots /\ waiters' = waiters BY <1>21, SMTT(30) DEF Reset, sem
  <2> QED BY <2>1, <2>2, <1>a, SlotsKept
<1>22. ASSUME ClosePool PROVE SlotInv'
  <2>1. Holders' = Holders BY <1>22, <1>a DEF ClosePool, Holders, HoldsSlot, TypeOK
  <2>2. slots' = slots /\ waiters' = waiters BY <1>22 DEF ClosePool, sem
  <2> QED BY <2>1, <2>2, <1>a, SlotsKept
<1>23. ASSUME NEW g \in 1 .. state, CloseState(g) PROVE SlotInv'
  <2>1. Holders' = Holders BY <1>23, <1>a DEF CloseState, Holders, HoldsSlot, TypeOK
  <2>2. slots' = slots /\ waiters' = waiters BY <1>23, SMTT(30) DEF CloseState, sem
  <2> QED BY <2>1, <2>2, <1>a, SlotsKept
<1>24. ASSUME NEW c \in Conns, InvalidateOther(c) PROVE SlotInv'
  <2>1. Holders' = Holders BY <1>24, <1>a DEF InvalidateOther, Holders, HoldsSlot, TypeOK
  <2>2. slots' = slots /\ waiters' = waiters BY <1>24 DEF InvalidateOther, sem
  <2> QED BY <2>1, <2>2, <1>a, SlotsKept
<1>25. ASSUME NEW c \in Conns, CloseDoomed(c) PROVE SlotInv'
  <2>1. Holders' = Holders BY <1>25, <1>a DEF CloseDoomed, Holders, HoldsSlot, TypeOK
  <2>2. slots' = slots /\ waiters' = waiters BY <1>25, SMTT(30) DEF CloseDoomed, sem
  <2> QED BY <2>1, <2>2, <1>a, SlotsKept
<1>26. ASSUME NEW c \in Conns, Break(c) PROVE SlotInv'
  <2>1. Holders' = Holders BY <1>26, <1>a DEF Break, Holders, HoldsSlot, TypeOK
  <2>2. slots' = slots /\ waiters' = waiters BY <1>26 DEF Break, sem
  <2> QED BY <2>1, <2>2, <1>a, SlotsKept
<1>27. CASE UNCHANGED vars
  <2>1. Holders' = Holders BY <1>27 DEF vars, Holders
  <2>2. slots' = slots /\ waiters' = waiters BY <1>27 DEF vars
  <2> QED BY <2>1, <2>2, <1>a, SlotsKept
<1> QED BY <1>1, <1>2, <1>3, <1>4, <1>5, <1>6, <1>7, <1>8, <1>9, <1>10, <1>11, <1>12, <1>13, <1>14, <1>15, <1>16, <1>17, <1>18, <1>19, <1>20, <1>21, <1>22, <1>23, <1>24, <1>25, <1>26, <1>27, Zenon DEF Next, Acquire, Dial, Use

\* Only retired states are cancelled.
LEMMA RetiredStep == ASSUME Inv, [Next]_vars PROVE RetiredInv'
<1>a. TypeOK /\ RetiredInv BY DEF Inv
<1> USE <1>a DEF TypeOK, RetiredInv, Retired
<1>1. ASSUME NEW p \in Callers, Call(p) PROVE RetiredInv'
  BY <1>1 DEF Call, Goto, pool, sem, conns
<1>2. ASSUME NEW p \in Callers, EndContext(p) PROVE RetiredInv'
  BY <1>2 DEF EndContext, Goto, pool, sem, conns
<1>3. ASSUME NEW p \in Callers, TakeClosed(p) PROVE RetiredInv'
  BY <1>3 DEF TakeClosed, Goto, pool, sem, conns
<1>4. ASSUME NEW p \in Callers, TakeIdle(p) PROVE RetiredInv'
  BY <1>4 DEF TakeIdle, Goto, pool, sem, conns
<1>5. ASSUME NEW p \in Callers, TakeDead(p) PROVE RetiredInv'
  BY <1>5 DEF TakeDead, Goto, pool, sem, conns
<1>6. ASSUME NEW p \in Callers, Bury(p) PROVE RetiredInv'
  BY <1>6 DEF Bury, Goto, CloseConn, pool, sem, conns
<1>7. ASSUME NEW p \in Callers, TakeNone(p) PROVE RetiredInv'
  BY <1>7 DEF TakeNone, Goto, pool, sem, conns
<1>8. ASSUME NEW p \in Callers, AcquireSlot(p) PROVE RetiredInv'
  BY <1>8 DEF AcquireSlot, Goto, pool, sem, conns
<1>9. ASSUME NEW p \in Callers, RefuseSlot(p) PROVE RetiredInv'
  BY <1>9 DEF RefuseSlot, Goto, Return, pool, sem, conns
<1>10. ASSUME NEW p \in Callers, CancelWait(p) PROVE RetiredInv'
  BY <1>10 DEF CancelWait, Goto, Return, pool, sem, conns
<1>11. ASSUME NEW p \in Callers, UseGrant(p) PROVE RetiredInv'
  BY <1>11 DEF UseGrant, Goto, pool, sem, conns
<1>12. ASSUME NEW p \in Callers, DialFails(p) PROVE RetiredInv'
  BY <1>12 DEF DialFails, Goto, pool, sem, conns
<1>13. ASSUME NEW p \in Callers, NEW c \in Conns, DialReturns(p, c) PROVE RetiredInv'
  BY <1>13 DEF DialReturns, Goto, pool, sem, conns
<1>14. ASSUME NEW p \in Callers, Install(p) PROVE RetiredInv'
  BY <1>14 DEF Install, Goto, pool, sem, conns
<1>15. ASSUME NEW p \in Callers, Discard(p) PROVE RetiredInv'
  BY <1>15 DEF Discard, Goto, CloseConn, pool, sem, conns
<1>16. ASSUME NEW p \in Callers, ReleaseSlot(p) PROVE RetiredInv'
  BY <1>16 DEF ReleaseSlot, Goto, Return, pool, sem, conns
<1>17. ASSUME NEW p \in Callers, ReleaseReusable(p) PROVE RetiredInv'
  BY <1>17 DEF ReleaseReusable, Goto, pool, sem, conns
<1>18. ASSUME NEW p \in Callers, ReleaseClose(p) PROVE RetiredInv'
  BY <1>18 DEF ReleaseClose, Goto, RemoveConn, pool, sem, conns
<1>19. ASSUME NEW p \in Callers, Close(p) PROVE RetiredInv'
  BY <1>19 DEF Close, Goto, CloseConn, pool, sem, conns
<1>20. ASSUME NEW p \in Callers, InvalidateUsed(p) PROVE RetiredInv'
  BY <1>20 DEF InvalidateUsed, Goto, RemoveConn, pool, sem, conns
<1>21. ASSUME Reset PROVE RetiredInv'
  BY <1>21 DEF Reset, pool, sem, conns
<1>22. ASSUME ClosePool PROVE RetiredInv'
  BY <1>22 DEF ClosePool, pool, sem, conns
<1>23. ASSUME NEW g \in 1 .. state, CloseState(g) PROVE RetiredInv'
  BY <1>23 DEF CloseState, pool, sem, conns
<1>24. ASSUME NEW c \in Conns, InvalidateOther(c) PROVE RetiredInv'
  BY <1>24 DEF InvalidateOther, RemoveConn, pool, sem, conns
<1>25. ASSUME NEW c \in Conns, CloseDoomed(c) PROVE RetiredInv'
  BY <1>25, Zenon DEF CloseDoomed, CloseConn, pool, sem, conns
<1>26. ASSUME NEW c \in Conns, Break(c) PROVE RetiredInv'
  BY <1>26 DEF Break, pool, sem, conns
<1>27. CASE UNCHANGED vars BY <1>27 DEF vars
<1> QED BY <1>1, <1>2, <1>3, <1>4, <1>5, <1>6, <1>7, <1>8, <1>9, <1>10, <1>11, <1>12, <1>13, <1>14, <1>15, <1>16, <1>17, <1>18, <1>19, <1>20, <1>21, <1>22, <1>23, <1>24, <1>25, <1>26, <1>27, Zenon DEF Next, Acquire, Dial, Use

\* No connection is left open with nobody to close it.
LEMMA LeakStep == ASSUME Inv, [Next]_vars PROVE NoLeak'
<1> SUFFICES ASSUME NEW d \in Conns, Open(d)' PROVE Accounted(d)'
  BY DEF NoLeak
<1>a. Open(d) => Accounted(d) BY DEF Inv, NoLeak
<1>b. TypeOK /\ HandsInv /\ RetiredInv BY DEF Inv
<1>i. IdleInv BY DEF Inv
<1>1. ASSUME NEW p \in Callers, Call(p) PROVE Accounted(d)'
  BY <1>1, <1>a, <1>b, SMTT(30) DEF Call, Goto, pool, sem, conns, TypeOK, Accounted, Open, Tracked, Retired
<1>2. ASSUME NEW p \in Callers, EndContext(p) PROVE Accounted(d)'
  BY <1>2, <1>a, <1>b, SMTT(30) DEF EndContext, Goto, pool, sem, conns, TypeOK, Accounted, Open, Tracked, Retired
<1>3. ASSUME NEW p \in Callers, TakeClosed(p) PROVE Accounted(d)'
  BY <1>3, <1>a, <1>b DEF TakeClosed, Goto, pool, sem, conns, TypeOK, Accounted, Open, Tracked, Retired
<1>4. ASSUME NEW p \in Callers, TakeIdle(p) PROVE Accounted(d)'
  BY <1>4, <1>a, <1>b, Zenon DEF TakeIdle, Goto, pool, sem, conns, TypeOK, Accounted, Open, Tracked, Retired
<1>5. ASSUME NEW p \in Callers, TakeDead(p) PROVE Accounted(d)'
  <2>1. /\ pc[p] = "take" /\ UNCHANGED <<pool, sem, current, conns>> /\ Head(idle) \in Conns
        /\ home' = [home EXCEPT ![Head(idle)] = 0] /\ conn' = [conn EXCEPT ![p] = Head(idle)] /\ pc' = [pc EXCEPT ![p] = "bury"]
    BY <1>5, <1>b, <1>i, TailEntries, Zenon DEF TakeDead, Goto, IdleInv, TypeOK
  <2>2. conn'[p] = Head(idle) /\ pc'[p] = "bury" BY <1>b, <2>1, Zenon DEF TypeOK
  <2>3. CASE d = Head(idle) BY <2>2, <2>3, ZenonT(30) DEF Accounted
  <2>4. CASE d # Head(idle)
    <3>1. home'[d] = home[d] BY <1>b, <2>1, <2>4, Zenon DEF TypeOK
    <3>2. \A q \in Callers : q # p => conn'[q] = conn[q] /\ pc'[q] = pc[q] BY <1>b, <2>1, ZenonT(30) DEF TypeOK
    <3> QED BY <1>a, <2>1, <3>1, <3>2 DEF pool, conns, Accounted, Open, Tracked, Retired
  <2> QED BY <2>3, <2>4
<1>6. ASSUME NEW p \in Callers, Bury(p) PROVE Accounted(d)'
  BY <1>6, <1>a, <1>b, SMTT(30) DEF Bury, Goto, CloseConn, pool, sem, conns, HandsInv, TypeOK, Accounted, Open, Tracked, Retired
<1>7. ASSUME NEW p \in Callers, TakeNone(p) PROVE Accounted(d)'
  BY <1>7, <1>a, <1>b, SMTT(30) DEF TakeNone, Goto, pool, sem, conns, TypeOK, Accounted, Open, Tracked, Retired
<1>8. ASSUME NEW p \in Callers, AcquireSlot(p) PROVE Accounted(d)'
  BY <1>8, <1>a, <1>b, SMTT(30) DEF AcquireSlot, Goto, pool, sem, conns, TypeOK, Accounted, Open, Tracked, Retired
<1>9. ASSUME NEW p \in Callers, RefuseSlot(p) PROVE Accounted(d)'
  BY <1>9, <1>a, <1>b DEF RefuseSlot, Goto, Return, pool, sem, conns, TypeOK, Accounted, Open, Tracked, Retired
<1>10. ASSUME NEW p \in Callers, CancelWait(p) PROVE Accounted(d)'
  <2>1. CASE pc[p] = "wait"
    BY <1>10, <1>a, <1>b, <2>1, Zenon DEF CancelWait, Goto, pool, conns, TypeOK, Accounted, Open, Tracked, Retired
  <2>2. CASE pc[p] = "granted"
    <3>1. pc'[p] = "off" /\ \A q \in Callers \ {p} : pc'[q] = pc[q] \/ (pc[q] = "wait" /\ pc'[q] = "granted")
      BY <1>10, <2>2, PutSlotMoves DEF CancelWait, HoldsSlot
    <3> QED BY <1>10, <2>2, <3>1, <1>a, <1>b, SMTT(30) DEF CancelWait, pool, conns, Accounted, Open, Tracked, Retired
  <2> QED BY <1>10, <2>1, <2>2 DEF CancelWait
<1>11. ASSUME NEW p \in Callers, UseGrant(p) PROVE Accounted(d)'
  BY <1>11, <1>a, <1>b DEF UseGrant, Goto, pool, sem, conns, TypeOK, Accounted, Open, Tracked, Retired
<1>12. ASSUME NEW p \in Callers, DialFails(p) PROVE Accounted(d)'
  BY <1>12, <1>a, <1>b DEF DialFails, Goto, pool, sem, conns, TypeOK, Accounted, Open, Tracked, Retired
<1>13. ASSUME NEW p \in Callers, NEW c \in Conns, DialReturns(p, c) PROVE Accounted(d)'
  BY <1>13, <1>a, <1>b, OrderedAssumption, Zenon DEF DialReturns, Goto, pool, sem, conns, HandsInv, TypeOK, Accounted, Open, Tracked, Retired
<1>14. ASSUME NEW p \in Callers, Install(p) PROVE Accounted(d)'
  <2>1. /\ pc[p] = "install" /\ UNCHANGED <<pool, conn, conns>>
        /\ \A q \in Callers : q # p => pc'[q] = pc[q]
    BY <1>14, <1>b, Zenon DEF Install, Goto, TypeOK
  <2>2. CASE Installable(p)
    <3>1. home' = [home EXCEPT ![conn[p]] = state] /\ ~closed BY <1>14, <2>2, Zenon DEF Install, Installable
    <3>2. CASE conn[p] = d
      <4>1. home'[d] = state BY <1>b, <3>1, <3>2, Zenon DEF TypeOK
      <4> QED BY <2>1, <3>1, <4>1, Zenon DEF pool, Accounted, Tracked
    <3>3. CASE conn[p] # d
      <4>1. home'[d] = home[d] BY <1>b, <3>1, <3>3, ZenonT(30) DEF TypeOK
      <4> QED BY <1>a, <2>1, <3>3, <4>1 DEF pool, conns, Accounted, Open, Tracked, Retired
    <3> QED BY <3>2, <3>3
  <2>3. CASE ~Installable(p)
    <3>1. home' = home /\ pc'[p] = "discard" BY <1>14, <1>b, <2>3, Zenon DEF Install, Goto, TypeOK
    <3> QED BY <1>a, <2>1, <3>1 DEF pool, conns, Accounted, Open, Tracked, Retired
  <2> QED BY <2>2, <2>3
<1>15. ASSUME NEW p \in Callers, Discard(p) PROVE Accounted(d)'
  BY <1>15, <1>a, <1>b, Zenon DEF Discard, Goto, CloseConn, pool, sem, conns, HandsInv, TypeOK, Accounted, Open, Tracked, Retired
<1>16. ASSUME NEW p \in Callers, ReleaseSlot(p) PROVE Accounted(d)'
  <2>1. PutSlot(p, IF conn[p] = None THEN "off" ELSE "using") /\ pc[p] = "release" /\ UNCHANGED <<pool, home, idle, conn, conns>>
    BY <1>16, SMTT(30) DEF ReleaseSlot
  <2>2. pc'[p] = (IF conn[p] = None THEN "off" ELSE "using") /\ \A q \in Callers \ {p} : pc'[q] = pc[q] \/ (pc[q] = "wait" /\ pc'[q] = "granted")
    BY <2>1, PutSlotMoves DEF HoldsSlot
  <2> QED BY <2>1, <2>2, <1>a, <1>b DEF pool, conns, Accounted, Open, Tracked, Retired
<1>17. ASSUME NEW p \in Callers, ReleaseReusable(p) PROVE Accounted(d)'
  BY <1>17, <1>a, <1>b, SMTT(30) DEF ReleaseReusable, Goto, pool, sem, conns, TypeOK, Accounted, Open, Tracked, Retired
<1>18. ASSUME NEW p \in Callers, ReleaseClose(p) PROVE Accounted(d)'
  BY <1>18, <1>a, <1>b, SMTT(30) DEF ReleaseClose, Goto, RemoveConn, pool, sem, conns, TypeOK, Accounted, Open, Tracked, Retired
<1>19. ASSUME NEW p \in Callers, Close(p) PROVE Accounted(d)'
  BY <1>19, <1>a, <1>b DEF Close, Goto, CloseConn, pool, sem, conns, HandsInv, TypeOK, Accounted, Open, Tracked, Retired
<1>20. ASSUME NEW p \in Callers, InvalidateUsed(p) PROVE Accounted(d)'
  BY <1>20, <1>a, <1>b, ZenonT(30) DEF InvalidateUsed, Goto, RemoveConn, pool, sem, conns, TypeOK, Accounted, Open, Tracked, Retired
<1>21. ASSUME Reset PROVE Accounted(d)'
  BY <1>21, <1>a, <1>b, SMTT(30) DEF Reset, pool, sem, conns, RetiredInv, TypeOK, Accounted, Open, Tracked, Retired
<1>22. ASSUME ClosePool PROVE Accounted(d)'
  BY <1>22, <1>a, <1>b, SMTT(30) DEF ClosePool, pool, sem, conns, RetiredInv, TypeOK, Accounted, Open, Tracked, Retired
<1>23. ASSUME NEW g \in 1 .. state, CloseState(g) PROVE Accounted(d)'
  BY <1>23, <1>a, <1>b, SMTT(30) DEF CloseState, pool, sem, conns, TypeOK, Accounted, Open, Tracked, Retired
<1>24. ASSUME NEW c \in Conns, InvalidateOther(c) PROVE Accounted(d)'
  BY <1>24, <1>a, <1>b, SMTT(30) DEF InvalidateOther, RemoveConn, pool, sem, conns, TypeOK, Accounted, Open, Tracked, Retired
<1>25. ASSUME NEW c \in Conns, CloseDoomed(c) PROVE Accounted(d)'
  BY <1>25, <1>a, <1>b DEF CloseDoomed, CloseConn, pool, sem, conns, TypeOK, Accounted, Open, Tracked, Retired
<1>26. ASSUME NEW c \in Conns, Break(c) PROVE Accounted(d)'
  BY <1>26, <1>a, <1>b, SMTT(30) DEF Break, pool, sem, conns, TypeOK, Accounted, Open, Tracked, Retired
<1>27. CASE UNCHANGED vars BY <1>27, <1>a, <1>b DEF vars, TypeOK, Accounted, Open, Tracked, Retired
<1> QED BY <1>1, <1>2, <1>3, <1>4, <1>5, <1>6, <1>7, <1>8, <1>9, <1>10, <1>11, <1>12, <1>13, <1>14, <1>15, <1>16, <1>17, <1>18, <1>19, <1>20, <1>21, <1>22, <1>23, <1>24, <1>25, <1>26, <1>27, Zenon DEF Next, Acquire, Dial, Use

-----------------------------------------------------------------------------
(* Theorems                                                                *)

\* The pool starts in the invariant.
LEMMA InitInv == ASSUME Init PROVE Inv
<1>1. Distinct(<<>>) /\ \A x : ~Contains(<<>>, x) BY DEF Distinct, Contains
<1>2. TypeOK
  <2>1. idle \in Seq(Conns) /\ waiters \in Seq(Callers) BY EmptySeq DEF Init
  <2>2. pc \in [Callers -> {"off", "take", "slot", "wait"} \cup HasConn \cup HoldsSlot] BY DEF Init
  <2>3. conn \in [Callers -> Conns \cup {None}] /\ current \in [Callers -> Nat] BY DEF Init
  <2>4. home \in [Conns -> Nat] /\ status \in [Conns -> {"new", "alive", "broken", "closed"}] BY DEF Init
  <2>5. state \in Nat \ {0} /\ slots \in Int BY DEF Init
  <2>6. closed \in BOOLEAN /\ cancelled \subseteq Nat /\ ctxDone \subseteq Callers /\ doomed \subseteq Conns
    BY Zenon DEF Init
  <2> QED BY <2>1, <2>2, <2>3, <2>4, <2>5, <2>6 DEF TypeOK
<1>3. HandsInv BY DEF Init, HandsInv, HasConn
<1>4. IdleInv /\ WaitInv BY <1>1 DEF Init, IdleInv, WaitInv
<1>5. SlotInv
  <2>1. Holders = {} BY DEF Init, Holders, HoldsSlot
  <2> QED BY <2>1, FS_EmptySet, OrderedAssumption DEF Init, SlotInv
<1>6. RetiredInv /\ NoLeak BY DEF Init, RetiredInv, NoLeak, Open
<1> QED BY <1>2, <1>3, <1>4, <1>5, <1>6 DEF Inv

\* The invariant holds in every behaviour of the pool.
LEMMA AlwaysInv == Spec => []Inv
<1>1. Inv /\ [Next]_vars => Inv'
  BY TypeStep, HandsStep, IdleStep, WaitStep, SlotStep, RetiredStep, LeakStep DEF Inv
<1> QED BY InitInv, <1>1, PTL DEF Spec

\* acquireOrdered, Release and Invalidate never give one connection to two
\* callers, nor keep one in the idle list that somebody has.
THEOREM OrderedOneUser == Spec => []OneUser
<1>1. ASSUME Inv PROVE OneUser
  <2>1. idle \in Seq(Conns) BY <1>1 DEF Inv, TypeOK
  <2>2. DOMAIN idle = 1 .. Len(idle) BY <2>1, LenProperties
  <2> QED BY <1>1, <2>2, Zenon DEF Inv, HandsInv, IdleInv, Distinct, OneUser
<1> QED BY <1>1, AlwaysInv, PTL

\* acquireSlot and releaseSlot lose no slot and take none twice, whichever
\* of a grant and the end of a context comes first.
THEOREM OrderedSlotsExact == Spec => []SlotsExact
<1>1. Inv => SlotsExact BY DEF Inv, WaitInv, SlotInv, SlotsExact
<1> QED BY <1>1, AlwaysInv, PTL

\* Reset, Close, Invalidate and dialAndInstall leave no connection open that
\* nobody is going to close.
THEOREM OrderedNeverLeaks == Spec => []NoLeak
<1>1. Inv => NoLeak BY DEF Inv
<1> QED BY <1>1, AlwaysInv, PTL
=============================================================================
