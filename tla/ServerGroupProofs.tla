------------------------- MODULE ServerGroupProofs -------------------------
(***************************************************************************)
(* The exchanges below a DNS query, for any number of exchangers, members  *)
(* and scopes and search lists of any length.  First ExchangeSequential    *)
(* and ExchangeNames alone: the invariant says that there is one           *)
(* exchanger, the last one started, at which everything happens, all       *)
(* before it are over and all after it are untouched.  Then the server     *)
(* group with the local server below it: each of the three protocols has   *)
(* an invariant over its own variables, and what ties them together is the *)
(* stage of the local server.                                              *)
(***************************************************************************)
EXTENDS ServerGroup, FiniteSetTheorems, TLAPS

-----------------------------------------------------------------------------
(* ExchangeSequential and ExchangeNames                                    *)

\* What the invariant needs to know of the exchangers but the delivery.
Books ==
    /\ \A i \in Index : loop[i] \in {"none", "check", "off"} => cb[i] = "none"
    /\ \A i \in Index : IF cb[i] = "none" THEN result[i] = None ELSE result[i] \in Results

\* ExchangeSequential starts with its first exchanger and nothing delivered.
LEMMA SeqInit == Init => SeqInv
  <1> SUFFICES ASSUME Init PROVE SeqInv
    OBVIOUS
  <1>1. 1 \in Index
    BY SequentialAssumption DEF Index
  <1>2. TypeOK
    <2>1. /\ loop \in [Index -> {"none", "check", "inside", "left", "off"}]
          /\ starts \in [Index -> Nat] /\ result \in [Index -> Results \cup {None}]
      BY DEF Init
    <2>2. /\ cb \in [Index -> {"none", "called", "done"}] /\ ctxDone \in BOOLEAN
          /\ returned \in [Index -> BOOLEAN] /\ continued \in [Index -> BOOLEAN]
      BY Zenon DEF Init
    <2>3. delivered \in Seq([from : Index, value : Results \cup {CtxErr}])
      BY DEF Init
    <2>4. QED
      BY <2>1, <2>2, <2>3 DEF TypeOK
  <1>3. Books
    BY DEF Init, Books
  <1>4. Front(1)
    BY <1>1 DEF Init, Front, Final, Index
  <1>5. delivered = Delivery(1) /\ loop[1] # "off"
    BY <1>1 DEF Init, Delivery
  <1>6. QED
    BY <1>1, <1>2, <1>3, <1>4, <1>5 DEF SeqInv, Books

\* Whatever is done is done by or for the last exchanger started.
LEMMA AtFront ==
    ASSUME SeqInv, NEW f \in Index, Front(f), NEW i \in Index,
           \/ loop[i] \in {"check", "inside"}
           \/ loop[i] = "left" /\ cb[i] = "none"
           \/ cb[i] = "called"
    PROVE  i = f
  BY DEF SeqInv, Front, Index

\* The loop goes on to the exchanger after f, which exists.
LEMMA NextFront ==
    ASSUME SeqInv, NEW f \in Index, Front(f), ~Final(f),
           NEW l, l = [loop EXCEPT ![f] = "left"], Goto(l, f + 1),
           cb' \in [Index -> {"none", "called", "done"}], cb'[f] = "done",
           \A i \in Index \ {f} : cb'[i] = cb[i],
           UNCHANGED result,
           returned' \in [Index -> BOOLEAN], \A i \in Index \ {f} : returned'[i] = returned[i],
           continued' \in [Index -> BOOLEAN], \A i \in Index \ {f} : continued'[i] = continued[i],
           delivered = <<>>, UNCHANGED <<ctxDone, delivered>>,
           result[f] \in Results
    PROVE  SeqInv'
  <1>1. f + 1 \in Index /\ f + 1 # f /\ result[f] \notin Accepted
    BY SequentialAssumption DEF Final, Index
  <1>2. loop' = [l EXCEPT ![f + 1] = "check"] /\ starts' = [starts EXCEPT ![f + 1] = @ + 1]
    BY <1>1 DEF Goto
  <1>3. /\ loop'[f] = "left" /\ loop'[f + 1] = "check" /\ starts'[f + 1] = 1 /\ starts'[f] = 1
        /\ \A i \in Index \ {f, f + 1} : loop'[i] = loop[i] /\ starts'[i] = starts[i]
    BY <1>1, <1>2 DEF SeqInv, TypeOK, Front, Index
  <1>4. TypeOK'
    <2>1. TypeOK
      BY DEF SeqInv
    <2>2. loop' \in [Index -> {"none", "check", "inside", "left", "off"}] /\ starts' \in [Index -> Nat]
      <3>1. l \in [Index -> {"none", "check", "inside", "left", "off"}]
        BY <2>1 DEF TypeOK
      <3>2. starts \in [Index -> Nat] /\ starts[f + 1] + 1 \in Nat
        BY <1>1, <2>1 DEF TypeOK
      <3>3. loop' \in [Index -> {"none", "check", "inside", "left", "off"}]
        BY <1>2, <3>1, Zenon
      <3>4. starts' \in [Index -> Nat]
        BY <1>2, <3>2, Zenon
      <3>5. QED
        BY <3>3, <3>4
    <2>3. /\ result' \in [Index -> Results \cup {None}] /\ ctxDone' \in BOOLEAN
          /\ delivered' \in Seq([from : Index, value : Results \cup {CtxErr}])
      BY <2>1 DEF TypeOK
    <2>4. /\ cb' \in [Index -> {"none", "called", "done"}]
          /\ returned' \in [Index -> BOOLEAN] /\ continued' \in [Index -> BOOLEAN]
      OBVIOUS
    <2>5. QED
      BY <2>2, <2>3, <2>4, Zenon DEF TypeOK
  <1>5. cb[f + 1] = "none" /\ ~returned[f + 1] /\ ~continued[f + 1]
    BY <1>1 DEF SeqInv, Front, Index
  <1>6. Books'
    BY <1>1, <1>3, <1>5 DEF SeqInv, Books
  <1>7. Front(f + 1)'
    <2>1. \A i \in Index : i < f + 1 =>
             loop'[i] = "left" /\ cb'[i] = "done" /\ starts'[i] = 1 /\ result'[i] \notin Accepted
      BY <1>1, <1>3 DEF Front, Index
    <2>2. \A i \in Index : i > f + 1 => loop'[i] = "none" /\ starts'[i] = 0 /\ ~returned'[i] /\ ~continued'[i]
      BY <1>1, <1>3 DEF Front, Index
    <2>3. cb'[f + 1] = "none" /\ ~returned'[f + 1] /\ ~continued'[f + 1]
      BY <1>1, <1>5
    <2>4. QED
      BY <1>3, <2>1, <2>2, <2>3 DEF Front
  <1>8. delivered' = Delivery(f + 1)' /\ loop'[f + 1] # "off"
    BY <1>1, <1>3, <1>5 DEF Delivery
  <1>9. QED
    BY <1>1, <1>4, <1>6, <1>7, <1>8 DEF SeqInv, Books

\* Every step preserves the invariant.
LEMMA SeqStep ==
    ASSUME SeqInv, [Next]_seqVars
    PROVE  SeqInv'
  <1>0. PICK f \in Index : Front(f) /\ delivered = Delivery(f) /\ (loop[f] = "off" => ctxDone)
    BY DEF SeqInv
  <1>t. TypeOK /\ Books
    BY DEF SeqInv, Books
  <1>a. ASSUME TypeOK', Books', Front(f)', delivered' = Delivery(f)', loop'[f] = "off" => ctxDone'
        PROVE  SeqInv'
    BY <1>a DEF SeqInv, Books
  <1>1. ASSUME NEW i \in Index, Call(i) PROVE SeqInv'
    <2>1. i = f
      BY <1>0, <1>1, AtFront DEF Call
    <2>2. TypeOK' /\ Books'
      BY <1>1, <1>t DEF Call, TypeOK, Books
    <2>3. Front(f)' /\ delivered' = Delivery(f)' /\ loop'[f] # "off"
      BY <1>0, <1>1, <1>t, <2>1 DEF Call, TypeOK, Books, Front, Delivery, Final
    <2>4. QED
      BY <1>a, <2>2, <2>3
  <1>2. ASSUME NEW i \in Index, Abandon(i) PROVE SeqInv'
    <2>1. i = f /\ loop[f] = "check" /\ cb[f] = "none"
      BY <1>0, <1>2, <1>t, AtFront DEF Abandon, Books
    <2>2. delivered = <<>>
      BY <1>0, <2>1 DEF Delivery
    <2>3. delivered' = <<[from |-> f, value |-> CtxErr]>>
      BY <1>2, <2>1, <2>2 DEF Abandon
    <2>4. TypeOK' /\ Books'
      BY <1>2, <1>t, <2>1, <2>3 DEF Abandon, TypeOK, Books
    <2>5. Front(f)' /\ delivered' = Delivery(f)' /\ ctxDone'
      BY <1>0, <1>2, <1>t, <2>1, <2>3 DEF Abandon, TypeOK, Front, Delivery, Final
    <2>6. QED
      BY <1>a, <2>4, <2>5
  <1>3. ASSUME NEW i \in Index, NEW r \in Results, Report(i, r) PROVE SeqInv'
    <2>1. i = f
      BY <1>0, <1>3, AtFront DEF Report
    <2>2. TypeOK' /\ Books'
      BY <1>3, <1>t DEF Report, TypeOK, Books
    <2>3. Front(f)' /\ delivered' = Delivery(f)' /\ (loop'[f] = "off" => ctxDone')
      BY <1>0, <1>3, <1>t, <2>1 DEF Report, TypeOK, Books, Front, Delivery, Final
    <2>4. QED
      BY <1>a, <2>2, <2>3
  <1>4. ASSUME NEW i \in Index, Deliver(i) PROVE SeqInv'
    <2>1. i = f /\ cb[f] = "called" /\ Final(f) /\ loop[f] # "off" /\ result[f] \in Results
      BY <1>0, <1>4, <1>t, AtFront DEF Deliver, Books
    <2>2. delivered = <<>>
      BY <1>0, <2>1 DEF Delivery
    <2>3. delivered' = <<[from |-> f, value |-> result[f]]>>
      BY <1>4, <2>1, <2>2 DEF Deliver
    <2>4. TypeOK' /\ Books'
      BY <1>4, <1>t, <2>1, <2>3 DEF Deliver, TypeOK, Books
    <2>5. Front(f)' /\ delivered' = Delivery(f)'
      BY <1>0, <1>4, <1>t, <2>1, <2>3 DEF Deliver, TypeOK, Front, Delivery, Final
    <2>6. QED
      BY <1>4, <1>a, <2>1, <2>4, <2>5 DEF Deliver
  <1>5. ASSUME NEW i \in Index, PassOn(i) PROVE SeqInv'
    <2>1. i = f /\ cb[f] = "called" /\ ~Final(f) /\ loop[f] # "off" /\ result[f] \in Results
      BY <1>0, <1>5, <1>t, AtFront DEF PassOn, Books
    <2>2. delivered = <<>>
      BY <1>0, <2>1 DEF Delivery
    <2>3. CASE returned[f]
      <3>1. loop = [loop EXCEPT ![f] = "left"]
        BY <1>0, <1>t, <2>3 DEF Front, TypeOK
      <3>2. Goto(loop, f + 1) /\ UNCHANGED <<ctxDone, result, returned, continued, delivered>>
        BY <1>5, <2>1, <2>3 DEF PassOn
      <3>3. cb' = [cb EXCEPT ![f] = "done"]
        BY <1>5, <2>1 DEF PassOn
      <3>4. QED
        BY <1>0, <1>t, <2>1, <2>2, <3>1, <3>2, <3>3, NextFront, Zenon DEF TypeOK
    <2>4. CASE ~returned[f]
      <3>1. /\ cb' = [cb EXCEPT ![f] = "done"] /\ continued' = [continued EXCEPT ![f] = TRUE]
            /\ UNCHANGED <<loop, starts, ctxDone, result, returned, delivered>>
        BY <1>5, <2>1, <2>4 DEF PassOn
      <3>2. loop[f] = "inside"
        BY <1>0, <1>t, <2>1, <2>4 DEF Front, TypeOK, Books
      <3>3. TypeOK' /\ Books'
        BY <1>t, <2>1, <3>1, <3>2 DEF TypeOK, Books
      <3>4. Front(f)' /\ delivered' = Delivery(f)'
        BY <1>0, <1>t, <2>1, <2>2, <3>1, <3>2 DEF TypeOK, Front, Delivery, Final
      <3>5. QED
        BY <1>a, <3>1, <3>2, <3>3, <3>4
    <2>5. QED
      BY <2>3, <2>4
  <1>6. ASSUME NEW i \in Index, Return(i) PROVE SeqInv'
    <2>1. i = f /\ loop[f] = "inside"
      BY <1>0, <1>6, AtFront DEF Return
    <2>2. /\ returned' = [returned EXCEPT ![f] = TRUE]
          /\ UNCHANGED <<ctxDone, cb, result, continued, delivered>>
      BY <1>6, <2>1 DEF Return
    <2>3. CASE continued[f]
      <3>1. cb[f] = "done" /\ ~Final(f) /\ result[f] \in Results
        BY <1>0, <1>t, <2>3 DEF Front, Books
      <3>2. delivered = <<>>
        BY <1>0, <2>1, <3>1 DEF Delivery
      <3>3. Goto([loop EXCEPT ![f] = "left"], f + 1)
        BY <1>6, <2>1, <2>3 DEF Return
      <3>4. QED
        BY <1>0, <1>t, <2>2, <3>1, <3>2, <3>3, NextFront, Zenon DEF TypeOK
    <2>4. CASE ~continued[f]
      <3>1. loop' = [loop EXCEPT ![f] = "left"] /\ UNCHANGED starts
        BY <1>6, <2>1, <2>4 DEF Return
      <3>2. TypeOK' /\ Books'
        BY <1>t, <2>1, <2>2, <3>1 DEF TypeOK, Books
      <3>3. Front(f)'
        BY <1>0, <1>t, <2>1, <2>2, <2>4, <3>1 DEF TypeOK, Front, Final
      <3>4. delivered' = Delivery(f)' /\ loop'[f] # "off"
        BY <1>0, <1>t, <2>1, <2>2, <3>1 DEF TypeOK, Delivery, Final
      <3>5. QED
        BY <1>a, <3>2, <3>3, <3>4
    <2>5. QED
      BY <2>3, <2>4
  <1>7. ASSUME UNCHANGED <<loop, cb, result, returned, continued, starts, delivered>>, ctxDone' \in BOOLEAN,
               ctxDone => ctxDone'
        PROVE  SeqInv'
    <2>1. TypeOK' /\ Books'
      BY <1>7, <1>t DEF TypeOK, Books
    <2>2. Front(f)' /\ delivered' = Delivery(f)'
      BY <1>0, <1>7 DEF Front, Delivery, Final
    <2>3. QED
      BY <1>0, <1>7, <1>a, <2>1, <2>2
  <1>8. CASE EndContext
    BY <1>8, <1>7 DEF EndContext
  <1>9. CASE UNCHANGED seqVars
    BY <1>9, <1>7, <1>t DEF seqVars, TypeOK
  <1>10. QED
    BY <1>1, <1>2, <1>3, <1>4, <1>5, <1>6, <1>8, <1>9 DEF Next, Step

\* The invariant says what the caller relies on.
LEMMA SeqImplies == SeqInv => TriedInOrder /\ DeliveredOnce /\ DeliveredResult
  <1> SUFFICES ASSUME SeqInv PROVE TriedInOrder /\ DeliveredOnce /\ DeliveredResult
    OBVIOUS
  <1>0. PICK f \in Index : Front(f) /\ delivered = Delivery(f) /\ (loop[f] = "off" => ctxDone)
    BY DEF SeqInv
  <1>1. TriedInOrder
    <2>1. \A i \in Index : (i < f => starts[i] = 1) /\ (i > f => starts[i] = 0) /\ (i = f => starts[i] = 1)
      BY <1>0 DEF Front
    <2>2. \A i \in Index : i < f => cb[i] = "done" /\ result[i] \notin Accepted
      BY <1>0 DEF Front
    <2>3. ASSUME NEW i \in Index PROVE starts[i] <= 1
      BY <2>1 DEF Index
    <2>4. ASSUME NEW i \in Index, starts[i] = 1, NEW j \in 1 .. i - 1
          PROVE  cb[j] = "done" /\ result[j] \notin Accepted
      <3>1. i <= f
        BY <2>1, <2>4 DEF Index
      <3>2. j \in Index /\ j < f
        BY <2>4, <3>1, SequentialAssumption DEF Index
      <3>3. QED
        BY <2>2, <3>2
    <2>5. QED
      BY <2>3, <2>4 DEF TriedInOrder
  <1>2. CASE delivered = <<>>
    BY <1>1, <1>2 DEF DeliveredOnce, DeliveredResult
  <1>3. CASE loop[f] = "off"
    <2>1. delivered = <<[from |-> f, value |-> CtxErr]>> /\ ctxDone /\ cb[f] = "none"
      BY <1>0, <1>3 DEF Delivery, SeqInv
    <2>2. DeliveredOnce
      BY <1>0, <1>3, <2>1 DEF DeliveredOnce, Front, SeqInv, Index
    <2>3. DeliveredResult
      BY <2>1 DEF DeliveredResult
    <2>4. QED
      BY <1>1, <2>2, <2>3, Zenon
  <1>4. CASE loop[f] # "off" /\ cb[f] = "done" /\ Final(f)
    <2>1. delivered = <<[from |-> f, value |-> result[f]]>> /\ result[f] \in Results
      BY <1>0, <1>4 DEF Delivery, SeqInv
    <2>2. DeliveredOnce
      BY <1>0, <1>4, <2>1 DEF DeliveredOnce, Front, SeqInv, Index
    <2>3. DeliveredResult
      BY <1>4, <2>1, SequentialAssumption DEF DeliveredResult, Final
    <2>4. QED
      BY <1>1, <2>2, <2>3
  <1>5. QED
    BY <1>0, <1>2, <1>3, <1>4 DEF Delivery

\* ExchangeNames takes steps of ExchangeSequential, with books of its own.
LEMMA NameIsSequential ==
    ASSUME [NameNext]_nameVars PROVE [Next]_seqVars
  <1>1. CASE NameNext
    BY <1>1 DEF NameNext, NameStep, NameReport, Next
  <1>2. CASE UNCHANGED nameVars
    BY <1>2 DEF nameVars
  <1>3. QED
    BY <1>1, <1>2

\* ExchangeNames starts with no name error and no answer.
LEMMA NameInvInit == NameInit => NameInv
  <1> SUFFICES ASSUME NameInit PROVE NameInv
    OBVIOUS
  <1>1. SeqInv /\ delivered = <<>> /\ \A i \in Index : result[i] = None
    BY SeqInit DEF NameInit, Init
  <1>2. NameErrors = {}
    BY <1>1 DEF NameErrors, None
  <1>3. Kept
    BY <1>2 DEF Kept, NameInit
  <1>4. QED
    BY <1>1, <1>3 DEF NameInv, NameInit

\* A name error that is reported takes the place of the one kept when it has
\* precedence: those before it were tried before it.
LEMMA ReportKeeps ==
    ASSUME NameInv, NEW i \in Index, NEW r \in Results, NameReport(i, r)
    PROVE  NameInv'
  <1>1. SeqInv'
    BY SeqStep DEF NameInv, NameReport, Next
  <1>2. PICK f \in Index : Front(f) /\ delivered = Delivery(f)
    BY DEF NameInv, SeqInv
  <1>3. i = f /\ cb[f] = "none" /\ loop[f] # "off"
    BY <1>2, AtFront DEF NameInv, NameReport, Report
  <1>4. delivered = <<>> /\ delivered' = <<>> /\ answer' = NoAnswer
    BY <1>2, <1>3 DEF Delivery, NameInv, NameReport, Report
  <1>5. result' = [result EXCEPT ![f] = r] /\ result \in [Index -> Results \cup {None}]
    BY <1>3 DEF NameReport, Report, NameInv, SeqInv, TypeOK
  <1>6. \A j \in NameErrors : j \in Index /\ j < f
    <2>1. \A j \in Index : j > f => result[j] = None
      BY <1>2, Zenon DEF Front, NameInv, SeqInv
    <2>2. result[f] = None
      BY <1>3 DEF NameInv, SeqInv
    <2>3. QED
      BY <2>1, <2>2 DEF NameErrors, None, Index
  <1>7. NameErrors' = IF r = "nxdomain" THEN NameErrors \cup {f} ELSE NameErrors
    <2>1. f \notin NameErrors
      BY <1>6 DEF Index
    <2>2. \A j \in Index : result'[j] = IF j = f THEN r ELSE result[j]
      BY <1>5
    <2>3. \A j \in Index : j \in NameErrors' <=> result'[j] = "nxdomain"
      BY DEF NameErrors
    <2>4. NameErrors' \subseteq Index /\ NameErrors \subseteq Index
      BY DEF NameErrors
    <2>5. \A j \in Index : j \in NameErrors <=> result[j] = "nxdomain"
      BY DEF NameErrors
    <2>6. QED
      BY <2>1, <2>2, <2>3, <2>4, <2>5
  <1>8. nameErrorResponse' = IF r = "nxdomain" /\ Keep(f) THEN f ELSE nameErrorResponse
    BY <1>3 DEF NameReport
  <1>9. Kept /\ f \in Nat \ {0} /\ Original \in Nat
    BY NameAssumption DEF NameInv, Index
  <1>10. Kept'
    <2>1. CASE r # "nxdomain"
      BY <1>7, <1>8, <1>9, <2>1 DEF Kept
    <2>2. CASE r = "nxdomain" /\ nameErrorResponse = 0
      BY <1>7, <1>8, <1>9, <2>2 DEF Kept, Keep
    <2>3. CASE r = "nxdomain" /\ nameErrorResponse # 0 /\ f = Original
      BY <1>7, <1>8, <1>9, <2>3 DEF Kept, Keep
    <2>4. CASE r = "nxdomain" /\ nameErrorResponse # 0 /\ f # Original
      <3>1. nameErrorResponse' = nameErrorResponse /\ NameErrors' = NameErrors \cup {f}
        BY <1>7, <1>8, <2>4 DEF Keep
      <3>2. nameErrorResponse \in NameErrors /\ nameErrorResponse <= f
        BY <1>6, <1>9, <2>4 DEF Kept, Index
      <3>3. QED
        BY <1>9, <2>4, <3>1, <3>2 DEF Kept
    <2>5. QED
      BY <2>1, <2>2, <2>3, <2>4
  <1>11. QED
    BY <1>1, <1>4, <1>10 DEF NameInv

\* The steps of ExchangeSequential deliver at most one answer, which is
\* replaced by the name error kept if there is one.
LEMMA StepAnswers ==
    ASSUME NameInv, NEW i \in Index, NameStep(i)
    PROVE  NameInv'
  <1>1. SeqInv /\ SeqInv'
    BY SeqStep DEF NameInv, NameStep, Next
  <1>2. result' = result /\ nameErrorResponse' = nameErrorResponse
    BY DEF NameStep, Step, Call, Abandon, Deliver, PassOn, Return
  <1>3. Kept'
    BY <1>2 DEF NameInv, Kept, NameErrors
  <1>4. delivered \in Seq([from : Index, value : Results \cup {CtxErr}])
    BY <1>1, Zenon DEF SeqInv, TypeOK
  <1>5. Len(delivered') <= 1
    <2>1. PICK g \in Index : delivered' = Delivery(g)'
      BY <1>1 DEF SeqInv
    <2>2. QED
      BY <2>1 DEF Delivery
  <1>6. CASE delivered' = delivered
    <2>1. answer' = answer
      BY <1>6 DEF NameStep
    <2>2. Substitute(delivered[1])' = Substitute(delivered[1])
      BY <1>2, <1>6 DEF Substitute
    <2>3. QED
      BY <1>1, <1>3, <1>6, <2>1, <2>2 DEF NameInv
  <1>7. CASE delivered' # delivered
    <2>1. PICK x \in [from : Index, value : Results \cup {CtxErr}] : delivered' = Append(delivered, x)
      <3>1. Abandon(i) \/ Deliver(i)
        BY <1>7 DEF NameStep, Step, Call, PassOn, Return
      <3>2. CASE Abandon(i)
        BY <3>2 DEF Abandon
      <3>3. CASE Deliver(i)
        <4>1. result[i] \in Results
          BY <1>1, <3>3 DEF Deliver, SeqInv
        <4>2. QED
          BY <3>3, <4>1, Zenon DEF Deliver
      <3>4. QED
        BY <3>1, <3>2, <3>3
    <2>2. Len(delivered') = 1 /\ delivered' # <<>>
      <3>1. Len(delivered') = Len(delivered) + 1 /\ Len(delivered) \in Nat
        BY <1>4, <2>1
      <3>2. Len(delivered') = 1
        BY <1>5, <3>1
      <3>3. QED
        BY <3>2
    <2>3. answer' = Substitute(delivered[1])'
      <3>1. answer' = Substitute(delivered'[1])
        BY <1>7, <2>2 DEF NameStep
      <3>2. QED
        BY <1>2, <3>1 DEF Substitute
    <2>4. QED
      BY <1>1, <1>3, <2>2, <2>3 DEF NameInv
  <1>8. QED
    BY <1>6, <1>7

\* Every step of ExchangeNames preserves its invariant.
LEMMA NameInvStep ==
    ASSUME NameInv, [NameNext]_nameVars
    PROVE  NameInv'
  <1>1. SeqInv'
    BY SeqStep, NameIsSequential DEF NameInv
  <1>2. CASE EndContext /\ UNCHANGED <<nameErrorResponse, answer>>
    BY <1>1, <1>2 DEF EndContext, NameInv, Kept, NameErrors, Substitute
  <1>3. CASE UNCHANGED nameVars
    BY <1>1, <1>3 DEF nameVars, seqVars, NameInv, Kept, NameErrors, Substitute
  <1>4. QED
    BY <1>2, <1>3, ReportKeeps, StepAnswers DEF NameNext

\* The least element of a set of numbers is the one CHOOSE names.
LEMMA LeastIsChosen ==
    ASSUME NEW S \in SUBSET Nat, NEW n \in S, \A j \in S : n <= j
    PROVE  n = CHOOSE i \in S : \A j \in S : i <= j
  <1>1. \A m \in S : (\A j \in S : m <= j) => m = n
    OBVIOUS
  <1>2. QED
    BY <1>1, Zenon

\* The invariant of ExchangeNames says which answer the caller gets.
LEMMA NameImplies == NameInv => BestNameWins
  <1> SUFFICES ASSUME NameInv, answer # NoAnswer PROVE BestNameWins
    BY DEF BestNameWins
  <1>0. PICK f \in Index : Front(f) /\ delivered = Delivery(f)
    BY DEF NameInv, SeqInv
  <1>1. delivered # <<>> /\ answer = Substitute(delivered[1])
    BY DEF NameInv
  <1>2. \A i \in Index : (i < f => result[i] # "ok") /\ (i > f => result[i] = "none")
    BY <1>0, NameAssumption DEF Front, NameInv, SeqInv, None
  <1>3. CASE result[f] = "ok"
    <2>1. delivered = <<[from |-> f, value |-> "ok"]>>
      BY <1>0, <1>1, <1>3, Zenon DEF Delivery, NameInv, SeqInv, None
    <2>2. answer = [from |-> f, value |-> "ok"]
      BY <1>1, <2>1 DEF Substitute
    <2>3. QED
      BY <1>3, <2>2, Zenon DEF BestNameWins
  <1>4. CASE result[f] # "ok"
    <2>1. PICK v : delivered = <<[from |-> f, value |-> v]>> /\ (v = CtxErr \/ v = result[f])
      BY <1>0, <1>1, Zenon DEF Delivery
    <2>2. v # "ok"
      BY <1>4, <2>1, NameAssumption
    <2>3. ~ \E i \in Index : result[i] = "ok"
      BY <1>2, <1>4 DEF Index
    <2>4. CASE NameErrors = {}
      <3>1. nameErrorResponse = 0 /\ v # "nxdomain"
        BY <2>1, <2>4, NameAssumption DEF NameInv, Kept, NameErrors
      <3>2. answer = [from |-> f, value |-> v]
        BY <1>1, <2>1, <3>1 DEF Substitute
      <3>3. QED
        BY <2>2, <2>3, <2>4, <3>1, <3>2 DEF BestNameWins
    <2>5. CASE NameErrors # {}
      <3>1. nameErrorResponse # 0 /\ Kept
        BY <2>5 DEF NameInv, Kept
      <3>2. answer = [from |-> nameErrorResponse, value |-> "nxdomain"]
        BY <1>1, <2>1, <2>2, <3>1 DEF Substitute
      <3>3. NameErrors \in SUBSET Nat
        BY DEF NameErrors, Index
      <3>4. nameErrorResponse = IF Original \in NameErrors THEN Original
                                ELSE CHOOSE i \in NameErrors : \A j \in NameErrors : i <= j
        <4>1. CASE Original \in NameErrors
          BY <3>1, <4>1 DEF Kept
        <4>2. CASE Original \notin NameErrors
          <5>1. nameErrorResponse \in NameErrors /\ \A j \in NameErrors : nameErrorResponse <= j
            BY <3>1, <4>2 DEF Kept
          <5>2. QED
            BY <3>3, <4>2, <5>1, LeastIsChosen
        <4>3. QED
          BY <4>1, <4>2
      <3>5. QED
        BY <2>3, <2>5, <3>2, <3>4 DEF BestNameWins
    <2>6. QED
      BY <2>4, <2>5, Zenon
  <1>5. QED
    BY <1>3, <1>4

\* ExchangeSequential, for any number of exchangers and results and however
\* calls return and callbacks come: each exchanger is started at most once
\* and in order, and the caller is called back at most once, with the right
\* result.
THEOREM SequentialIsCorrect == Spec => [](TriedInOrder /\ DeliveredOnce /\ DeliveredResult)
  BY SeqInit, SeqStep, SeqImplies, PTL DEF Spec

\* ExchangeNames keeps that.
THEOREM NamesTriedInOrder == NameSpec => [](TriedInOrder /\ DeliveredOnce /\ DeliveredResult)
  <1>1. NameInit => SeqInv
    BY SeqInit DEF NameInit
  <1>2. SeqInv /\ [NameNext]_nameVars => SeqInv'
    BY SeqStep, NameIsSequential
  <1>3. QED
    BY <1>1, <1>2, SeqImplies, PTL DEF NameSpec

\* ExchangeNames answers with a name that resolves if one does, else with the
\* name error that has precedence, for search lists of any length.
THEOREM BestNameAlwaysWins == NameSpec => []BestNameWins
  BY NameInvInit, NameInvStep, NameImplies, PTL DEF NameSpec

-----------------------------------------------------------------------------
(* GroupTransport                                                          *)

\* Members whose result the collector has looked at.
Taken == {m \in Members : sent[m] # "none" /\ \A k \in 1 .. Len(resultCh) : resultCh[k] # m}
Unsent == {m \in Members : sent[m] = "none"}

GroupType ==
    /\ asked \subseteq Members /\ resultCh \in Seq(Members)
    /\ sent \in [Members -> {"none", "response", "nil", "error"}]
    /\ received \in Nat /\ firstErr \in Members \cup {"none"}
    /\ queryDone \in BOOLEAN /\ cancelled \in BOOLEAN

\* Every member is at most once in the channel, after it has sent; the
\* collector has counted the others that have sent, none of which has a
\* response, and it knows of an error if there is one.
ChannelInv ==
    /\ \A m \in Members \ asked : sent[m] = "none"
    /\ \A k \in 1 .. Len(resultCh) : sent[resultCh[k]] # "none"
    /\ \A k, l \in 1 .. Len(resultCh) : k # l => resultCh[k] # resultCh[l]
    /\ received = Cardinality(Taken)
    /\ Len(resultCh) + Cardinality(Unsent) <= G!Size

CollectorInv ==
    /\ collector \in {"off", "on", "done"} /\ (collector = "off" <=> asked # Members)
    /\ collector # "done" =>
          /\ groupDelivered = <<>>
          /\ \A m \in Taken : sent[m] \in {"nil", "error"} /\ (firstErr = "none" => sent[m] = "nil")
    /\ collector = "done" => \E d \in Members \cup {"ctx", "firstErr", "allFailed"} : groupDelivered = <<d>>
    /\ firstErr # "none" => sent[firstErr] = "error"
    /\ G!FailureIsUnanimous

GInv == GroupType /\ ChannelInv /\ CollectorInv

-----------------------------------------------------------------------------
(* ParallelExchange                                                        *)

Scope == 1 .. Scopes
Outputs == {"ok", "nxdomain", "error"}
Missing == {i \in Scope : responses[i] = "none"}

ScopeType ==
    /\ started \in Nat /\ pending \in Nat
    /\ reported \in [Scope -> Outputs \cup {"none"}] /\ responses \in [Scope -> Outputs \cup {"none"}]
    /\ pc \in [Scope -> {"none", "complete", "cancel", "deliver", "done"}]
    /\ completed \in BOOLEAN /\ scopesCancelled \in BOOLEAN

Delivers(i) == pc[i] \in {"cancel", "deliver"}

\* What is on record has been reported, and is counted.
RecordInv ==
    /\ \A i \in Scope : (reported[i] = "none" <=> pc[i] = "none") /\ (i > started => pc[i] = "none")
    /\ \A i \in Scope : responses[i] # "none" =>
          responses[i] = reported[i] /\ reported[i] # "ok" /\ pc[i] # "complete"
    /\ pending = Cardinality(Missing)

\* Nobody delivers before the exchange is over, and then one does.
DeliverInv ==
    /\ ~completed => scopesDelivered = <<>> /\ \A i \in Scope : ~Delivers(i)
    /\ completed =>
          \/ /\ scopesDelivered = <<>>
             /\ \E i \in Scope : /\ Delivers(i) /\ \A j \in Scope \ {i} : ~Delivers(j)
                                 /\ reported[i] = "ok" \/ pending = 0
                                 /\ pc[i] = "deliver" => scopesCancelled
          \/ /\ \A i \in Scope : ~Delivers(i)
             /\ scopesCancelled
             /\ \/ scopesDelivered = <<"ok">>
                \/ pending = 0 /\ scopesDelivered = <<P!FirstResponse>>

PInv == ScopeType /\ RecordInv /\ DeliverInv

-----------------------------------------------------------------------------
(* The local server                                                        *)

\* Nobody has asked the scopes.
Untouched ==
    /\ started = 0 /\ ~completed /\ scopesDelivered = <<>>
    /\ \A i \in Scope : reported[i] = "none" /\ pc[i] = "none" /\ responses[i] = "none"

NoScopeAnswered == \A i \in Scope : reported[i] \in {"error", "none"}
NoNameAnswered == \A i \in Index : result[i] \in {"error", "none"}

StageInv ==
    /\ stage \in {"off", "first", "refresh", "last", "names", "over"}
    /\ stage \in {"first", "refresh", "last", "names"} => Local \in asked /\ sent[Local] = "none"
    /\ stage \in {"off", "names"} => Untouched
    /\ stage = "refresh" => Untouched \/ scopesDelivered = <<"errors">>
    /\ stage \in {"first", "last"} => scopesDelivered = <<>>
    /\ stage = "over" => sent[Local] # "none"
    /\ stage = "over" =>
          Untouched \/ (scopesDelivered # <<>> /\ (sent[Local] = "error" => scopesDelivered = <<"errors">>))
    /\ stage # "over" => answer = NoAnswer
    /\ stage # "names" /\ answer = NoAnswer => \A i \in Index : result[i] = "none"
    /\ sent[Local] # "nil" /\ (sent[Local] = "error" => NoScopeAnswered /\ NoNameAnswered)
    /\ ctxDone = (queryDone \/ cancelled)

GroupInv == GInv /\ PInv /\ NameInv /\ StageInv

-----------------------------------------------------------------------------
(* The group                                                               *)

\* There are finitely many members, and Size counts them.
LEMMA MembersFinite ==
    /\ IsFiniteSet(Unsent) /\ IsFiniteSet(Taken) /\ Taken \subseteq Members /\ Unsent \subseteq Members
    /\ Cardinality(Unsent) \in Nat /\ Cardinality(Taken) \in Nat /\ G!Size = Cardinality(Members) /\ G!Size \in Nat
<1>1. IsFiniteSet(Members) /\ Unsent \subseteq Members /\ Taken \subseteq Members
  BY GroupAssumption DEF Unsent, Taken
<1>2. IsFiniteSet(Unsent) /\ IsFiniteSet(Taken)
  BY <1>1, FS_Subset
<1>3. Cardinality(Unsent) \in Nat /\ Cardinality(Taken) \in Nat /\ Cardinality(Members) \in Nat
  BY <1>1, <1>2, FS_CardinalityType
<1>4. G!Size = Cardinality(Members)
  BY DEF G!Size, G!Cardinality, Cardinality
<1> QED
  BY <1>1, <1>2, <1>3, <1>4

\* A member that has not sent yet puts its result into the channel.
LEMMA SendChannel ==
    ASSUME GroupType, ChannelInv, NEW m \in Members, NEW r \in {"response", "nil", "error"},
           sent[m] = "none", G!Send(m, r), received' = received,
           asked' \subseteq Members, asked \cup {m} \subseteq asked'
    PROVE  /\ ChannelInv' /\ Taken' = Taken
           /\ resultCh' \in Seq(Members) /\ sent' \in [Members -> {"none", "response", "nil", "error"}]
<1>1. /\ sent'[m] = r /\ \A k \in Members \ {m} : sent'[k] = sent[k]
      /\ sent' \in [Members -> {"none", "response", "nil", "error"}]
  BY DEF GroupType, G!Send
<1>2. resultCh' = Append(resultCh, m) /\ resultCh \in Seq(Members) /\ Len(resultCh) \in Nat
  BY DEF GroupType, G!Send
<1>3. /\ resultCh' \in Seq(Members) /\ Len(resultCh') = Len(resultCh) + 1
      /\ resultCh'[Len(resultCh) + 1] = m
      /\ \A k \in 1 .. Len(resultCh) : resultCh'[k] = resultCh[k] /\ resultCh[k] \in Members /\ resultCh[k] # m
  BY <1>2 DEF ChannelInv
<1>4. \A k \in 1 .. Len(resultCh') : k \in 1 .. Len(resultCh) \/ k = Len(resultCh) + 1
  BY <1>2, <1>3
<1>5. Taken' = Taken
  <2>1. ASSUME NEW x \in Members
        PROVE  (\A k \in 1 .. Len(resultCh') : resultCh'[k] # x) <=>
               x # m /\ \A k \in 1 .. Len(resultCh) : resultCh[k] # x
    BY <1>2, <1>3, <1>4
  <2> QED
    BY <1>1, <2>1 DEF Taken
<1>6. Cardinality(Unsent') = Cardinality(Unsent) - 1
  <2>1. Unsent' = Unsent \ {m} /\ m \in Unsent
    BY <1>1 DEF Unsent
  <2> QED
    BY <2>1, MembersFinite, FS_RemoveElement, Zenon
<1>7. Len(resultCh') + Cardinality(Unsent') <= G!Size
  <2>1. /\ Len(resultCh) \in Nat /\ Cardinality(Unsent) \in Nat /\ G!Size \in Nat
        /\ Len(resultCh) + Cardinality(Unsent) <= G!Size
    BY <1>2, MembersFinite, Zenon DEF ChannelInv
  <2>2. Len(resultCh') = Len(resultCh) + 1
    BY <1>3, Zenon
  <2> QED
    BY <1>6, <2>1, <2>2
<1>8. \A k \in 1 .. Len(resultCh') : sent'[resultCh'[k]] # "none"
  BY <1>1, <1>3, <1>4 DEF ChannelInv
<1>9. \A k, l \in 1 .. Len(resultCh') : k # l => resultCh'[k] # resultCh'[l]
  BY <1>3, <1>4 DEF ChannelInv
<1>10. \A x \in Members \ asked' : sent'[x] = "none"
  BY <1>1, Zenon DEF ChannelInv
<1> QED
  BY <1>1, <1>3, <1>5, <1>7, <1>8, <1>9, <1>10 DEF ChannelInv, G!Size

\* The collector takes a result out of the channel.
LEMMA TakeChannel ==
    ASSUME GroupType, ChannelInv, resultCh # <<>>, resultCh' = Tail(resultCh), received' = received + 1,
           UNCHANGED <<sent, asked>>
    PROVE  /\ ChannelInv' /\ Taken' = Taken \cup {Head(resultCh)} /\ Head(resultCh) \in Members
           /\ sent[Head(resultCh)] # "none" /\ resultCh' \in Seq(Members)
<1>1. resultCh \in Seq(Members) /\ Len(resultCh) \in Nat \ {0} /\ Head(resultCh) = resultCh[1]
  BY DEF GroupType
<1>2. /\ resultCh' \in Seq(Members) /\ Len(resultCh') = Len(resultCh) - 1
      /\ \A k \in 1 .. Len(resultCh') : resultCh'[k] = resultCh[k + 1] /\ k + 1 \in 1 .. Len(resultCh)
  BY <1>1
<1>3. PICK h : h = Head(resultCh)
  OBVIOUS
<1>4. h = resultCh[1] /\ h \in Members /\ sent[h] # "none" /\ 1 \in 1 .. Len(resultCh)
  BY <1>1, <1>3 DEF ChannelInv
<1>5. \A k \in 1 .. Len(resultCh) : k = 1 \/ (k - 1 \in 1 .. Len(resultCh') /\ resultCh'[k - 1] = resultCh[k])
  BY <1>1, <1>2
<1>6. \A k \in 1 .. Len(resultCh') : resultCh'[k] # h
  BY <1>1, <1>2, <1>4 DEF ChannelInv
<1>7. Taken' = Taken \cup {h} /\ h \notin Taken
  <2>1. ASSUME NEW x \in Members
        PROVE  (\A k \in 1 .. Len(resultCh') : resultCh'[k] # x) <=>
               x = h \/ \A k \in 1 .. Len(resultCh) : resultCh[k] # x
    <3>1. x = h => \A k \in 1 .. Len(resultCh') : resultCh'[k] # x
      BY <1>6
    <3>2. (\A k \in 1 .. Len(resultCh) : resultCh[k] # x) => \A k \in 1 .. Len(resultCh') : resultCh'[k] # x
      BY <1>2
    <3>3. (\A k \in 1 .. Len(resultCh') : resultCh'[k] # x) /\ x # h => \A k \in 1 .. Len(resultCh) : resultCh[k] # x
      BY <1>4, <1>5
    <3> QED
      BY <3>1, <3>2, <3>3
  <2> QED
    BY <1>4, <2>1 DEF Taken
<1>8. received' = Cardinality(Taken')
  <2>1. Cardinality(Taken') = Cardinality(Taken) + 1
    BY <1>7, MembersFinite, FS_AddElement, Zenon
  <2> QED
    BY <2>1 DEF ChannelInv
<1>9. Unsent' = Unsent
  BY DEF Unsent
<1>10. Len(resultCh') + Cardinality(Unsent') <= G!Size
  BY <1>1, <1>2, <1>9, MembersFinite DEF ChannelInv
<1>11. \A k \in 1 .. Len(resultCh') : sent'[resultCh'[k]] # "none"
  BY <1>2 DEF ChannelInv
<1>12. \A k, l \in 1 .. Len(resultCh') : k # l => resultCh'[k] # resultCh'[l]
  <2> SUFFICES ASSUME NEW k \in 1 .. Len(resultCh'), NEW l \in 1 .. Len(resultCh'), k # l
               PROVE  resultCh'[k] # resultCh'[l]
    OBVIOUS
  <2>1. k + 1 # l + 1
    OBVIOUS
  <2> QED
    BY <1>2, <2>1 DEF ChannelInv
<1> QED
  BY <1>2, <1>3, <1>4, <1>7, <1>8, <1>10, <1>11, <1>12 DEF ChannelInv, G!Size
\* What a failure of the group means does not depend on members that have
\* still to send, because there are none.
LEMMA SendUnanimous ==
    ASSUME GroupType, CollectorInv, NEW m \in Members, NEW r, sent[m] = "none", G!Send(m, r),
           groupDelivered' = groupDelivered
    PROVE  G!FailureIsUnanimous'
<1>1. /\ \A k \in Members \ {m} : sent'[k] = sent[k]
      /\ G!FailureIsUnanimous
  BY DEF GroupType, G!Send, CollectorInv
<1> QED
  BY <1>1 DEF G!FailureIsUnanimous

\* A member calls back.
LEMMA SendStep ==
    ASSUME GInv, NEW m \in asked, NEW r \in {"response", "nil", "error"}, sent[m] = "none", G!Send(m, r),
           UNCHANGED <<asked, queryDone, received, firstErr, collector, cancelled, groupDelivered>>
    PROVE  GInv' /\ sent'[m] = r /\ \A k \in Members \ {m} : sent'[k] = sent[k]
<1>0. GroupType /\ ChannelInv /\ CollectorInv /\ m \in Members
  BY DEF GInv, GroupType
<1>1. /\ ChannelInv' /\ Taken' = Taken
      /\ resultCh' \in Seq(Members) /\ sent' \in [Members -> {"none", "response", "nil", "error"}]
  BY <1>0, SendChannel DEF GroupType
<1>2. sent'[m] = r /\ \A k \in Members \ {m} : sent'[k] = sent[k]
  BY <1>0 DEF GroupType, G!Send
<1>3. GroupType'
  BY <1>0, <1>1 DEF GroupType
<1>4. G!FailureIsUnanimous'
  BY <1>0, SendUnanimous
<1>5. \A k \in Taken : sent[k] # "none" /\ k \in Members
  BY Zenon DEF Taken
<1>6. CollectorInv'
  BY <1>0, <1>1, <1>2, <1>4, <1>5, Zenon DEF CollectorInv, GroupType
<1> QED
  BY <1>1, <1>2, <1>3, <1>6 DEF GInv

\* The loop deals with a member, and starts the collector after the last.
LEMMA AskStep ==
    ASSUME GInv, NEW m \in Members, G!Ask(m)
    PROVE  /\ GInv' /\ \A k \in Members \ {m} : sent'[k] = sent[k]
           /\ sent[m] = "none" /\ sent'[m] \in {"none", "error"}
<1>0. /\ GroupType /\ ChannelInv /\ CollectorInv /\ sent[m] = "none" /\ collector = "off"
      /\ asked' = asked \cup {m}
  BY DEF GInv, G!Ask, ChannelInv, CollectorInv
<1>1. UNCHANGED <<queryDone, received, firstErr, cancelled, groupDelivered>>
  BY DEF G!Ask
<1>2. collector' = (IF asked' = Members THEN "on" ELSE "off") /\ groupDelivered = <<>>
  BY <1>0 DEF G!Ask, CollectorInv
<1>3. CASE UNCHANGED <<sent, resultCh>>
  <2>1. Taken' = Taken /\ Unsent' = Unsent
    BY <1>3 DEF Taken, Unsent
  <2>2. ChannelInv'
    BY <1>0, <1>1, <1>3, <2>1 DEF ChannelInv, G!Size
  <2>3. G!FailureIsUnanimous'
    BY <1>0, <1>1, <1>3 DEF CollectorInv, G!FailureIsUnanimous
  <2>4. CollectorInv'
    BY <1>0, <1>1, <1>2, <1>3, <2>1, <2>3 DEF CollectorInv
  <2>5. GroupType'
    BY <1>0, <1>1, <1>3 DEF GroupType
  <2> QED
    BY <1>0, <1>3, <2>2, <2>4, <2>5 DEF GInv
<1>4. CASE G!Send(m, "error")
  <2>1. /\ ChannelInv' /\ Taken' = Taken
        /\ resultCh' \in Seq(Members) /\ sent' \in [Members -> {"none", "response", "nil", "error"}]
    BY <1>0, <1>1, <1>4, SendChannel DEF GroupType
  <2>2. sent'[m] = "error" /\ \A k \in Members \ {m} : sent'[k] = sent[k]
    BY <1>0, <1>4 DEF GroupType, G!Send
  <2>3. G!FailureIsUnanimous'
    BY <1>0, <1>1, <1>4, SendUnanimous
  <2>4. \A k \in Taken : sent[k] # "none" /\ k \in Members
    BY Zenon DEF Taken
  <2>5. CollectorInv'
    BY <1>0, <1>1, <1>2, <2>1, <2>2, <2>3, <2>4 DEF CollectorInv, GroupType
  <2>6. GroupType'
    BY <1>0, <1>1, <2>1 DEF GroupType
  <2> QED
    BY <1>0, <2>1, <2>2, <2>5, <2>6 DEF GInv
<1> QED
  BY <1>3, <1>4, Zenon DEF G!Ask

\* The end of the context of the query, and the collector that notices it.
LEMMA ContextStep ==
    ASSUME GInv, G!EndContext \/ G!CollectContext
    PROVE  GInv' /\ sent' = sent
<1>0. GroupType /\ ChannelInv /\ CollectorInv
  BY DEF GInv
<1>1. UNCHANGED <<asked, sent, resultCh, received, firstErr>>
  BY DEF G!EndContext, G!CollectContext
<1>2. Taken' = Taken /\ Unsent' = Unsent
  BY <1>1 DEF Taken, Unsent
<1>3. ChannelInv'
  BY <1>0, <1>1, <1>2, Zenon DEF ChannelInv, G!Size
<1>4. CASE G!EndContext
  <2>1. UNCHANGED <<collector, groupDelivered, cancelled>> /\ queryDone' = TRUE
    BY <1>4 DEF G!EndContext
  <2>2. G!FailureIsUnanimous'
    BY <1>0, <1>1, <2>1 DEF CollectorInv, G!FailureIsUnanimous
  <2> QED
    BY <1>0, <1>1, <1>2, <1>3, <2>1, <2>2 DEF GInv, GroupType, CollectorInv
<1>5. CASE G!CollectContext
  <2>1. collector = "on" /\ collector' = "done" /\ cancelled' = TRUE /\ groupDelivered' = <<"ctx">> /\ queryDone' = queryDone
    BY <1>0, <1>5 DEF G!CollectContext, G!Finish, CollectorInv
  <2>2. G!FailureIsUnanimous'
    BY <2>1, GroupAssumption DEF G!FailureIsUnanimous
  <2>3. CollectorInv'
    BY <1>0, <1>1, <2>1, <2>2 DEF CollectorInv
  <2> QED
    BY <1>0, <1>1, <1>3, <2>1, <2>3 DEF GInv, GroupType
<1> QED
  BY <1>1, <1>4, <1>5

\* The collector looks at a result.  When it has looked at as many as there
\* are members, it has looked at all of them.
LEMMA CollectStep ==
    ASSUME GInv, G!CollectResult
    PROVE  GInv' /\ sent' = sent
<1>0. /\ GroupType /\ ChannelInv /\ CollectorInv /\ collector = "on" /\ groupDelivered = <<>>
      /\ asked = Members /\ UNCHANGED <<asked, sent, queryDone>>
  BY DEF GInv, G!CollectResult, CollectorInv
<1>1. PICK m : m = Head(resultCh)
  OBVIOUS
<1>2. /\ ChannelInv' /\ Taken' = Taken \cup {m} /\ m \in Members /\ sent[m] # "none" /\ resultCh' \in Seq(Members)
  BY <1>0, <1>1, TakeChannel DEF G!CollectResult
<1>3. received' \in Nat
  BY <1>0 DEF G!CollectResult, GroupType
<1>4. \A k \in Taken : sent[k] \in {"nil", "error"} /\ (firstErr = "none" => sent[k] = "nil")
  BY <1>0 DEF CollectorInv
<1>5. CASE sent[m] = "response"
  <2>1. collector' = "done" /\ cancelled' = TRUE /\ groupDelivered' = <<m>> /\ firstErr' = firstErr
    BY <1>0, <1>1, <1>5 DEF G!CollectResult, G!IsResponse, G!Finish
  <2>2. G!FailureIsUnanimous'
    BY <1>0, <1>2, <1>5, <2>1, GroupAssumption DEF G!FailureIsUnanimous
  <2>3. CollectorInv'
    BY <1>0, <1>2, <2>1, <2>2 DEF CollectorInv
  <2> QED
    BY <1>0, <1>2, <1>3, <2>1, <2>3 DEF GInv, GroupType
<1>6. CASE sent[m] # "response"
  <2>1. sent[m] \in {"nil", "error"} /\ "none" \notin Members
    BY <1>0, <1>2, <1>6, GroupAssumption DEF GroupType
  <2>2. firstErr' = IF firstErr = "none" /\ sent[m] = "error" THEN m ELSE firstErr
    BY <1>1, <1>6, Zenon DEF G!CollectResult, G!IsResponse, G!None
  <2>3. /\ firstErr' \in Members \cup {"none"} /\ (firstErr' # "none" => sent[firstErr'] = "error")
        /\ \A k \in Taken' : sent[k] \in {"nil", "error"} /\ (firstErr' = "none" => sent[k] = "nil")
    BY <1>0, <1>2, <1>4, <2>1, <2>2, Zenon DEF GroupType, CollectorInv
  <2>4. CASE received' = G!Size
    <3>1. Taken' = Members
      <4>1. Taken' \subseteq Members /\ Cardinality(Taken') = Cardinality(Members)
        BY <1>2, <2>4, MembersFinite DEF ChannelInv, G!Size
      <4> QED
        BY <4>1, GroupAssumption, FS_Subset, Zenon
    <3>2. PICK d : d = G!Failure(firstErr')
      OBVIOUS
    <3>3. collector' = "done" /\ cancelled' = TRUE /\ groupDelivered' = <<d>>
      BY <1>0, <1>1, <1>6, <2>2, <2>4, <3>2 DEF G!CollectResult, G!IsResponse, G!AllReceived, G!Finish, G!None
    <3>4. d \in {"firstErr", "allFailed"} /\ (d = "firstErr" <=> firstErr' # "none")
      BY <3>2 DEF G!Failure, G!None
    <3>5. G!FailureIsUnanimous'
      <4>1. d \notin Members
        BY <3>4, GroupAssumption
      <4>2. d = "firstErr" => \A k \in Members : sent'[k] \in {"nil", "error"} /\ \E l \in Members : sent'[l] = "error"
        BY <1>0, <2>1, <2>3, <3>1, <3>4
      <4>3. d = "allFailed" => \A k \in Members : sent'[k] = "nil"
        BY <1>0, <2>1, <2>3, <3>1, <3>4, Zenon
      <4> QED
        BY <3>3, <4>1, <4>2, <4>3 DEF G!FailureIsUnanimous
    <3>6. CollectorInv'
      BY <1>0, <2>3, <3>3, <3>4, <3>5, Zenon DEF CollectorInv
    <3> QED
      BY <1>0, <1>2, <1>3, <2>3, <3>3, <3>6 DEF GInv, GroupType
  <2>5. CASE received' # G!Size
    <3>1. UNCHANGED <<collector, cancelled, groupDelivered>>
      BY <1>1, <1>6, <2>5 DEF G!CollectResult, G!IsResponse, G!AllReceived
    <3>2. G!FailureIsUnanimous'
      BY <1>0, <3>1 DEF CollectorInv, G!FailureIsUnanimous
    <3>3. CollectorInv'
      BY <1>0, <2>3, <3>1, <3>2 DEF CollectorInv
    <3> QED
      BY <1>0, <1>2, <1>3, <2>3, <3>1, <3>3 DEF GInv, GroupType
  <2> QED
    BY <2>4, <2>5
<1> QED
  BY <1>0, <1>5, <1>6

-----------------------------------------------------------------------------
(* The scopes                                                              *)

\* The scopes whose result is not on record are counted.
LEMMA MissingFinite ==
    /\ IsFiniteSet(Missing) /\ Cardinality(Missing) \in Nat
    /\ Cardinality(Missing) = 0 <=> Missing = {}
<1>1. IsFiniteSet(Scope) /\ Missing \subseteq Scope
  BY GroupAssumption, FS_Interval DEF Scope, Missing
<1>2. IsFiniteSet(Missing)
  BY <1>1, FS_Subset
<1> QED
  BY <1>2, FS_CardinalityType, FS_EmptySet

\* With another response on record there is one less to come.
LEMMA MissingLess ==
    ASSUME ScopeType, NEW i \in Scope, responses[i] = "none", NEW r, r # "none",
           responses' = [responses EXCEPT ![i] = r]
    PROVE  Cardinality(Missing') = Cardinality(Missing) - 1
<1>1. Missing' = Missing \ {i} /\ i \in Missing
  BY DEF ScopeType, Missing
<1> QED
  BY <1>1, MissingFinite, FS_RemoveElement

\* A new exchange.
Fresh ==
    /\ reported = [i \in Scope |-> "none"] /\ responses = [i \in Scope |-> "none"]
    /\ pc = [i \in Scope |-> "none"] /\ started = 0 /\ pending = Scopes
    /\ completed = FALSE /\ scopesCancelled = FALSE /\ scopesDelivered = <<>>

\* Nothing has been reported, counted or delivered then.
LEMMA FreshInv == Fresh => PInv /\ Untouched
<1> SUFFICES ASSUME Fresh PROVE PInv /\ Untouched
  OBVIOUS
<1> USE DEF Fresh
<1>1. Missing = 1 .. Scopes /\ Scopes \in Nat
  BY GroupAssumption DEF Missing, Scope
<1>2. Cardinality(1 .. Scopes) = Scopes
  <2>0. 1 \in Int /\ Scopes \in Int
    BY <1>1
  <2>1. Cardinality(1 .. Scopes) = IF 1 > Scopes THEN 0 ELSE Scopes - 1 + 1
    BY <2>0, FS_Interval, Zenon
  <2> QED
    BY <2>1, <1>1
<1>3. ScopeType
  BY <1>1, Zenon DEF ScopeType
<1>4. RecordInv
  BY <1>1, <1>2 DEF RecordInv
<1>5. DeliverInv
  BY DEF DeliverInv, Delivers
<1> QED
  BY <1>3, <1>4, <1>5 DEF PInv, Untouched

\* A step of an exchange with the scopes, but for the delivery.
LEMMA ScopesStep ==
    ASSUME PInv,
           P!Start \/ \E i \in P!Index : \/ P!Report(i) \/ P!CompleteAccepted(i) \/ P!CompleteOther(i)
                                          \/ P!CompleteLate(i) \/ P!Cancel(i)
    PROVE  PInv' /\ scopesDelivered' = scopesDelivered
<1>0. ScopeType /\ RecordInv /\ DeliverInv
  BY DEF PInv
<1>a. P!Index = Scope /\ Accepted = {"ok"}
  BY NameAssumption DEF P!Index, Scope
<1>1. CASE P!Start
  <2>1. started' = started + 1 /\ UNCHANGED <<reported, pc, responses, pending, completed, scopesCancelled, scopesDelivered>>
    BY <1>1 DEF P!Start
  <2>2. ScopeType' /\ Missing' = Missing
    BY <1>0, <2>1, SMTT(30) DEF ScopeType, Missing
  <2>3. RecordInv'
    BY <1>0, <2>1, <2>2 DEF RecordInv, ScopeType, Scope
  <2>4. P!FirstResponse' = P!FirstResponse
    BY <2>1 DEF P!FirstResponse
  <2>5. DeliverInv'
    BY <1>0, <2>1, <2>4 DEF DeliverInv, Delivers
  <2> QED
    BY <2>1, <2>2, <2>3, <2>5 DEF PInv
<1>2. ASSUME NEW i \in Scope, P!Report(i) PROVE PInv' /\ scopesDelivered' = scopesDelivered
  <2>1. PICK r \in Outputs : reported' = [reported EXCEPT ![i] = r]
    BY <1>2, <1>a, Zenon DEF P!Report, P!Reports, Outputs
  <2>2. /\ pc[i] = "none" /\ i <= started /\ pc' = [pc EXCEPT ![i] = "complete"]
        /\ UNCHANGED <<started, responses, pending, completed, scopesCancelled, scopesDelivered>>
    BY <1>2 DEF P!Report
  <2>3. ScopeType' /\ Missing' = Missing
    BY <1>0, <2>1, <2>2, Zenon DEF ScopeType, Missing
  <2>4. responses[i] = "none" /\ r # "none"
    BY <1>0, <2>2 DEF RecordInv, ScopeType, Outputs
  <2>5. RecordInv'
    BY <1>0, <2>1, <2>2, <2>3, <2>4 DEF RecordInv, ScopeType, Scope
  <2>6. P!FirstResponse' = P!FirstResponse
    BY <2>2 DEF P!FirstResponse
  <2>7. \A j \in Scope : Delivers(j)' = Delivers(j) /\ (Delivers(j) => j # i)
    BY <1>0, <2>2 DEF Delivers, ScopeType
  <2>8. \A j \in Scope \ {i} : reported'[j] = reported[j] /\ pc'[j] = pc[j]
    BY <1>0, <2>1, <2>2, Zenon DEF ScopeType
  <2>9. DeliverInv'
    BY <1>0, <2>2, <2>6, <2>7, <2>8 DEF DeliverInv
  <2> QED
    BY <2>2, <2>3, <2>5, <2>9 DEF PInv
<1>3. ASSUME NEW i \in Scope, P!CompleteAccepted(i) PROVE PInv' /\ scopesDelivered' = scopesDelivered
  <2>1. /\ pc[i] = "complete" /\ ~completed /\ reported[i] = "ok" /\ completed' = TRUE
        /\ pc' = [pc EXCEPT ![i] = "cancel"]
        /\ UNCHANGED <<started, reported, responses, pending, scopesCancelled, scopesDelivered>>
    BY <1>3, <1>a, Zenon DEF P!CompleteAccepted
  <2>2. ScopeType' /\ Missing' = Missing
    BY <1>0, <2>1, Zenon DEF ScopeType, Missing
  <2>3. RecordInv'
    BY <1>0, <2>1, <2>2, ZenonT(30) DEF RecordInv, ScopeType
  <2>4. Delivers(i)' /\ pc'[i] # "deliver" /\ \A j \in Scope \ {i} : ~Delivers(j)'
    BY <1>0, <2>1, Zenon DEF Delivers, DeliverInv, ScopeType
  <2>5. DeliverInv'
    BY <1>0, <2>1, <2>4 DEF DeliverInv
  <2> QED
    BY <2>1, <2>2, <2>3, <2>5, Zenon DEF PInv
<1>4. ASSUME NEW i \in Scope, P!CompleteOther(i) PROVE PInv' /\ scopesDelivered' = scopesDelivered
  <2>1. /\ pc[i] = "complete" /\ ~completed /\ reported[i] # "ok" /\ pending' = pending - 1
        /\ responses' = [responses EXCEPT ![i] = reported[i]]
        /\ completed' = (pending' = 0)
        /\ pc' = [pc EXCEPT ![i] = IF completed' THEN "cancel" ELSE "done"]
        /\ UNCHANGED <<started, reported, scopesCancelled, scopesDelivered>>
    BY <1>4, <1>a, Zenon DEF P!CompleteOther, P!LastReporter
  <2>2. responses[i] = "none" /\ reported[i] # "none" /\ reported[i] \in Outputs
    BY <1>0, <2>1 DEF RecordInv, ScopeType
  <2>3. pending' = Cardinality(Missing')
    <3>1. Cardinality(Missing') = Cardinality(Missing) - 1
      BY <1>0, <2>1, <2>2, MissingLess, Zenon
    <3> QED
      BY <1>0, <2>1, <3>1 DEF RecordInv
  <2>4. pending' \in Nat
    <3>1. Missing # {}
      BY <2>2 DEF Missing
    <3>2. pending # 0 /\ pending \in Nat
      BY <1>0, <3>1, MissingFinite, Zenon DEF RecordInv
    <3> QED
      BY <2>1, <3>2
  <2>5. ScopeType'
    <3>1. pc' \in [Scope -> {"none", "complete", "cancel", "deliver", "done"}] /\ completed' \in BOOLEAN
      BY <1>0, <2>1 DEF ScopeType
    <3>2. responses' \in [Scope -> Outputs \cup {"none"}]
      BY <1>0, <2>1, <2>2 DEF ScopeType
    <3> QED
      BY <1>0, <2>1, <2>4, <3>1, <3>2 DEF ScopeType
  <2>6. /\ pc'[i] \in {"cancel", "done"} /\ (pc'[i] = "cancel" <=> completed') /\ responses'[i] = reported[i]
        /\ \A j \in Scope \ {i} : pc'[j] = pc[j] /\ responses'[j] = responses[j]
    BY <1>0, <2>1, Zenon DEF ScopeType
  <2>7. RecordInv'
    BY <1>0, <2>1, <2>2, <2>3, <2>6, ZenonT(30) DEF RecordInv
  <2>8. (Delivers(i)' <=> completed') /\ pc'[i] # "deliver" /\ \A j \in Scope \ {i} : ~Delivers(j)'
    BY <1>0, <2>1, <2>6, Zenon DEF Delivers, DeliverInv
  <2>9. DeliverInv'
    BY <1>0, <2>1, <2>8, Zenon DEF DeliverInv
  <2> QED
    BY <2>1, <2>5, <2>7, <2>9, Zenon DEF PInv
<1>5. ASSUME NEW i \in Scope, P!CompleteLate(i) \/ P!Cancel(i) PROVE PInv' /\ scopesDelivered' = scopesDelivered
  <2>1. /\ UNCHANGED <<started, reported, responses, pending, completed, scopesDelivered>>
        /\ \/ pc[i] = "complete" /\ completed /\ pc' = [pc EXCEPT ![i] = "done"] /\ scopesCancelled' = scopesCancelled
           \/ pc[i] = "cancel" /\ pc' = [pc EXCEPT ![i] = "deliver"] /\ scopesCancelled' = TRUE
    BY <1>5 DEF P!CompleteLate, P!Cancel
  <2>2. ScopeType' /\ Missing' = Missing
    BY <1>0, <2>1, Zenon DEF ScopeType, Missing
  <2>3. RecordInv'
    BY <1>0, <2>1, <2>2 DEF RecordInv, ScopeType
  <2>4. \A j \in Scope : Delivers(j)' = Delivers(j) /\ (j # i => pc'[j] = pc[j])
    BY <1>0, <2>1 DEF Delivers, ScopeType
  <2>5. P!FirstResponse' = P!FirstResponse
    BY <2>1 DEF P!FirstResponse
  <2>6. (pc'[i] = "deliver" => scopesCancelled') /\ (scopesCancelled => scopesCancelled')
    BY <1>0, <2>1, Zenon DEF ScopeType
  <2>7. DeliverInv'
    BY <1>0, <2>1, <2>4, <2>5, <2>6 DEF DeliverInv
  <2> QED
    BY <2>1, <2>2, <2>3, <2>7 DEF PInv
<1> QED
  BY <1>1, <1>2, <1>3, <1>4, <1>5, <1>a
\* A set of numbers that is not empty has a least element.
LEMMA LeastOf == ASSUME NEW S, S \subseteq Nat, S # {} PROVE \E m \in S : \A n \in S : m <= n
<1>1. IsWellFoundedOn(OpToRel(<, Nat), Nat)
  BY NatLessThanWellFounded, Zenon
<1>2. PICK m \in S : \A n \in S : ~(<<n, m>> \in OpToRel(<, Nat))
  BY <1>1, WFMin, Zenon
<1>3. \A n \in S : ~(n < m)
  BY <1>2, Zenon DEF OpToRel
<1> QED
  BY <1>3

\* When every result is on record, the first response is one that no response
\* comes before, and there is none only if all scopes have failed.
LEMMA FirstIs ==
    ASSUME PInv, pending = 0
    PROVE  /\ \A i \in Scope : reported[i] \in {"nxdomain", "error"}
           /\ \/ P!FirstResponse = "errors" /\ \A i \in Scope : reported[i] = "error"
              \/ \E i \in Scope : /\ reported[i] = "nxdomain" /\ P!FirstResponse = "nxdomain"
                                  /\ \A j \in 1 .. i - 1 : reported[j] = "error"
<1>1. \A i \in Scope : responses[i] = reported[i] /\ reported[i] \in {"nxdomain", "error"}
  <2>1. Missing = {}
    BY MissingFinite DEF PInv, RecordInv
  <2>2. \A i \in Scope : responses[i] # "none"
    BY <2>1 DEF Missing
  <2> QED
    BY <2>2 DEF PInv, RecordInv, ScopeType, Outputs
<1> DEFINE found == {j \in Scope : responses[j] \notin {"error"}}
<1>2. P!FirstResponse = IF found = {} THEN "errors"
                        ELSE responses[CHOOSE j \in found : \A k \in found : j <= k]
  BY DEF P!FirstResponse, P!Index, Scope, P!AllErrors
<1>3. CASE found = {}
  BY <1>1, <1>2, <1>3
<1>4. CASE found # {}
  <2>1. found \subseteq Nat
    BY DEF Scope
  <2>2. PICK i \in found : \A k \in found : i <= k
    BY <1>4, <2>1, LeastOf, Zenon
  <2> HIDE DEF found
  <2>3. i = CHOOSE j \in found : \A k \in found : j <= k
    BY <2>1, <2>2, LeastIsChosen
  <2>4. P!FirstResponse = responses[i]
    BY <1>2, <1>4, <2>3
  <2>5. i \in Scope /\ reported[i] = "nxdomain" /\ responses[i] = "nxdomain"
    BY <1>1, <2>2 DEF found
  <2>6. \A j \in 1 .. i - 1 : reported[j] = "error"
    <3>1. \A j \in 1 .. i - 1 : j \in Scope /\ ~(i <= j)
      BY <2>5, GroupAssumption DEF Scope
    <3>2. \A j \in 1 .. i - 1 : j \notin found
      BY <2>2, <3>1, Zenon
    <3> QED
      BY <1>1, <3>1, <3>2 DEF found
  <2> QED
    BY <1>1, <2>4, <2>5, <2>6
<1> QED
  BY <1>3, <1>4

\* The one that ends the exchange delivers, and nobody has before.
LEMMA DeliverStep ==
    ASSUME PInv, NEW i \in Scope, P!Deliver(i)
    PROVE  /\ PInv' /\ Delivers(i) /\ scopesDelivered = <<>> /\ UNCHANGED <<started, reported>>
           /\ \/ scopesDelivered' = <<"ok">>
              \/ scopesDelivered' = <<"nxdomain">>
              \/ scopesDelivered' = <<"errors">> /\ \A j \in Scope : reported[j] = "error"
<1>0. ScopeType /\ RecordInv /\ DeliverInv /\ Accepted = {"ok"}
  BY NameAssumption DEF PInv
<1>1. /\ pc[i] = "deliver" /\ pc' = [pc EXCEPT ![i] = "done"]
      /\ UNCHANGED <<started, reported, responses, pending, completed, scopesCancelled>>
      /\ scopesDelivered' = Append(scopesDelivered, IF reported[i] = "ok" THEN "ok" ELSE P!FirstResponse)
  BY <1>0 DEF P!Deliver
<1>2. /\ Delivers(i) /\ completed /\ scopesDelivered = <<>> /\ scopesCancelled
      /\ \A j \in Scope \ {i} : ~Delivers(j)
      /\ reported[i] = "ok" \/ pending = 0
  BY <1>0, <1>1 DEF DeliverInv, Delivers
<1>3. scopesDelivered' = IF reported[i] = "ok" THEN <<"ok">> ELSE <<P!FirstResponse>>
  BY <1>1, <1>2
<1>4. P!FirstResponse' = P!FirstResponse
  BY <1>1 DEF P!FirstResponse
<1>5. ScopeType' /\ Missing' = Missing
  BY <1>0, <1>1, Zenon DEF ScopeType, Missing
<1>6. RecordInv'
  BY <1>0, <1>1, <1>5 DEF RecordInv, ScopeType
<1>7. \A j \in Scope : ~Delivers(j)'
  BY <1>0, <1>1, <1>2, Zenon DEF Delivers, ScopeType
<1>8. DeliverInv'
  BY <1>1, <1>2, <1>3, <1>4, <1>7 DEF DeliverInv
<1>9. \/ scopesDelivered' = <<"ok">>
      \/ scopesDelivered' = <<"nxdomain">>
      \/ scopesDelivered' = <<"errors">> /\ \A j \in Scope : reported[j] = "error"
  BY <1>2, <1>3, FirstIs
<1> QED
  BY <1>1, <1>2, <1>5, <1>6, <1>8, <1>9 DEF PInv

\* The invariant says what ExchangeParallel promises.
LEMMA ScopesImply == PInv => P!BestEffort
<1> SUFFICES ASSUME PInv PROVE P!BestEffort
  OBVIOUS
<1>a. P!Index = Scope /\ Accepted = {"ok"}
  BY NameAssumption DEF P!Index, Scope
<1>1. CASE scopesDelivered = <<>>
  BY <1>1 DEF P!BestEffort
<1>2. CASE scopesDelivered = <<"ok">>
  <2>1. scopesCancelled
    BY <1>2, Zenon DEF PInv, DeliverInv
  <2> QED
    BY <1>2, <1>a, <2>1 DEF P!BestEffort
<1>3. CASE scopesDelivered # <<>> /\ scopesDelivered # <<"ok">>
  <2>1. scopesCancelled /\ pending = 0 /\ scopesDelivered = <<P!FirstResponse>>
    BY <1>3 DEF PInv, DeliverInv
  <2>2. PICK d : d = P!FirstResponse
    OBVIOUS
  <2>3. /\ \A i \in Scope : reported[i] \in {"nxdomain", "error"}
        /\ \/ d = "errors" /\ \A i \in Scope : reported[i] = "error"
           \/ \E i \in Scope : /\ reported[i] = "nxdomain" /\ d = "nxdomain"
                               /\ \A j \in 1 .. i - 1 : reported[j] = "error"
    BY <2>1, <2>2, FirstIs
  <2>4. scopesDelivered = <<d>> /\ Len(scopesDelivered) = 1 /\ scopesDelivered[1] = d
    BY <2>1, <2>2
  <2>5. IF d = "errors" THEN \A i \in Scope : reported[i] \in {"error"}
        ELSE \E i \in Scope : reported[i] = d /\ \A j \in 1 .. i - 1 : reported[j] \in {"error"}
    BY <2>3
  <2> QED
    BY <1>a, <2>1, <2>3, <2>4, <2>5 DEF P!BestEffort, P!AllErrors
<1> QED
  BY <1>1, <1>2, <1>3

-----------------------------------------------------------------------------
(* The local server                                                        *)

\* The name search has its invariant when the context does no more than end.
LEMMA NameContext ==
    ASSUME NameInv, ctxDone' \in BOOLEAN, ctxDone => ctxDone',
           UNCHANGED <<loop, cb, result, returned, continued, starts, delivered, nameErrorResponse, answer>>
    PROVE  NameInv'
<1>1. ctxDone \in BOOLEAN
  BY DEF NameInv, SeqInv, TypeOK
<1>2. CASE ctxDone' = ctxDone
  <2>1. UNCHANGED nameVars
    BY <1>2 DEF nameVars, seqVars
  <2> QED
    BY <2>1, NameInvStep
<1>3. CASE ctxDone' # ctxDone
  <2>1. EndContext /\ UNCHANGED <<nameErrorResponse, answer>>
    BY <1>1, <1>3 DEF EndContext
  <2> QED
    BY <2>1, NameInvStep DEF NameNext
<1> QED
  BY <1>2, <1>3, Zenon

\* The name search answers once.
LEMMA AnswerOnce ==
    ASSUME NameInv, NEW i \in Index, NameStep(i), answer # NoAnswer
    PROVE  answer' = answer
<1>1. NameInv' /\ SeqInv
  BY StepAnswers, Zenon DEF NameInv
<1>2. delivered # <<>> /\ delivered \in Seq([from : Index, value : Results \cup {CtxErr}])
  BY <1>1, Zenon DEF NameInv, SeqInv, TypeOK
<1>3. Len(delivered') <= 1
  <2>1. PICK g \in Index : delivered' = Delivery(g)'
    BY <1>1, Zenon DEF NameInv, SeqInv
  <2> QED
    BY <2>1 DEF Delivery
<1>4. ASSUME NEW x, delivered' = Append(delivered, x) PROVE FALSE
  <2>1. Len(delivered') = Len(delivered) + 1 /\ Len(delivered) \in Nat \ {0}
    BY <1>2, <1>4, SMTT(30)
  <2> QED
    BY <1>3, <2>1
<1>5. delivered' = delivered
  BY <1>4 DEF NameStep, Step, Call, Abandon, Deliver, PassOn, Return
<1> QED
  BY <1>5 DEF NameStep

\* A local server without an answer has asked the names in vain.
LEMMA ErrorMeansNone ==
    ASSUME NameInv, answer # NoAnswer, answer.value \notin {"ok", "nxdomain"}
    PROVE  NoNameAnswered
<1>1. BestNameWins /\ result \in [Index -> Results \cup {"none"}]
  BY NameImplies, Zenon DEF NameInv, SeqInv, TypeOK, None
<1>2. NameErrors = {} /\ ~\E i \in Index : result[i] = "ok"
  BY <1>1 DEF BestNameWins
<1> QED
  BY <1>1, <1>2, GroupAssumption, Zenon DEF NameErrors, NoNameAnswered

\* The local server calls back.
LEMMA CallBackStep ==
    ASSUME GroupInv, NEW r \in {"response", "error"}, CallBack(r), sent[Local] = "none", Local \in asked
    PROVE  GInv' /\ sent'[Local] = r /\ stage' = "over" /\ UNCHANGED <<queryDone, cancelled>>
<1>1. G!Send(Local, r) /\ UNCHANGED <<asked, queryDone, received, firstErr, collector, cancelled, groupDelivered>>
  BY Zenon DEF CallBack
<1>2. GInv' /\ sent'[Local] = r
  BY <1>1, SendStep DEF GroupInv
<1> QED
  BY <1>1, <1>2 DEF CallBack

\* Nothing happens in the group, the scopes, the name search.
LEMMA GroupSame == ASSUME GInv, UNCHANGED group PROVE GInv'
<1>1. UNCHANGED <<asked, sent, resultCh, queryDone, received, firstErr, collector, cancelled, groupDelivered>>
  BY DEF group
<1>2. GroupType' /\ Taken' = Taken /\ Unsent' = Unsent
  BY <1>1, Zenon DEF GInv, GroupType, Taken, Unsent
<1>3. ChannelInv'
  BY <1>1, <1>2, Zenon DEF GInv, ChannelInv, G!Size
<1>4. G!FailureIsUnanimous'
  BY <1>1 DEF GInv, CollectorInv, G!FailureIsUnanimous
<1>5. CollectorInv'
  BY <1>1, <1>2, <1>4 DEF GInv, CollectorInv
<1> QED
  BY <1>2, <1>3, <1>5 DEF GInv

\* Steps elsewhere keep the invariant of the scopes, ...
LEMMA ScopesSame == ASSUME PInv, UNCHANGED scopes PROVE PInv' /\ Untouched' = Untouched
<1>1. UNCHANGED <<started, reported, pc, responses, pending, completed, scopesCancelled, scopesDelivered>>
  BY DEF scopes
<1>2. ScopeType' /\ Missing' = Missing /\ P!FirstResponse' = P!FirstResponse
  BY <1>1, SMTT(30) DEF PInv, ScopeType, Missing, P!FirstResponse
<1>3. RecordInv' /\ DeliverInv'
  BY <1>1, <1>2 DEF PInv, RecordInv, DeliverInv, Delivers
<1> QED
  BY <1>1, <1>2, <1>3 DEF PInv, Untouched

\* ... and that of the names.
LEMMA NamesSame == ASSUME NameInv, UNCHANGED nameVars PROVE NameInv'
BY NameInvStep

\* ExchangeAsync of the local server.
LEMMA ExchangeStep == ASSUME GroupInv, Exchange PROVE GroupInv'
<1>0. /\ GInv /\ PInv /\ NameInv /\ StageInv /\ stage = "off" /\ Local \in asked /\ sent[Local] = "none"
      /\ UNCHANGED scopes /\ UNCHANGED nameVars
  BY DEF GroupInv, Exchange, G!None
<1>1. PInv' /\ Untouched' = Untouched /\ NameInv'
  BY <1>0, ScopesSame, NamesSame
<1>2. UNCHANGED <<reported, scopesDelivered, result, answer, ctxDone>>
  BY <1>0 DEF scopes, nameVars, seqVars
<1>3. Untouched /\ answer = NoAnswer /\ \A i \in Index : result[i] = "none"
  BY <1>0 DEF StageInv
<1>4. ASSUME NEW r \in {"response", "error"}, CallBack(r) PROVE GroupInv'
  <2>1. GInv' /\ sent'[Local] = r /\ stage' = "over" /\ UNCHANGED <<queryDone, cancelled>>
    BY <1>0, <1>4, CallBackStep
  <2>2. NoScopeAnswered' /\ NoNameAnswered'
    BY <1>2, <1>3, ZenonT(30) DEF NoScopeAnswered, NoNameAnswered, Untouched
  <2>3. StageInv'
    BY <1>0, <1>1, <1>2, <1>3, <2>1, <2>2 DEF StageInv
  <2> QED
    BY <1>1, <2>1, <2>3 DEF GroupInv
<1>5. CASE stage' \in {"first", "refresh", "last", "names"} /\ UNCHANGED group
  <2>1. GInv' /\ UNCHANGED <<asked, sent, queryDone, cancelled>>
    BY <1>0, <1>5, GroupSame DEF group
  <2>2. scopesDelivered = <<>>
    BY <1>3, Zenon DEF Untouched
  <2>3. StageInv'
    BY <1>0, <1>1, <1>2, <1>3, <1>5, <2>1, <2>2 DEF StageInv
  <2> QED
    BY <1>1, <2>1, <2>3 DEF GroupInv
<1> QED
  BY <1>4, <1>5 DEF Exchange

\* Steps of the scopes change nothing for a local server that has called back.
LEMMA ScopeStepStep == ASSUME GroupInv, ScopeStep PROVE GroupInv'
<1>0. /\ GInv /\ PInv /\ NameInv /\ StageInv
      /\ UNCHANGED <<asked, sent, queryDone, cancelled, result, answer, ctxDone, stage>>
  BY DEF GroupInv, ScopeStep, group, nameVars, seqVars
<1>1. GInv' /\ NameInv'
  BY <1>0, GroupSame, NamesSame DEF ScopeStep
<1>2. PInv' /\ scopesDelivered' = scopesDelivered
  BY <1>0, ScopesStep DEF ScopeStep
<1>3. CASE stage \in {"first", "last"}
  <2>1. StageInv'
    BY <1>0, <1>2, <1>3, ZenonT(30) DEF StageInv
  <2> QED
    BY <1>1, <1>2, <2>1, Zenon DEF GroupInv
<1>4. CASE stage = "over" /\ started > 0
  <2>1. scopesDelivered # <<>> /\ (sent[Local] = "error" => scopesDelivered = <<"errors">>)
    BY <1>0, <1>4 DEF StageInv, Untouched
  <2>2. sent[Local] = "error" => \A i \in Scope : reported[i] = "error" /\ pc[i] # "none"
    <3>1. scopesDelivered = <<"errors">> => pending = 0 /\ P!FirstResponse = "errors"
      <4>1. \A x, y : <<x>> = <<y>> => x = y
        OBVIOUS
      <4>2. <<"errors">> # <<>> /\ <<"errors">> # <<"ok">>
        OBVIOUS
      <4>3. scopesDelivered = <<"errors">> => pending = 0 /\ scopesDelivered = <<P!FirstResponse>>
        BY <1>0, <4>2, Zenon DEF PInv, DeliverInv
      <4> QED
        BY <4>1, <4>3, Zenon
    <3> QED
      BY <1>0, <2>1, <3>1, FirstIs DEF PInv, RecordInv
  <2>3. \A i \in Scope : reported'[i] = reported[i] \/ pc[i] = "none"
    BY <1>0 DEF ScopeStep, P!Start, P!Report, P!CompleteAccepted, P!CompleteOther, P!CompleteLate, P!Cancel,
                PInv, ScopeType
  <2>4. sent[Local] = "error" => NoScopeAnswered'
    BY <2>2, <2>3 DEF NoScopeAnswered
  <2>5. NoNameAnswered' = NoNameAnswered
    BY <1>0, Zenon DEF NoNameAnswered
  <2>6. StageInv'
    BY <1>0, <1>2, <1>4, <2>1, <2>4, <2>5 DEF StageInv
  <2> QED
    BY <1>1, <1>2, <2>6, Zenon DEF GroupInv
<1> QED
  BY <1>3, <1>4 DEF ScopeStep
\* The scopes deliver: the local server calls back or tries once more.
LEMMA DeliverScopeStep == ASSUME GroupInv, NEW i \in Scope, DeliverScope(i) PROVE GroupInv'
<1>0. /\ GInv /\ PInv /\ NameInv /\ StageInv /\ UNCHANGED nameVars
      /\ UNCHANGED <<result, answer, ctxDone>>
  BY DEF GroupInv, DeliverScope, nameVars, seqVars
<1>1. /\ PInv' /\ Delivers(i) /\ scopesDelivered = <<>> /\ UNCHANGED <<started, reported>>
      /\ \/ scopesDelivered' = <<"ok">>
         \/ scopesDelivered' = <<"nxdomain">>
         \/ scopesDelivered' = <<"errors">> /\ \A j \in Scope : reported[j] = "error"
  BY <1>0, DeliverStep DEF DeliverScope
<1>2. NameInv'
  BY <1>0, NamesSame, Zenon
<1>3. stage \in {"first", "last"}
  <2>1. ~Untouched
    BY <1>1 DEF Untouched, Delivers
  <2> QED
    BY <1>0, <1>1, <2>1 DEF StageInv
<1>4. /\ Local \in asked /\ sent[Local] = "none" /\ answer = NoAnswer /\ \A j \in Index : result[j] = "none"
  BY <1>0, <1>3 DEF StageInv
<1>5. PICK r : r = scopesDelivered'[1]
  OBVIOUS
<1>6. scopesDelivered' = <<r>> /\ r \in {"ok", "nxdomain", "errors"} /\ (r = "errors" => \A j \in Scope : reported'[j] = "error")
  BY <1>1, <1>5
<1>7. CASE Refreshes(r)
  <2>1. stage' = "refresh" /\ UNCHANGED group /\ r = "errors"
    BY <1>5, <1>7 DEF DeliverScope, Refreshes, P!AllErrors
  <2>2. GInv' /\ UNCHANGED <<asked, sent, queryDone, cancelled>>
    BY <1>0, <2>1, GroupSame, Zenon DEF group
  <2>3. StageInv'
    BY <1>0, <1>4, <1>6, <2>1, <2>2 DEF StageInv
  <2> QED
    BY <1>1, <1>2, <2>2, <2>3 DEF GroupInv
<1>8. CASE ~Refreshes(r)
  <2>1. PICK v \in {"response", "error"} : CallBack(v) /\ (v = "error" <=> r = "errors")
    BY <1>5, <1>8, Zenon DEF DeliverScope, P!AllErrors
  <2>2. GInv' /\ sent'[Local] = v /\ stage' = "over" /\ UNCHANGED <<queryDone, cancelled>>
    BY <1>4, <2>1, CallBackStep
  <2>3. NoNameAnswered' /\ (v = "error" => NoScopeAnswered')
    BY <1>0, <1>4, <1>6, <2>1 DEF NoNameAnswered, NoScopeAnswered
  <2>4. scopesDelivered' # <<>> /\ (v = "error" => scopesDelivered' = <<"errors">>)
    BY <1>6, <2>1, ZenonT(30)
  <2>5. StageInv'
    BY <1>0, <1>4, <2>2, <2>3, <2>4 DEF StageInv
  <2> QED
    BY <1>1, <1>2, <2>2, <2>5 DEF GroupInv
<1> QED
  BY <1>7, <1>8

\* The second try starts afresh, or ends at once.
LEMMA RefreshStep == ASSUME GroupInv, Refresh PROVE GroupInv'
<1>0. /\ GInv /\ PInv /\ NameInv /\ StageInv /\ UNCHANGED nameVars /\ stage = "refresh"
      /\ UNCHANGED <<result, answer, ctxDone>>
  BY DEF GroupInv, Refresh, nameVars, seqVars
<1>1. NameInv'
  BY <1>0, NamesSame
<1>2. /\ Local \in asked /\ sent[Local] = "none" /\ answer = NoAnswer /\ \A j \in Index : result[j] = "none"
      /\ Untouched \/ scopesDelivered = <<"errors">>
  BY <1>0 DEF StageInv
<1>3. CASE CallBack("error") /\ UNCHANGED scopes
  <2>1. GInv' /\ sent'[Local] = "error" /\ stage' = "over" /\ UNCHANGED <<queryDone, cancelled>>
    BY <1>2, <1>3, CallBackStep
  <2>2. PInv' /\ Untouched' = Untouched /\ UNCHANGED <<reported, scopesDelivered>>
    BY <1>0, <1>3, ScopesSame DEF scopes
  <2>3. NoScopeAnswered
    <3>1. CASE Untouched
      BY <3>1 DEF Untouched, NoScopeAnswered
    <3>2. CASE scopesDelivered = <<"errors">>
      <4>1. pending = 0 /\ P!FirstResponse = "errors"
        BY <1>0, <3>2 DEF PInv, DeliverInv
      <4> QED
        BY <1>0, <4>1, FirstIs, Zenon DEF NoScopeAnswered
    <3> QED
      BY <1>2, <3>1, <3>2
  <2>4. NoScopeAnswered' /\ NoNameAnswered'
    BY <1>0, <1>2, <2>2, <2>3, Zenon DEF NoScopeAnswered, NoNameAnswered
  <2>5. StageInv'
    <3>1. Untouched' \/ (scopesDelivered' # <<>> /\ scopesDelivered' = <<"errors">>)
      <4>1. <<"errors">> # <<>>
        OBVIOUS
      <4> QED
        BY <1>2, <2>2, <4>1, Zenon
    <3>2. ctxDone' = (queryDone' \/ cancelled')
      BY <1>0, <2>1, Zenon DEF StageInv
    <3>3. answer' = NoAnswer /\ \A j \in Index : result'[j] = "none"
      BY <1>0, <1>2, Zenon
    <3> QED
      BY <2>1, <2>4, <3>1, <3>2, <3>3, Zenon DEF StageInv
  <2> QED
    BY <1>1, <2>1, <2>2, <2>5, Zenon DEF GroupInv
<1>4. CASE stage' = "last" /\ AskAgain /\ UNCHANGED group
  <2>1. Fresh'
    BY <1>4 DEF AskAgain, Fresh, P!Index, Scope, P!None
  <2>2. PInv' /\ Untouched'
    BY <2>1, FreshInv, PTL
  <2>3. GInv' /\ UNCHANGED <<asked, sent, queryDone, cancelled>>
    BY <1>0, <1>4, GroupSame DEF group
  <2>4. StageInv'
    BY <1>0, <1>2, <1>4, <2>2, <2>3, Zenon DEF StageInv, Untouched
  <2> QED
    BY <1>1, <2>2, <2>3, <2>4 DEF GroupInv
<1> QED
  BY <1>3, <1>4 DEF Refresh

\* A step of the name search, whose first answer is called back.
LEMMA SearchStepStep == ASSUME GroupInv, NEW i \in Index, SearchStep(i) PROVE GroupInv'
<1>0. /\ GInv /\ PInv /\ NameInv /\ StageInv /\ NameStep(i) /\ UNCHANGED scopes
      /\ stage = "names" \/ answer # NoAnswer
  BY Zenon DEF GroupInv, SearchStep
<1>1. NameInv' /\ PInv' /\ Untouched' = Untouched /\ UNCHANGED <<reported, scopesDelivered>>
  BY <1>0, StepAnswers, ScopesSame, Zenon DEF scopes
<1>2. UNCHANGED <<result, ctxDone>>
  BY <1>0 DEF NameStep, Step, Call, Abandon, Deliver, PassOn, Return
<1>3. CASE answer' = answer
  <2>1. GInv' /\ UNCHANGED <<asked, sent, queryDone, cancelled, stage>>
    BY <1>0, <1>3, GroupSame DEF SearchStep, group
  <2>2. NoScopeAnswered' = NoScopeAnswered /\ NoNameAnswered' = NoNameAnswered
    BY <1>1, <1>2, Zenon DEF NoScopeAnswered, NoNameAnswered
  <2>3. StageInv'
    BY <1>0, <1>1, <1>2, <1>3, <2>1, <2>2, Zenon DEF StageInv
  <2> QED
    BY <1>1, <2>1, <2>3 DEF GroupInv
<1>4. CASE answer' # answer
  <2>1. answer = NoAnswer /\ stage = "names"
    BY <1>0, <1>4, AnswerOnce
  <2>2. Local \in asked /\ sent[Local] = "none" /\ Untouched
    BY <1>0, <2>1 DEF StageInv
  <2>3. PICK v \in {"response", "error"} : CallBack(v) /\ (v = "error" => answer'.value \notin {"ok", "nxdomain"})
    BY <1>4 DEF SearchStep
  <2>4. GInv' /\ sent'[Local] = v /\ stage' = "over" /\ UNCHANGED <<queryDone, cancelled>>
    BY <2>2, <2>3, CallBackStep, Zenon
  <2>5. NoScopeAnswered'
    BY <1>1, <2>2, Zenon DEF NoScopeAnswered, Untouched
  <2>6. (NameInv /\ answer # NoAnswer /\ answer.value \notin {"ok", "nxdomain"} => NoNameAnswered)'
    BY ErrorMeansNone, PTL
  <2>7. v = "error" => NoNameAnswered'
    BY <1>1, <1>4, <2>1, <2>3, <2>6
  <2>8. StageInv'
    BY <1>0, <1>1, <1>2, <1>4, <2>1, <2>2, <2>4, <2>5, <2>7, ZenonT(30) DEF StageInv
  <2> QED
    BY <1>1, <2>4, <2>8 DEF GroupInv
<1> QED
  BY <1>3, <1>4

\* A server of the system reports; the local server has not called back.
LEMMA SearchReportStep == ASSUME GroupInv, NEW i \in Index, SearchReport(i) PROVE GroupInv'
<1>0. /\ GInv /\ PInv /\ NameInv /\ StageInv /\ stage = "names"
      /\ UNCHANGED group /\ UNCHANGED scopes /\ stage' = stage
  BY DEF GroupInv, SearchReport
<1>1. PICK r \in Results : NameReport(i, r)
  BY Zenon DEF SearchReport
<1>2. NameInv' /\ UNCHANGED <<answer, ctxDone>>
  BY <1>0, <1>1, ReportKeeps, Zenon DEF NameReport, Report
<1>3. GInv' /\ PInv' /\ Untouched' = Untouched /\ UNCHANGED <<asked, sent, queryDone, cancelled, scopesDelivered>>
  BY <1>0, GroupSame, ScopesSame, Zenon DEF group, scopes
<1>4. StageInv'
  BY <1>0, <1>2, <1>3, Zenon DEF StageInv
<1> QED
  BY <1>2, <1>3, <1>4 DEF GroupInv

-----------------------------------------------------------------------------
(* Theorems                                                                *)

\* Steps of the group: the loop, the other members, the context, the collector.
LEMMA GroupStepStep ==
    ASSUME GroupInv, GInv', ctxDone' = (queryDone' \/ cancelled'),
           queryDone => queryDone', cancelled => cancelled', asked \subseteq asked',
           sent'[Local] = sent[Local] \/ (stage = "off" /\ sent[Local] = "none" /\ sent'[Local] = "error"),
           UNCHANGED <<scopes, loop, cb, result, returned, continued, starts, delivered, nameErrorResponse, answer, stage>>
    PROVE  GroupInv'
<1>0. GInv /\ PInv /\ NameInv /\ StageInv /\ ctxDone = (queryDone \/ cancelled)
  BY Zenon DEF GroupInv, StageInv
<1>1. PInv' /\ Untouched' = Untouched /\ UNCHANGED <<reported, scopesDelivered>>
  BY <1>0, ScopesSame, Zenon DEF scopes
<1>2. NameInv'
  <2>1. ctxDone' \in BOOLEAN /\ (ctxDone => ctxDone')
    BY <1>0, Zenon
  <2> QED
    BY <1>0, <2>1, NameContext, Zenon
<1>3. NoScopeAnswered' = NoScopeAnswered /\ NoNameAnswered' = NoNameAnswered
  BY <1>1, ZenonT(30) DEF NoScopeAnswered, NoNameAnswered
<1>4. stage = "off" => NoScopeAnswered /\ NoNameAnswered
  BY <1>0, Zenon DEF StageInv, Untouched, NoScopeAnswered, NoNameAnswered
<1>5. StageInv'
  <2>1. CASE sent'[Local] = sent[Local]
    BY <1>0, <1>1, <1>3, <2>1, ZenonT(30) DEF StageInv
  <2>2. CASE stage = "off" /\ sent[Local] = "none" /\ sent'[Local] = "error"
    BY <1>0, <1>1, <1>3, <1>4, <2>2, Zenon DEF StageInv
  <2> QED
    BY <2>1, <2>2, Zenon
<1> QED
  BY <1>1, <1>2, <1>5, Zenon DEF GroupInv

\* The query starts with nobody asked.
LEMMA GroupInitInv == GroupInit => GroupInv
<1> SUFFICES ASSUME GroupInit PROVE GroupInv
  OBVIOUS
<1>1. NameInv /\ answer = NoAnswer /\ (\A i \in Index : result[i] = "none") /\ ctxDone = FALSE
  BY NameInvInit DEF GroupInit, NameInit, Init, None
<1>2. Fresh
  BY DEF GroupInit, P!Init, Fresh, P!Index, Scope, P!None
<1>3. PInv /\ Untouched
  BY <1>2, FreshInv
<1>4. /\ asked = {} /\ sent = [m \in Members |-> "none"] /\ resultCh = <<>> /\ queryDone = FALSE
      /\ received = 0 /\ firstErr = "none" /\ collector = "off" /\ cancelled = FALSE /\ groupDelivered = <<>>
      /\ stage = "off" /\ Local \in Members
  BY GroupAssumption DEF GroupInit, G!Init, G!None
<1>5. GInv
  <2>1. Taken = {} /\ Unsent = Members
    BY <1>4 DEF Taken, Unsent
  <2>2. Cardinality(Taken) = 0
    BY <2>1, FS_EmptySet
  <2>3. GroupType
    <3>1. resultCh \in Seq(Members)
      BY <1>4
    <3>2. sent \in [Members -> {"none", "response", "nil", "error"}]
      BY <1>4
    <3>3. received \in Nat /\ firstErr \in Members \cup {"none"} /\ asked \subseteq Members
      BY <1>4
    <3> QED
      BY <1>4, <3>1, <3>2, <3>3, Zenon DEF GroupType
  <2>4. ChannelInv
    BY <1>4, <2>1, <2>2, MembersFinite DEF ChannelInv
  <2>5. CollectorInv
    BY <1>4, <2>1 DEF CollectorInv, G!FailureIsUnanimous
  <2> QED
    BY <2>3, <2>4, <2>5 DEF GInv
<1>6. StageInv
  BY <1>1, <1>3, <1>4, Zenon DEF StageInv
<1> QED
  BY <1>1, <1>3, <1>5, <1>6 DEF GroupInv

\* Every step preserves the invariant.
LEMMA GroupNextInv == GroupInv /\ [GroupNext]_vars => GroupInv'
<1> SUFFICES ASSUME GroupInv, [GroupNext]_vars PROVE GroupInv'
  OBVIOUS
<1>0. GInv /\ StageInv /\ Local \in Members
  BY GroupAssumption, ZenonT(30) DEF GroupInv
<1>1. ASSUME NEW m \in Members, GroupStep(G!Ask(m)) PROVE GroupInv'
  <2>1. G!Ask(m)
    BY <1>1, Zenon DEF GroupStep
  <2>2. /\ GInv' /\ \A k \in Members \ {m} : sent'[k] = sent[k]
        /\ sent[m] = "none" /\ sent'[m] \in {"none", "error"}
    BY <1>0, <2>1, AskStep
  <2>3. asked' = asked \cup {m} /\ m \notin asked /\ UNCHANGED <<queryDone, cancelled>>
    BY <2>1, Zenon DEF G!Ask
  <2>4. m = Local => stage = "off"
    <3>1. m = Local => stage # "over"
      BY <1>0, <2>2 DEF StageInv
    <3> QED
      BY <1>0, <2>3, <3>1, ZenonT(30) DEF StageInv
  <2>5. sent'[Local] = sent[Local] \/ (stage = "off" /\ sent[Local] = "none" /\ sent'[Local] = "error")
    BY <1>0, <2>2, <2>4, Zenon
  <2> QED
    BY <1>1, <2>2, <2>3, <2>5, GroupStepStep DEF GroupStep
<1>2. ASSUME NEW m \in Members, GroupStep(Other(m)) PROVE GroupInv'
  <2>1. PICK r \in {"response", "nil", "error"} : m # Local /\ G!MemberResult(m, r)
    BY <1>2 DEF GroupStep, Other, G!Outcomes
  <2>2. /\ m \in asked /\ sent[m] = "none" /\ G!Send(m, r)
        /\ UNCHANGED <<asked, queryDone, received, firstErr, collector, cancelled, groupDelivered>>
    BY <2>1, Zenon DEF G!MemberResult, G!None
  <2>3. GInv' /\ \A k \in Members \ {m} : sent'[k] = sent[k]
    BY <1>0, <2>2, SendStep, Zenon
  <2>4. sent'[Local] = sent[Local]
    BY <1>0, <2>1, <2>3, Zenon
  <2> QED
    BY <1>2, <2>2, <2>3, <2>4, GroupStepStep, Zenon DEF GroupStep
<1>3. ASSUME GroupStep(G!EndContext) \/ GroupStep(G!CollectContext) PROVE GroupInv'
  <2>1. G!EndContext \/ G!CollectContext
    BY <1>3 DEF GroupStep
  <2>2. GInv' /\ sent' = sent
    BY <1>0, <2>1, ContextStep
  <2>3. asked' = asked /\ (queryDone => queryDone') /\ (cancelled => cancelled')
    BY <2>1 DEF G!EndContext, G!CollectContext, G!Finish
  <2> QED
    BY <1>3, <2>2, <2>3, GroupStepStep DEF GroupStep
<1>4. ASSUME GroupStep(G!CollectResult) PROVE GroupInv'
  <2>1. G!CollectResult
    BY <1>4 DEF GroupStep
  <2>2. GInv' /\ sent' = sent
    BY <1>0, <2>1, CollectStep
  <2>3. asked' = asked /\ (queryDone => queryDone') /\ (cancelled => cancelled')
    BY <2>1, Zenon DEF G!CollectResult, G!Finish
  <2> QED
    BY <1>4, <2>2, <2>3, GroupStepStep DEF GroupStep
<1>5. CASE UNCHANGED vars
  <2>1. UNCHANGED group /\ UNCHANGED scopes /\ UNCHANGED nameVars /\ stage' = stage
    BY <1>5 DEF vars
  <2>2. UNCHANGED <<asked, sent, queryDone, cancelled>>
    BY <2>1 DEF group
  <2>3. UNCHANGED <<ctxDone, loop, cb, result, returned, continued, starts, delivered, nameErrorResponse, answer>>
    BY <2>1, Zenon DEF nameVars, seqVars
  <2>4. GInv' /\ ctxDone' = (queryDone' \/ cancelled')
    BY <1>0, <2>1, <2>2, <2>3, GroupSame DEF StageInv
  <2> QED
    BY <2>1, <2>2, <2>3, <2>4, GroupStepStep
<1>a. P!Index = Scope
  BY DEF P!Index, Scope
<1> QED
  BY <1>1, <1>2, <1>3, <1>4, <1>5, <1>a, ExchangeStep, ScopeStepStep, RefreshStep, DeliverScopeStep,
     SearchStepStep, SearchReportStep, SMTT(30) DEF GroupNext

\* The invariant always holds.
LEMMA GroupInvariance == GroupSpec => []GroupInv
BY GroupInitInv, GroupNextInv, PTL DEF GroupSpec

\* No member of the group ever blocks on its channel, the local server
\* included, which may have gone through two rounds of scopes before it calls
\* back: no member sends twice.
THEOREM ChannelHasRoom == GroupSpec => []NeverBlocked
<1>1. GroupInv => NeverBlocked
  <2> SUFFICES ASSUME GroupInv PROVE NeverBlocked
    OBVIOUS
  <2>1. G!Cardinality(Unsent) = Cardinality(Unsent)
    BY DEF G!Cardinality, Cardinality
  <2>2. Len(resultCh) + G!Cardinality(Unsent) <= G!Size
    BY <2>1 DEF GroupInv, GInv, ChannelInv
  <2> QED
    BY <2>2 DEF NeverBlocked, G!NeverBlocked, Unsent, G!None
<1> QED
  BY <1>1, GroupInvariance, PTL

\* A failure of the group hides no answer: every member has failed, and below
\* the local server no scope and no name of the search list has answered.
THEOREM FailureHidesNothing == GroupSpec => []FailureIsUnanimous
<1>1. GroupInv => FailureIsUnanimous
  <2> SUFFICES ASSUME GroupInv PROVE FailureIsUnanimous
    OBVIOUS
  <2>1. G!FailureIsUnanimous /\ GroupType /\ StageInv /\ Local \in Members
    BY GroupAssumption DEF GroupInv, GInv, CollectorInv
  <2>2. ASSUME groupDelivered # <<>>, groupDelivered[1] \in {"firstErr", "allFailed"}
        PROVE  NoScopeAnswered /\ NoNameAnswered
    <3>1. PICK d : groupDelivered = <<d>>
      BY <2>2 DEF GroupInv, GInv, CollectorInv
    <3>2. 1 \in 1 .. Len(groupDelivered) /\ groupDelivered[1] = d
      BY <3>1
    <3>3. sent[Local] \in {"nil", "error"}
      BY <2>1, <2>2, <3>2 DEF G!FailureIsUnanimous
    <3> QED
      BY <2>1, <3>3 DEF StageInv
  <2> QED
    BY <2>1, <2>2 DEF FailureIsUnanimous, NoScopeAnswered, NoNameAnswered, P!Index, Scope, P!None, None
<1> QED
  BY <1>1, GroupInvariance, PTL

\* In each of its two rounds the resolved client is answered at most once,
\* with an accepted response, or else with the best there is.
THEOREM ScopesDoTheirBest == GroupSpec => []BestEffort
<1>1. GroupInv => BestEffort
  BY ScopesImply DEF GroupInv, BestEffort
<1> QED
  BY <1>1, GroupInvariance, PTL

\* The name search answers with the best name also as a part of the group,
\* whose end cancels it at any point.
THEOREM BestNameInGroup == GroupSpec => []BestNameWins
<1>1. GroupInv => BestNameWins
  BY NameImplies DEF GroupInv
<1> QED
  BY <1>1, GroupInvariance, PTL
=============================================================================
