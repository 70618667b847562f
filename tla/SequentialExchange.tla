------------------------- MODULE SequentialExchange -------------------------
(***************************************************************************)
(* ExchangeSequential of dns/transport/exchange_strategy.go: exchangers    *)
(* are tried in order until one result is accepted.  An exchanger reports  *)
(* through a callback, which may come before or after the call of the      *)
(* exchanger returns.  Whoever is second, the loop or the callback, starts *)
(* the next exchanger: the flags returned and continued of                 *)
(* sequentialCallState decide who that is.                                 *)
(*                                                                         *)
(* loop[i] is the goroutine that runs the body of the loop for exchanger   *)
(* i, cb[i] the goroutine of its callback.                                 *)
(***************************************************************************)
EXTENDS Naturals, Sequences

CONSTANTS
    N,          \* number of exchangers
    Results,    \* what an exchanger can report
    Accepted,   \* the results that accept() accepts
    CtxErr      \* the error of the context

ASSUME SequentialAssumption ==
    /\ N \in Nat \ {0}
    /\ Accepted \subseteq Results
    /\ CtxErr \notin Results

VARIABLES
    ctxDone,    \* s.ctx has ended
    loop,       \* the loop at exchanger i
    cb,         \* the callback of exchanger i
    result,     \* what exchanger i reported
    returned,   \* state.returned
    continued,  \* state.continued
    starts,     \* how often the loop came to exchanger i
    delivered   \* the calls of s.callback, in order

seqVars == <<ctxDone, loop, cb, result, returned, continued, starts, delivered>>

Index == 1 .. N
None == "none"

Init ==
    /\ ctxDone = FALSE
    /\ loop = [i \in Index |-> IF i = 1 THEN "check" ELSE "none"]
    /\ cb = [i \in Index |-> "none"]
    /\ result = [i \in Index |-> None]
    /\ returned = [i \in Index |-> FALSE]
    /\ continued = [i \in Index |-> FALSE]
    /\ starts = [i \in Index |-> IF i = 1 THEN 1 ELSE 0]
    /\ delivered = <<>>

\* The loop l goes on to exchanger i; it ends when there is none.
Goto(l, i) ==
    IF i \in Index
    THEN loop' = [l EXCEPT ![i] = "check"] /\ starts' = [starts EXCEPT ![i] = @ + 1]
    ELSE loop' = l /\ UNCHANGED starts

\* Call exchanger i, unless the context has ended.
Call(i) ==
    /\ loop[i] = "check" /\ ~ctxDone
    /\ loop' = [loop EXCEPT ![i] = "inside"]
    /\ UNCHANGED <<ctxDone, cb, result, returned, continued, starts, delivered>>

Abandon(i) ==
    /\ loop[i] = "check" /\ ctxDone
    /\ loop' = [loop EXCEPT ![i] = "off"]
    /\ delivered' = Append(delivered, [from |-> i, value |-> CtxErr])
    /\ UNCHANGED <<ctxDone, cb, result, returned, continued, starts>>

\* Exchanger i reports r, from within the call or from another goroutine.
Report(i, r) ==
    /\ loop[i] \in {"inside", "left"} /\ cb[i] = "none"
    /\ cb' = [cb EXCEPT ![i] = "called"]
    /\ result' = [result EXCEPT ![i] = r]
    /\ UNCHANGED <<ctxDone, loop, returned, continued, starts, delivered>>

Final(i) == i = N \/ result[i] \in Accepted

Deliver(i) ==
    /\ cb[i] = "called" /\ Final(i)
    /\ cb' = [cb EXCEPT ![i] = "done"]
    /\ delivered' = Append(delivered, [from |-> i, value |-> result[i]])
    /\ UNCHANGED <<ctxDone, loop, result, returned, continued, starts>>

\* The result is not accepted: if the call has returned, this goroutine goes
\* on with the next exchanger; otherwise it leaves that to the loop.
PassOn(i) ==
    /\ cb[i] = "called" /\ ~Final(i)
    /\ cb' = [cb EXCEPT ![i] = "done"]
    /\ IF returned[i]
       THEN Goto(loop, i + 1) /\ UNCHANGED continued
       ELSE continued' = [continued EXCEPT ![i] = TRUE] /\ UNCHANGED <<loop, starts>>
    /\ UNCHANGED <<ctxDone, result, returned, delivered>>

\* The call of exchanger i returns; the loop goes on if the callback came first.
Return(i) ==
    /\ loop[i] = "inside"
    /\ returned' = [returned EXCEPT ![i] = TRUE]
    /\ LET left == [loop EXCEPT ![i] = "left"]
       IN  IF continued[i] THEN Goto(left, i + 1) ELSE loop' = left /\ UNCHANGED starts
    /\ UNCHANGED <<ctxDone, cb, result, continued, delivered>>

EndContext ==
    /\ ~ctxDone
    /\ ctxDone' = TRUE
    /\ UNCHANGED <<loop, cb, result, returned, continued, starts, delivered>>

Step(i) == Call(i) \/ Abandon(i) \/ Deliver(i) \/ PassOn(i) \/ Return(i)

Next ==
    \/ \E i \in Index : Step(i) \/ \E r \in Results : Report(i, r)
    \/ EndContext

\* The goroutines run on, and every exchanger calls back.
Fairness ==
    \A i \in Index : WF_seqVars(Step(i)) /\ WF_seqVars(\E r \in Results : Report(i, r))

Spec == Init /\ [][Next]_seqVars /\ Fairness

-----------------------------------------------------------------------------
(* Properties                                                              *)

TypeOK ==
    /\ ctxDone \in BOOLEAN
    /\ loop \in [Index -> {"none", "check", "inside", "left", "off"}]
    /\ cb \in [Index -> {"none", "called", "done"}]
    /\ result \in [Index -> Results \cup {None}]
    /\ returned \in [Index -> BOOLEAN]
    /\ continued \in [Index -> BOOLEAN]
    /\ starts \in [Index -> Nat]
    /\ delivered \in Seq([from : Index, value : Results \cup {CtxErr}])

\* However the loop and the callbacks interleave, every exchanger is started
\* at most once, and only when all before it have reported a result that was
\* not accepted.
TriedInOrder ==
    \A i \in Index :
        /\ starts[i] <= 1
        /\ starts[i] = 1 => \A j \in 1 .. i - 1 : cb[j] = "done" /\ result[j] \notin Accepted

\* The caller's callback is called at most once, and when it has been called
\* nothing is left that could start an exchanger.
DeliveredOnce ==
    /\ Len(delivered) <= 1
    /\ delivered # <<>> => \A i \in Index : loop[i] # "check" /\ cb[i] # "called"

\* "the last result is delivered as-is" (exchange_strategy.go:18): what is
\* delivered is accepted, or the result of the last exchanger, or the error
\* of the context.
DeliveredResult ==
    \A n \in 1 .. Len(delivered) :
        LET d == delivered[n]
        IN  IF d.value = CtxErr THEN ctxDone /\ cb[d.from] = "none"
            ELSE d.value = result[d.from] /\ (d.value \in Accepted \/ d.from = N)

-----------------------------------------------------------------------------
(* The inductive invariant                                                 *)

\* Exchanger f is the last one started.
Front(f) ==
    /\ \A i \in Index : i < f => loop[i] = "left" /\ cb[i] = "done" /\ starts[i] = 1 /\ result[i] \notin Accepted
    /\ \A i \in Index : i > f => loop[i] = "none" /\ starts[i] = 0 /\ ~returned[i] /\ ~continued[i]
    /\ loop[f] # "none" /\ starts[f] = 1
    /\ returned[f] <=> loop[f] = "left"
    /\ continued[f] <=> cb[f] = "done" /\ ~Final(f)
    /\ continued[f] => loop[f] = "inside"

\* What has been delivered when exchanger f is the last one started.
Delivery(f) ==
    IF loop[f] = "off" THEN <<[from |-> f, value |-> CtxErr]>>
    ELSE IF cb[f] = "done" /\ Final(f) THEN <<[from |-> f, value |-> result[f]]>> ELSE <<>>

SeqInv ==
    /\ TypeOK
    /\ \A i \in Index : loop[i] \in {"none", "check", "off"} => cb[i] = "none"
    /\ \A i \in Index : IF cb[i] = "none" THEN result[i] = None ELSE result[i] \in Results
    /\ \E f \in Index : Front(f) /\ delivered = Delivery(f) /\ (loop[f] = "off" => ctxDone)
=============================================================================
