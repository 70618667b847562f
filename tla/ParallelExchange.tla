-------------------------- MODULE ParallelExchange --------------------------
(***************************************************************************)
(* ExchangeParallel of dns/transport/exchange_strategy.go: all exchangers  *)
(* are started, the first accepted result is delivered at once and cancels *)
(* the others; when none is accepted, the first response without an error  *)
(* is delivered, in the order of the exchangers and not of the answers.    *)
(***************************************************************************)
EXTENDS Naturals, Sequences

CONSTANTS
    N,          \* number of exchangers
    Accepted,   \* accepted results
    Refused,    \* responses that are not accepted
    Errors      \* errors

VARIABLES
    started,     \* exchangers called so far, by the loop of ExchangeParallel
    reported,    \* what each exchanger reports
    pc,          \* the callback of each exchanger
    responses,   \* p.responses and p.errors, one of which is nil
    pending,     \* p.pending
    completed,   \* p.completed
    cancelled,   \* exchangeCtx has been cancelled
    delivered    \* the calls of p.callback

vars == <<started, reported, pc, responses, pending, completed, cancelled, delivered>>

Index == 1 .. N
Reports == Accepted \cup Refused \cup Errors
None == "none"
AllErrors == "errors"   \* E.Errors(p.errors...)

Init ==
    /\ started = 0
    /\ reported = [i \in Index |-> None]
    /\ pc = [i \in Index |-> "none"]
    /\ responses = [i \in Index |-> None]
    /\ pending = N
    /\ completed = FALSE
    /\ cancelled = FALSE
    /\ delivered = <<>>

\* The loop calls the next exchanger, also when the exchange is over by then.
Start ==
    /\ started < N
    /\ started' = started + 1
    /\ UNCHANGED <<reported, pc, responses, pending, completed, cancelled, delivered>>

\* An exchanger reports, from within its call or from another goroutine.
Report(i) ==
    /\ i <= started /\ pc[i] = "none"
    /\ \E r \in Reports : reported' = [reported EXCEPT ![i] = r]
    /\ pc' = [pc EXCEPT ![i] = "complete"]
    /\ UNCHANGED <<started, responses, pending, completed, cancelled, delivered>>

\* The critical section of complete for an accepted result ...
CompleteAccepted(i) ==
    /\ pc[i] = "complete" /\ ~completed /\ reported[i] \in Accepted
    /\ completed' = TRUE
    /\ pc' = [pc EXCEPT ![i] = "cancel"]
    /\ UNCHANGED <<started, reported, responses, pending, cancelled, delivered>>

LastReporterEarly(p) == p <= 1   \* mutant: one exchanger too early

LastReporter(p) == p = 0

\* ... and for any other: the last one to report delivers.
CompleteOther(i) ==
    /\ pc[i] = "complete" /\ ~completed /\ reported[i] \notin Accepted
    /\ responses' = [responses EXCEPT ![i] = reported[i]]
    /\ pending' = pending - 1
    /\ completed' = LastReporter(pending')
    /\ pc' = [pc EXCEPT ![i] = IF completed' THEN "cancel" ELSE "done"]
    /\ UNCHANGED <<started, reported, cancelled, delivered>>

\* The exchange is over: the result is dropped.
CompleteLate(i) ==
    /\ pc[i] = "complete" /\ completed
    /\ pc' = [pc EXCEPT ![i] = "done"]
    /\ UNCHANGED <<started, reported, responses, pending, completed, cancelled, delivered>>

Cancel(i) ==
    /\ pc[i] = "cancel"
    /\ cancelled' = TRUE
    /\ pc' = [pc EXCEPT ![i] = "deliver"]
    /\ UNCHANGED <<started, reported, responses, pending, completed, delivered>>

\* The first response without an error, by position.
FirstResponse ==
    LET found == {j \in Index : responses[j] \notin Errors}
    IN  IF found = {} THEN AllErrors ELSE responses[CHOOSE j \in found : \A k \in found : j <= k]

\* Read without the lock.
Deliver(i) ==
    /\ pc[i] = "deliver"
    /\ delivered' = Append(delivered, IF reported[i] \in Accepted THEN reported[i] ELSE FirstResponse)
    /\ pc' = [pc EXCEPT ![i] = "done"]
    /\ UNCHANGED <<started, reported, responses, pending, completed, cancelled>>

-----------------------------------------------------------------------------
(* Properties                                                              *)

\* One callback at most, and never while exchangeCtx still runs, so that the
\* exchangers that lost are told.  A result that is not accepted is delivered
\* only when every exchanger has reported; it is the response of the first
\* exchanger that got one, whatever the order of the answers, and an error
\* only if all failed.  A missing entry is never delivered, although the
\* results are read without the lock.
BestEffort ==
    /\ Len(delivered) <= 1
    /\ delivered # <<>> => cancelled
    /\ \A n \in 1 .. Len(delivered) :
          delivered[n] \notin Accepted =>
              /\ \A i \in Index : reported[i] \in Refused \cup Errors
              /\ IF delivered[n] = AllErrors THEN \A i \in Index : reported[i] \in Errors
                 ELSE \E i \in Index : reported[i] = delivered[n] /\ \A j \in 1 .. i - 1 : reported[j] \in Errors
=============================================================================
