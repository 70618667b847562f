--------------------------- MODULE GroupTransport ---------------------------
(***************************************************************************)
(* ExchangeAsync of dns/transport/group.go: a query is sent to all member  *)
(* servers, whose callbacks put their results into a channel; a collector  *)
(* takes them out until one is a response, all have failed, or the context *)
(* of the query ends.  A member may never call back.                       *)
(***************************************************************************)
EXTENDS Naturals, Sequences, FiniteSets

CONSTANT Members   \* t.serverTags

VARIABLES
    asked,      \* members the loop has dealt with
    sent,       \* what each member has put into resultCh, or "none"
    resultCh,   \* the channel
    ctxDone,    \* the context of the query has ended
    received,   \* results the collector has looked at
    firstErr,   \* the member whose error came first, or None
    collector,  \* "off" before the loop ends, "on", "done"
    cancelled,  \* the derived context has been cancelled
    delivered   \* the calls of callback

vars == <<asked, sent, resultCh, ctxDone, received, firstErr, collector, cancelled, delivered>>

Size == Cardinality(Members)
None == "none"
Outcomes == {"response", "nil", "error"}   \* "nil": neither a response nor an error

Init ==
    /\ asked = {}
    /\ sent = [m \in Members |-> None]
    /\ resultCh = <<>>
    /\ ctxDone = FALSE
    /\ received = 0
    /\ firstErr = None
    /\ collector = "off"
    /\ cancelled = FALSE
    /\ delivered = <<>>

Send(m, r) ==
    /\ sent' = [sent EXCEPT ![m] = r]
    /\ resultCh' = Append(resultCh, m)

\* The loop over the members, whose order does not matter; its last step starts the collector.
Ask(m) ==
    /\ m \notin asked
    /\ asked' = asked \cup {m}
    /\ \/ Send(m, "error")   \* the transport manager does not know it
       \/ UNCHANGED <<sent, resultCh>>
    /\ collector' = IF asked' = Members THEN "on" ELSE "off"
    /\ UNCHANGED <<ctxDone, received, firstErr, cancelled, delivered>>

\* A member calls back.  The channel has room for every member.
MemberResult(m, r) ==
    /\ m \in asked /\ sent[m] = None /\ Len(resultCh) < Size
    /\ Send(m, r)
    /\ UNCHANGED <<asked, ctxDone, received, firstErr, collector, cancelled, delivered>>

EndContext ==
    /\ ~ctxDone
    /\ ctxDone' = TRUE
    /\ UNCHANGED <<asked, sent, resultCh, received, firstErr, collector, cancelled, delivered>>

Finish(d) ==
    /\ collector' = "done"
    /\ cancelled' = TRUE
    /\ delivered' = Append(delivered, d)

\* select may take either case when both are ready.
CollectContext ==
    /\ collector = "on" /\ ctxDone
    /\ Finish("ctx")
    /\ UNCHANGED <<asked, sent, resultCh, ctxDone, received, firstErr>>

IsResponse(m) == sent[m] = "response"

AllReceivedEarly(n) == n >= Size - 1   \* mutant: one member too few

AllReceived(n) == n = Size

Failure(err) == IF err # None THEN "firstErr" ELSE "allFailed"

CollectResult ==
    /\ collector = "on" /\ resultCh # <<>>
    /\ resultCh' = Tail(resultCh)
    /\ received' = received + 1
    /\ LET m == Head(resultCh)
           err == IF firstErr = None /\ sent[m] = "error" THEN m ELSE firstErr
       IN  IF IsResponse(m) THEN Finish(m) /\ UNCHANGED firstErr
           ELSE /\ firstErr' = err
                /\ IF AllReceived(received') THEN Finish(Failure(err))
                   ELSE UNCHANGED <<collector, cancelled, delivered>>
    /\ UNCHANGED <<asked, sent, ctxDone>>

-----------------------------------------------------------------------------
(* Properties                                                              *)

\* No member is ever blocked in its callback: the channel has room for all
\* that have not sent yet, even when nobody collects any more.
NeverBlocked == Len(resultCh) + Cardinality({m \in Members : sent[m] = None}) <= Size

\* One failure never hides another member's response: a failure that is not
\* the end of the context is delivered only if every member failed, and it
\* is an error that a member reported if there is one.
FailureIsUnanimous ==
    \A n \in 1 .. Len(delivered) :
        /\ delivered[n] \in Members => sent[delivered[n]] = "response"
        /\ delivered[n] = "firstErr" =>
              \A m \in Members : sent[m] \in {"nil", "error"} /\ \E k \in Members : sent[k] = "error"
        /\ delivered[n] = "allFailed" => \A m \in Members : sent[m] = "nil"
=============================================================================
