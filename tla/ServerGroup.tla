---------------------------- MODULE ServerGroup ----------------------------
(***************************************************************************)
(* A DNS server group (GroupTransport) with the local server among its     *)
(* members.  The local server asks systemd-resolved, whose client sends    *)
(* the query to all scopes of a server set at once (ParallelExchange) and, *)
(* when they all failed, once more to those of a refreshed set; while      *)
(* resolved is not available it searches the names of the system           *)
(* configuration in order (NameSearch).  What it calls back goes into the  *)
(* channel of the group, whose context is that of everything below it.     *)
(***************************************************************************)
EXTENDS NameSearch, FiniteSets

CONSTANTS
    Members,   \* t.serverTags
    Local,     \* the member that is the local server
    Scopes     \* number of scopes that match the name

ASSUME GroupAssumption ==
    /\ IsFiniteSet(Members) /\ Local \in Members /\ Scopes \in Nat \ {0}
    /\ Members \cap {"none", "ctx", "firstErr", "allFailed"} = {}
    /\ Results \subseteq {"ok", "nxdomain", "error"}

VARIABLES
    asked, sent, resultCh, queryDone, received, firstErr, collector, cancelled, groupDelivered,
    started, reported, pc, responses, pending, completed, scopesCancelled, scopesDelivered,
    stage   \* of the local server: "off", "first", "refresh", "last", "names", "over"

G == INSTANCE GroupTransport WITH ctxDone <- queryDone, delivered <- groupDelivered

P == INSTANCE ParallelExchange WITH N <- Scopes, Refused <- {"nxdomain"}, Errors <- {"error"},
                                    cancelled <- scopesCancelled, delivered <- scopesDelivered

group == <<asked, sent, resultCh, queryDone, received, firstErr, collector, cancelled, groupDelivered>>
scopes == <<started, reported, pc, responses, pending, completed, scopesCancelled, scopesDelivered>>
vars == <<group, scopes, nameVars, stage>>

GroupInit == G!Init /\ P!Init /\ NameInit /\ stage = "off"

-----------------------------------------------------------------------------
(* The local server                                                        *)

\* What the local server calls back goes into the channel.
CallBack(r) ==
    /\ G!Send(Local, r)
    /\ stage' = "over"
    /\ UNCHANGED <<asked, queryDone, received, firstErr, collector, cancelled, groupDelivered>>

\* ExchangeAsync of the local server and of its resolver.  An error: the context
\* has ended, there is no server set and none can be read, no scope matches, or
\* the name is invalid.  A response: the name is one of the preferred ones, or
\* a local one that the link knows.
\* Else the scopes of resolved or the servers of the system are asked; a server
\* set that was read just now is not refreshed, and one without a scope for the
\* name is refreshed at once.
Exchange ==
    /\ stage = "off" /\ Local \in asked /\ sent[Local] = G!None
    /\ \/ CallBack("error")
       \/ ~ctxDone /\ CallBack("response")
       \/ ~ctxDone /\ stage' \in {"first", "refresh", "last", "names"} /\ UNCHANGED group
    /\ UNCHANGED <<scopes, nameVars>>

\* A step of ExchangeParallel, which may go on when the local server is done.
ScopeStep ==
    /\ stage \in {"first", "last"} \/ (stage = "over" /\ started > 0)
    /\ P!Start \/ \E i \in P!Index : \/ P!Report(i) \/ P!CompleteAccepted(i) \/ P!CompleteOther(i)
                                      \/ P!CompleteLate(i) \/ P!Cancel(i)
    /\ UNCHANGED <<group, nameVars, stage>>

\* Only a failure makes the resolver read the servers again, and only once.
Refreshes(r) == r = P!AllErrors /\ stage = "first" /\ ~ctxDone

DeliverTwice(i) ==   \* mutant: the failure is called back although a second try follows
    /\ P!Deliver(i)
    /\ LET r == scopesDelivered'[1]
       IN  IF Refreshes(r)
           THEN /\ G!Send(Local, "error") /\ stage' = "refresh"
                /\ UNCHANGED <<asked, queryDone, received, firstErr, collector, cancelled, groupDelivered>>
           ELSE CallBack(IF r = P!AllErrors THEN "error" ELSE "response")
    /\ UNCHANGED nameVars

DeliverScope(i) ==
    /\ P!Deliver(i)
    /\ LET r == scopesDelivered'[1]
       IN  IF Refreshes(r) THEN stage' = "refresh" /\ UNCHANGED group
           ELSE CallBack(IF r = P!AllErrors THEN "error" ELSE "response")
    /\ UNCHANGED nameVars

\* A new ExchangeParallel.
AskAgain ==
    /\ started' = 0 /\ pending' = Scopes
    /\ reported' = [i \in P!Index |-> P!None] /\ responses' = reported'
    /\ pc' = [i \in P!Index |-> "none"]
    /\ completed' = FALSE /\ scopesCancelled' = FALSE /\ scopesDelivered' = <<>>

RefreshSilent ==   \* mutant: nobody is told that there is nothing to refresh
    /\ stage = "refresh"
    /\ \/ stage' = "over" /\ UNCHANGED <<group, scopes>>
       \/ stage' = "last" /\ AskAgain /\ UNCHANGED group
    /\ UNCHANGED nameVars

\* The second try, unless the set is the same, is gone or has no servers for the name.
Refresh ==
    /\ stage = "refresh"
    /\ \/ CallBack("error") /\ UNCHANGED scopes
       \/ stage' = "last" /\ AskAgain /\ UNCHANGED group
    /\ UNCHANGED nameVars

\* A step of ExchangeNames; its answer is the local server's.
SearchStep(i) ==
    /\ stage = "names" \/ answer # NoAnswer
    /\ NameStep(i)
    /\ IF answer' # answer THEN CallBack(IF answer'.value \in {"ok", "nxdomain"} THEN "response" ELSE "error")
       ELSE UNCHANGED <<group, stage>>
    /\ UNCHANGED scopes

SearchReport(i) ==
    /\ stage = "names"
    /\ \E r \in Results : NameReport(i, r)
    /\ UNCHANGED <<group, scopes, stage>>

-----------------------------------------------------------------------------
(* The group                                                               *)

\* The members' context ends with that of the query, or when the group is done.
GroupStep(A) ==
    /\ A
    /\ ctxDone' = (queryDone' \/ cancelled')
    /\ UNCHANGED <<scopes, loop, cb, result, returned, continued, starts, delivered, nameErrorResponse, answer, stage>>

Other(m) == m # Local /\ \E r \in G!Outcomes : G!MemberResult(m, r)

GroupNext ==
    \/ \E m \in Members : GroupStep(G!Ask(m)) \/ GroupStep(Other(m))
    \/ GroupStep(G!EndContext) \/ GroupStep(G!CollectContext) \/ GroupStep(G!CollectResult)
    \/ Exchange \/ ScopeStep \/ Refresh
    \/ \E i \in P!Index : DeliverScope(i)
    \/ \E i \in Index : SearchStep(i) \/ SearchReport(i)

\* Goroutines run on; scopes and the servers of the system call back, because
\* they have timeouts.  The other members owe nothing, and nor does the context.
GroupSpec ==
    /\ GroupInit /\ [][GroupNext]_vars
    /\ WF_vars(\E m \in Members : GroupStep(G!Ask(m)))
    /\ WF_vars(GroupStep(G!CollectContext) \/ GroupStep(G!CollectResult))
    /\ WF_vars(Exchange) /\ WF_vars(ScopeStep) /\ WF_vars(Refresh)
    /\ \A i \in P!Index : WF_vars(DeliverScope(i))
    /\ \A i \in Index : WF_vars(SearchStep(i)) /\ WF_vars(SearchReport(i))

-----------------------------------------------------------------------------
(* Properties                                                              *)

\* Nobody ever blocks on the channel of the group, since every member, the
\* local server with its second try included, calls back at most once.
NeverBlocked == G!NeverBlocked

\* A failure of the group means that every member failed, is the error of a
\* member if there is one, and hides no answer below the local server: no
\* scope that was asked has one, and no name of the search list resolved or
\* was answered with a name error.
FailureIsUnanimous ==
    /\ G!FailureIsUnanimous
    /\ groupDelivered # <<>> /\ groupDelivered[1] \in {"firstErr", "allFailed"} =>
          /\ \A i \in P!Index : reported[i] \in {"error", P!None}
          /\ \A i \in Index : result[i] \in {"error", None}

\* In every round the scopes give at most one result, an accepted one or the
\* best of the others, and not before the losers are told to stop.
BestEffort == P!BestEffort

\* The local server always calls back, so that a query to the group is
\* answered once the other members have called back or the context has ended,
\* whatever becomes of the scopes, of the refresh and of the search.
Answered == (queryDone \/ \A m \in Members \ {Local} : sent[m] # G!None) ~> groupDelivered # <<>>
=============================================================================
