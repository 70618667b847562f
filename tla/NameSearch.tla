----------------------------- MODULE NameSearch -----------------------------
(***************************************************************************)
(* ExchangeNames of dns/transport/exchange_strategy.go: the candidates of  *)
(* a search list are tried with ExchangeSequential, and the name errors    *)
(* met on the way are remembered, because a name error says more than the  *)
(* failure of a later candidate.                                           *)
(***************************************************************************)
EXTENDS SequentialExchange

CONSTANT Original   \* the candidate that is the question's own name, or 0

ASSUME NameAssumption == Original \in Nat /\ Accepted = {"ok"} /\ CtxErr \notin {"ok", "nxdomain", "none"}

VARIABLES
    nameErrorResponse,   \* the candidate whose name error is kept, or 0
    answer               \* what the caller gets: [from, value] or NoAnswer

nameVars == <<seqVars, nameErrorResponse, answer>>

NoAnswer == [from |-> 0, value |-> "none"]

NameInit == Init /\ nameErrorResponse = 0 /\ answer = NoAnswer

KeepLatest(i) == TRUE   \* mutant: every name error replaces the one before

\* The first name error is kept, that of the question's own name always.
Keep(i) == nameErrorResponse = 0 \/ i = Original

\* search.wrap around the callback of candidate i
NameReport(i, r) ==
    /\ Report(i, r)
    /\ nameErrorResponse' = IF r = "nxdomain" /\ Keep(i) THEN i ELSE nameErrorResponse
    /\ UNCHANGED answer

\* The callback given to ExchangeSequential.
Substitute(d) ==
    IF d.value # "ok" /\ nameErrorResponse # 0
    THEN [from |-> nameErrorResponse, value |-> "nxdomain"] ELSE d

NameStep(i) ==
    /\ Step(i)
    /\ answer' = IF delivered' # delivered THEN Substitute(delivered'[Len(delivered')]) ELSE answer
    /\ UNCHANGED nameErrorResponse

NameNext ==
    \/ \E i \in Index : NameStep(i) \/ \E r \in Results : NameReport(i, r)
    \/ EndContext /\ UNCHANGED <<nameErrorResponse, answer>>

NameFairness ==
    \A i \in Index : WF_nameVars(NameStep(i)) /\ WF_nameVars(\E r \in Results : NameReport(i, r))

NameSpec == NameInit /\ [][NameNext]_nameVars /\ NameFairness

-----------------------------------------------------------------------------
(* Properties                                                              *)

NameErrors == {i \in Index : result[i] = "nxdomain"}

\* A candidate that resolves is answered, whatever failed before it.  An
\* error, that of the context included, is answered only when no candidate
\* got a name error; and the name error answered is the one of the question's
\* own name if there is one, else the first.
BestNameWins ==
    answer # NoAnswer =>
        IF \E i \in Index : result[i] = "ok"
        THEN answer.value = "ok" /\ result[answer.from] = "ok"
        ELSE IF NameErrors = {} THEN answer.value \notin {"ok", "nxdomain"}
        ELSE /\ answer.value = "nxdomain"
             /\ answer.from = IF Original \in NameErrors THEN Original
                              ELSE CHOOSE i \in NameErrors : \A j \in NameErrors : i <= j

-----------------------------------------------------------------------------
(* The inductive invariant                                                 *)

\* The name error that has precedence is kept.
Kept ==
    /\ nameErrorResponse = 0 <=> NameErrors = {}
    /\ nameErrorResponse # 0 =>
          /\ nameErrorResponse \in NameErrors
          /\ \/ nameErrorResponse = Original
             \/ Original \notin NameErrors /\ \A j \in NameErrors : nameErrorResponse <= j

NameInv ==
    /\ SeqInv /\ Kept
    /\ answer = IF delivered = <<>> THEN NoAnswer ELSE Substitute(delivered[1])
=============================================================================
