---------------------------- MODULE URLTestGroup ----------------------------
(***************************************************************************)
(* The group of protocol/group/urltest.go that sends its connections to    *)
(* the fastest of its members.  Members are tested one check at a time     *)
(* (checking): on a ticker, on request, and after a provider has changed   *)
(* the members.  A check ends by choosing the selected member of each      *)
(* network under updateAccess.                                             *)
(*                                                                         *)
(* The members are plain outbounds: a nested group is tested by a check of *)
(* its own.  Whether a member's last test is recent enough to be kept is   *)
(* open, and so is when the ticker fires.                                  *)
(***************************************************************************)
EXTENDS Integers, FiniteSets, SequencesExt

CONSTANTS
    Nodes,      \* the outbounds
    Lists,      \* the member lists a provider update may produce
    Networks,   \* the networks, in the order they are updated
    Supports,   \* Supports[n]: the networks of outbound n
    Delays,     \* the delays a test may measure
    Tolerance,
    MaxDelay,   \* fallback.max_delay
    MaxUpdates  \* bound: provider updates

ASSUME ConstantsAssumption ==
    /\ \A l \in Lists : l \in Seq(Nodes) /\ l # <<>>
    /\ Supports \in [Nodes -> SUBSET ToSet(Networks)]
    /\ Delays \subseteq 0..65535 /\ Tolerance \in 0..65535

VARIABLES
    fallback,   \* whether the group falls back in order instead
    outbounds, history, selected,
    checking,   \* who holds the mutex of the checks
    phase,      \* where the running check is
    testing,    \* the members it still tests
    network,    \* the index of the network it updates
    choice,     \* what Select returned for that network
    pending, running, scheduler,  \* the scheduler of provider checks
    unscheduled,  \* provider updates between the new members and Schedule
    updates,
    owed        \* ghost: no check has loaded the members since Schedule

checkVars == <<checking, phase, testing, network, choice>>
scheduleVars == <<pending, running, scheduler>>
memberVars == <<fallback, outbounds, selected>>
updateVars == <<unscheduled, updates>>
vars == <<memberVars, history, checkVars, scheduleVars, updateVars, owed>>

None == "none"
Free == "free"

TypeOK ==
    /\ fallback \in BOOLEAN
    /\ outbounds \in Lists
    /\ DOMAIN history \subseteq Nodes
    /\ \A n \in DOMAIN history : history[n] \in Delays
    /\ selected \in [ToSet(Networks) -> Nodes \union {None}]
    /\ checking \in {Free, "provider", "other"}
    /\ phase \in {"test", "select", "store"}
    /\ testing \subseteq Nodes
    /\ network \in 1..Len(Networks)
    /\ pending \in BOOLEAN /\ running \in BOOLEAN
    /\ scheduler \in {"off", "clear", "wait", "check", "again"}
    /\ unscheduled \in 0..MaxUpdates /\ updates \in 0..MaxUpdates
    /\ owed \in BOOLEAN
-----------------------------------------------------------------------------
(* Select                                                                  *)

Supporting(list, net) == SelectSeq(list, LAMBDA n : net \in Supports[n])

Tested(list, net) == SelectSeq(Supporting(list, net), LAMBDA n : n \in DOMAIN history)

NoSlack(n) == history[n]   \* mutant: the tolerance is forgotten

\* 16-bit, as history.Delay+g.tolerance
Slack(n) == (history[n] + Tolerance) % 65536

\* The loop's comparison of the best outbound so far with the next
Faster(best, n) ==
    IF best = None \/ history[best] = 0 \/ history[best] > Slack(n) THEN n ELSE best

Fastest(list, current, net) ==
    FoldLeft(Faster, IF current \in DOMAIN history THEN current ELSE None, Tested(list, net))

TooSlow(n) == MaxDelay > 0 /\ history[n] > MaxDelay

\* A delay of zero does not end the search
FirstUsable(usable) ==
    LET positive == SelectSeq(usable, LAMBDA n : history[n] # 0)
    IN  IF positive # <<>> THEN Head(positive) ELSE Last(usable)

LeastSlow(slow) ==
    FoldLeft(LAMBDA best, n : IF history[n] < history[best] THEN n ELSE best, Head(slow), slow)

Fallback(tested) ==
    LET usable == SelectSeq(tested, LAMBDA n : ~TooSlow(n))
    IN  IF usable # <<>> THEN FirstUsable(usable) ELSE LeastSlow(tested)

Select(list, current, net) ==
    LET tested == Tested(list, net)
        any == Supporting(list, net)
    IN  IF tested # <<>> \/ (~fallback /\ current \in DOMAIN history)
        THEN [outbound |-> IF fallback THEN Fallback(tested) ELSE Fastest(list, current, net),
              exists |-> TRUE]
        ELSE [outbound |-> IF any = <<>> THEN None ELSE Head(any), exists |-> FALSE]

Init ==
    /\ fallback \in BOOLEAN
    /\ outbounds \in Lists
    /\ history = [n \in {} |-> 0]
    /\ selected = [net \in ToSet(Networks) |-> None]
    /\ checking = Free /\ phase = "test" /\ testing = {} /\ network = 1
    /\ choice = [outbound |-> None, exists |-> FALSE]
    /\ pending = FALSE /\ running = FALSE /\ scheduler = "off"
    /\ unscheduled = 0 /\ updates = 0 /\ owed = FALSE
-----------------------------------------------------------------------------
(* A check: urlTestLocked, entered with the mutex                          *)

\* Members without a recent result are tested, or all of them if the check
\* is forced.
Begin(who) ==
    /\ checking = Free
    /\ checking' = who
    /\ \E tests \in SUBSET ToSet(outbounds) :
          /\ ToSet(outbounds) \ DOMAIN history \subseteq tests
          /\ testing' = tests
    /\ phase' = "test"
    /\ owed' = FALSE
    /\ UNCHANGED <<network, choice>>

Forget(n) == history' = [m \in DOMAIN history \ {n} |-> history[m]]
Learn(n, d) == history' = [m \in DOMAIN history \union {n} |-> IF m = n THEN d ELSE history[m]]

TestMember(n) ==
    /\ checking # Free /\ phase = "test" /\ n \in testing
    /\ testing' = testing \ {n}
    /\ Forget(n) \/ \E d \in Delays : Learn(n, d)
    /\ UNCHANGED <<memberVars, checking, phase, network, choice, scheduleVars, updateVars, owed>>

Unlock ==
    /\ checking' = Free
    /\ testing' = {} /\ phase' = "test" /\ network' = 1
    /\ choice' = [outbound |-> None, exists |-> FALSE]
    /\ scheduler' = IF checking = "provider" THEN "again" ELSE scheduler

\* A check whose context has ended leaves the rest untested.
AbortCheck ==
    /\ checking # Free /\ phase = "test"
    /\ Unlock
    /\ UNCHANGED <<memberVars, history, pending, running, updateVars, owed>>

\* performUpdateCheck: updateAccess is held from here to the last store
LockUpdate ==
    /\ checking # Free /\ phase = "test" /\ testing = {}
    /\ phase' = "select" /\ network' = 1
    /\ UNCHANGED <<memberVars, history, checking, testing, choice, scheduleVars, updateVars, owed>>

Updating == phase \in {"select", "store"}

SelectMember ==
    /\ phase = "select"
    /\ choice' = Select(outbounds, selected[Networks[network]], Networks[network])
    /\ phase' = "store"
    /\ UNCHANGED <<memberVars, history, checking, testing, network, scheduleVars, updateVars, owed>>

Stored(net) ==
    IF choice.outbound # None /\ (selected[net] = None \/ choice.exists)
    THEN choice.outbound ELSE selected[net]

StoreMember ==
    /\ phase = "store"
    /\ selected' = [selected EXCEPT ![Networks[network]] = Stored(Networks[network])]
    /\ IF network < Len(Networks)
       THEN /\ network' = network + 1 /\ phase' = "select"
            /\ UNCHANGED <<checking, testing, choice, scheduler>>
       ELSE Unlock
    /\ UNCHANGED <<fallback, outbounds, history, pending, running,
                   updateVars, owed>>

\* The ticker's check and the tests on request (the API, a change of
\* interface, PostStart) give up when a check is running.
OtherCheck ==
    /\ Begin("other")
    /\ UNCHANGED <<memberVars, history, scheduleVars, updateVars>>

\* A failed dial forgets the result of the outbound, which may have been
\* the selected one of before.
FailedDial(n) ==
    /\ n \in DOMAIN history
    /\ Forget(n)
    /\ UNCHANGED <<memberVars, checkVars, scheduleVars, updateVars, owed>>
-----------------------------------------------------------------------------
(* Provider updates                                                        *)

CanReplaceAlways == TRUE   \* mutant: the members are replaced without updateAccess

CanReplace == ~Updating

replaceOutbounds(list) ==
    /\ updates < MaxUpdates /\ CanReplace
    /\ updates' = updates + 1 /\ unscheduled' = unscheduled + 1
    /\ outbounds' = list
    /\ selected' = [net \in ToSet(Networks) |->
                      IF selected[net] \in ToSet(list) THEN selected[net]
                      ELSE Select(list, None, net).outbound]
    /\ UNCHANGED <<fallback, history, checkVars, scheduleVars, owed>>

\* Only a group that is in use is checked.
Schedule(active) ==
    /\ unscheduled > 0
    /\ unscheduled' = unscheduled - 1
    /\ IF active
       THEN /\ pending' = TRUE /\ owed' = TRUE
            /\ running' = TRUE
            /\ scheduler' = IF running THEN scheduler ELSE "clear"
       ELSE UNCHANGED <<scheduleVars, owed>>
    /\ UNCHANGED <<memberVars, history, checkVars, updates>>

ClearPending ==
    /\ scheduler = "clear"
    /\ scheduler' = "wait" /\ pending' = FALSE
    /\ UNCHANGED <<memberVars, history, checkVars, running, updateVars, owed>>

ProviderCheck ==
    /\ scheduler = "wait"
    /\ Begin("provider")
    /\ scheduler' = "check"
    /\ UNCHANGED <<memberVars, history, pending, running, updateVars>>

CheckAgainNever ==   \* mutant: a request that came during the check is dropped
    /\ scheduler = "again"
    /\ scheduler' = "off" /\ running' = FALSE
    /\ UNCHANGED <<memberVars, history, checkVars, pending, updateVars, owed>>

CheckAgain ==
    /\ scheduler = "again"
    /\ IF pending THEN scheduler' = "clear" /\ UNCHANGED running
                  ELSE scheduler' = "off" /\ running' = FALSE
    /\ UNCHANGED <<memberVars, history, checkVars, pending, updateVars, owed>>
-----------------------------------------------------------------------------
CheckStep == (\E n \in Nodes : TestMember(n)) \/ LockUpdate \/ SelectMember \/ StoreMember

Next ==
    \/ CheckStep
    \/ AbortCheck
    \/ OtherCheck
    \/ \E n \in Nodes : FailedDial(n)
    \/ \E l \in Lists : replaceOutbounds(l)
    \/ \E active \in BOOLEAN : Schedule(active)
    \/ ClearPending \/ ProviderCheck \/ CheckAgain

\* Tests time out and goroutines run.  A waiter of a Go mutex is served in the end although others try for it too.
Fairness ==
    /\ WF_vars(CheckStep)
    /\ WF_vars(ClearPending) /\ WF_vars(CheckAgain) /\ SF_vars(ProviderCheck)
    /\ WF_vars(\E active \in BOOLEAN : Schedule(active))

Spec == Init /\ [][Next]_vars /\ Fairness
-----------------------------------------------------------------------------
(* Properties                                                              *)

\* The selected outbound of a network is a member of the group that serves
\* the network, whatever updates and checks ran at the same time.
SelectedIsMember ==
    \A net \in ToSet(Networks) :
        selected[net] = None \/ selected[net] \in ToSet(Supporting(outbounds, net))

Rated(net) == ToSet(Tested(outbounds, net))

\* No rated member is faster than n by more than the tolerance.
FastEnough(n, net) == \A m \in Rated(net) : history[n] <= history[m] + Tolerance

IsFastest(n, current, net) ==
    /\ n \in Rated(net) /\ FastEnough(n, net)
    /\ current \in Rated(net) /\ FastEnough(current, net) => n = current

\* The first member in the group's order, unless all of them are too slow
IsFallback(n, net) ==
    LET usable == {m \in Rated(net) : ~TooSlow(m)}
        place(m) == CHOOSE i \in DOMAIN outbounds : outbounds[i] = m
    IN  /\ n \in Rated(net)
        /\ IF usable # {} THEN n \in usable /\ \A m \in usable : place(n) <= place(m)
                         ELSE \A m \in Rated(net) : history[n] <= history[m]

Plain(net) == \A m \in Rated(net) : history[m] > 0 /\ history[m] + Tolerance < 65536

SelectsRight(net) ==
    IF Rated(net) = {} THEN ~choice'.exists
    ELSE IF fallback THEN IsFallback(choice'.outbound, net)
    ELSE IsFastest(choice'.outbound, selected[net], net)

\* What a check selects, among members whose delays are positive and do not
\* overflow with the tolerance: a rated member that none beats by more than
\* the tolerance, and another than the selected one only if that is beaten
\* so; in fallback mode, the first that is not too slow; and a member without
\* a result only if none has one.
SelectionRule ==
    [][phase = "select" /\ phase' = "store" /\ Plain(Networks[network])
         => SelectsRight(Networks[network])]_vars

\* A check that has loaded the members after the update follows every update
\* of a group in use, however many updates and other checks come in between.
UpdateIsChecked == owed ~> ~owed
=============================================================================
