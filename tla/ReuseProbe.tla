----------------------------- MODULE ReuseProbe -----------------------------
(***************************************************************************)
(* dns/transport/multiplexer.go with options.probeReuse = true: before it  *)
(* shares connections the multiplexer probes whether the server answers    *)
(* two queries on one connection, and it stops sharing when connections    *)
(* keep dying with queries on them.                                        *)
(*                                                                         *)
(* reuseState and demoteFailures are atomics that are read outside the     *)
(* lock, so every load, store and critical section is a step of its own.   *)
(* What happens on a shared connection is in QueryMultiplexer.             *)
(***************************************************************************)
EXTENDS Naturals, FiniteSets

CONSTANTS
    Dispatches,     \* calls of dispatch
    Probes,      \* identities of running probes
    Deaths,      \* calls of recordConnDeath
    MaxResets,   \* bound: calls of Reset
    Limit        \* reuseDemoteFailureLimit

ASSUME ProbeAssumption == Limit \in Nat \ {0} /\ IsFiniteSet(Deaths)

VARIABLES
    reuseState,      \* m.reuseState
    probeEpoch,      \* m.probeEpoch
    recent,          \* lastProbeTime is less than reuseProbeRetryInterval ago
    demoteFailures,  \* m.demoteFailures
    qpc,             \* progress of each query
    probe,           \* each probe: progress, epoch, answers seen, result
    dpc,             \* progress of each recordConnDeath
    clearing,        \* Resets that have still to clear demoteFailures
    resets,          \* Resets so far
    proof            \* resets at the start of the probe that last succeeded

muxVars == <<reuseState, probeEpoch, recent, demoteFailures>>
probeVars == <<muxVars, qpc, probe, dpc, clearing, resets, proof>>

States == {"unknown", "probing", "supported", "unsupported"}
ProbeKinds == {"A", "AAAA"}
NoProbe == [pc |-> "none", epoch |-> 0, started |-> 0, seen |-> {}, outcome |-> "none"]

ProbeInit ==
    /\ reuseState = "unknown"
    /\ probeEpoch = 0
    /\ recent = FALSE
    /\ demoteFailures = 0
    /\ qpc = [q \in Dispatches |-> "idle"]
    /\ probe = [p \in Probes |-> NoProbe]
    /\ dpc = [d \in Deaths |-> "idle"]
    /\ clearing = 0
    /\ resets = 0
    /\ proof = 0

-----------------------------------------------------------------------------
(* dispatch, maybeStartProbe and exchangeSingle                            *)

QueryAt(q, from, to) == qpc[q] = from /\ qpc' = [qpc EXCEPT ![q] = to]

\* The state is read without the lock.
Dispatch(q) ==
    /\ reuseState # "supported"
    /\ QueryAt(q, "idle", "probe")
    /\ UNCHANGED <<muxVars, probe, dpc, clearing, resets, proof>>

StartProbe(q) ==
    /\ QueryAt(q, "probe", "single")
    /\ reuseState # "probing" /\ ~recent
    /\ reuseState' = "probing"
    /\ recent' = TRUE
    /\ \E p \in Probes :
          /\ probe[p].pc = "none"
          /\ probe' = [probe EXCEPT ![p] = [NoProbe EXCEPT !.pc = "dial", !.epoch = probeEpoch, !.started = resets]]
    /\ UNCHANGED <<probeEpoch, demoteFailures, dpc, clearing, resets, proof>>

\* Another probe runs or ran recently, or the message has no question.
SkipProbe(q) ==
    /\ QueryAt(q, "probe", "single")
    /\ UNCHANGED <<muxVars, probe, dpc, clearing, resets, proof>>

\* exchangeSingle on a connection of its own ends with an answer, a dial,
\* write or read error, or the end of the context, which closes the connection.
ExchangeSingle(q) ==
    /\ QueryAt(q, "single", "idle")
    /\ UNCHANGED <<muxVars, probe, dpc, clearing, resets, proof>>

-----------------------------------------------------------------------------
(* executeReuseProbe and runReuseProbe                                     *)

ProbeDial(p) ==
    /\ probe[p].pc = "dial"
    /\ \/ probe' = [probe EXCEPT ![p].pc = "read"]
       \/ probe' = [probe EXCEPT ![p].pc = "apply", ![p].outcome = "dialFailed"]
    /\ UNCHANGED <<muxVars, qpc, dpc, clearing, resets, proof>>

\* An answer to one of the two queries; both together prove the reuse.
ProbeAnswer(p) ==
    /\ probe[p].pc = "read"
    /\ \E kind \in ProbeKinds :
          LET seen == probe[p].seen \cup {kind}
          IN  probe' = [probe EXCEPT ![p] =
                 IF seen = ProbeKinds THEN [@ EXCEPT !.pc = "apply", !.seen = {}, !.outcome = "supported"]
                                      ELSE [@ EXCEPT !.seen = seen]]
    /\ UNCHANGED <<muxVars, qpc, dpc, clearing, resets, proof>>

ProbeFailSilent(p) ==   \* mutant: a failed probe returns without reporting
    /\ probe[p].pc = "read"
    /\ probe' = [probe EXCEPT ![p] = NoProbe]
    /\ UNCHANGED <<muxVars, qpc, dpc, clearing, resets, proof>>

\* A write or read error, or reuseProbeTimeout.
ProbeFail(p) ==
    /\ probe[p].pc = "read"
    /\ probe' = [probe EXCEPT ![p].pc = "apply", ![p].seen = {}, ![p].outcome = "failed"]
    /\ UNCHANGED <<muxVars, qpc, dpc, clearing, resets, proof>>

ProbeEnd(p) == probe[p].pc = "apply" /\ probe' = [probe EXCEPT ![p] = NoProbe]

\* Reset came in between: the result says nothing about the new network.
ApplyStale(p) ==
    /\ ProbeEnd(p) /\ probe[p].epoch # probeEpoch
    /\ UNCHANGED <<muxVars, qpc, dpc, clearing, resets, proof>>

ApplyAny(p) ==   \* mutant: does not look at the epoch
    /\ ProbeEnd(p)
    /\ reuseState' = CASE probe[p].outcome = "supported" -> "supported"
                       [] probe[p].outcome = "dialFailed" -> "unknown"
                       [] OTHER -> "unsupported"
    /\ proof' = IF reuseState' = "supported" THEN probe[p].started ELSE proof
    /\ UNCHANGED <<probeEpoch, recent, demoteFailures, qpc, dpc, clearing, resets>>

Apply(p) ==
    /\ ProbeEnd(p) /\ probe[p].epoch = probeEpoch
    /\ reuseState' = CASE probe[p].outcome = "supported" -> "supported"
                       [] probe[p].outcome = "dialFailed" -> "unknown"
                       [] OTHER -> "unsupported"
    /\ demoteFailures' = IF reuseState' = "supported" THEN 0 ELSE demoteFailures
    /\ proof' = IF reuseState' = "supported" THEN probe[p].started ELSE proof
    /\ UNCHANGED <<probeEpoch, recent, qpc, dpc, clearing, resets>>

-----------------------------------------------------------------------------
(* recordConnDeath, when the read loop of a shared connection fails        *)

DeathAt(d, from, to) == dpc[d] = from /\ dpc' = [dpc EXCEPT ![d] = to]

\* The state is read without the lock; the connection had answered before.
DeathLoad(d) ==
    /\ reuseState = "supported"
    /\ DeathAt(d, "idle", "count")
    /\ UNCHANGED <<muxVars, qpc, probe, clearing, resets, proof>>

\* Count the queries on the connection; an idle one may close.
DeathCount(d) ==
    /\ \/ DeathAt(d, "count", "idle") /\ demoteFailures' = 0
       \/ DeathAt(d, "count", "add") /\ UNCHANGED demoteFailures
    /\ UNCHANGED <<reuseState, probeEpoch, recent, qpc, probe, clearing, resets, proof>>

DeathAdd(d) ==
    /\ DeathAt(d, "add", IF demoteFailures + 1 < Limit THEN "idle" ELSE "demote")
    /\ demoteFailures' = demoteFailures + 1
    /\ UNCHANGED <<reuseState, probeEpoch, recent, qpc, probe, clearing, resets, proof>>

DeathDemote(d) ==
    /\ DeathAt(d, "demote", "clear")
    /\ IF reuseState = "supported"
       THEN reuseState' = "unsupported" /\ recent' = TRUE
       ELSE UNCHANGED <<reuseState, recent>>
    /\ UNCHANGED <<probeEpoch, demoteFailures, qpc, probe, clearing, resets, proof>>

DeathUncleared(d) ==   \* mutant: the counter keeps its value after a demotion
    /\ DeathAt(d, "clear", "idle")
    /\ UNCHANGED <<muxVars, qpc, probe, clearing, resets, proof>>

DeathClear(d) ==
    /\ DeathAt(d, "clear", "idle")
    /\ demoteFailures' = 0
    /\ UNCHANGED <<reuseState, probeEpoch, recent, qpc, probe, clearing, resets, proof>>

-----------------------------------------------------------------------------
(* Reset: a critical section, then the counter                             *)

Reset ==
    /\ resets < MaxResets
    /\ resets' = resets + 1
    /\ probeEpoch' = probeEpoch + 1
    /\ reuseState' = "unknown"
    /\ recent' = FALSE
    /\ clearing' = clearing + 1
    /\ UNCHANGED <<demoteFailures, qpc, probe, dpc, proof>>

ResetClear ==
    /\ clearing > 0
    /\ clearing' = clearing - 1
    /\ demoteFailures' = 0
    /\ UNCHANGED <<reuseState, probeEpoch, recent, qpc, probe, dpc, resets, proof>>

\* reuseProbeRetryInterval passes.
Elapse ==
    /\ recent
    /\ recent' = FALSE
    /\ UNCHANGED <<reuseState, probeEpoch, demoteFailures, qpc, probe, dpc, clearing, resets, proof>>

ProbeStep(p) == ProbeDial(p) \/ ProbeAnswer(p) \/ ProbeFail(p) \/ ApplyStale(p) \/ Apply(p)

ProbeNext ==
    \/ \E q \in Dispatches : Dispatch(q) \/ StartProbe(q) \/ SkipProbe(q) \/ ExchangeSingle(q)
    \/ \E p \in Probes : ProbeStep(p)
    \/ \E d \in Deaths : DeathLoad(d) \/ DeathCount(d) \/ DeathAdd(d) \/ DeathDemote(d) \/ DeathClear(d)
    \/ Reset \/ ResetClear \/ Elapse

\* A probe is bounded by reuseProbeTimeout.
ProbeSpec == ProbeInit /\ [][ProbeNext]_probeVars /\ \A p \in Probes : WF_probeVars(ProbeStep(p))

-----------------------------------------------------------------------------
(* Properties                                                              *)

\* Connections are only shared on the word of a probe that began after the
\* last Reset, whatever older probes report in the meantime.
SupportedIsProven == reuseState = "supported" => proof = resets

\* The counter stays below the limit but for the failures of the calls of
\* recordConnDeath that are on their way to demote and to clear it: it never
\* rests at the limit, where the next failure after a new probe would demote.
FailuresHandled ==
    demoteFailures < Limit + Cardinality({d \in Deaths : dpc[d] \in {"demote", "clear"}})

\* A probe always comes to a result.
ProbingEnds == reuseState = "probing" ~> reuseState # "probing"
=============================================================================
