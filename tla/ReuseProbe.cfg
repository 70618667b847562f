CONSTANTS
    Dispatches = {"q1", "q2"}
    Probes = {"p1", "p2"}
    Deaths = {"d1", "d2"}
    MaxResets = 1
    Limit = 2
SPECIFICATION ProbeSpec
INVARIANTS SupportedIsProven FailuresHandled
PROPERTY ProbingEnds
