CONSTANTS
    Callers = {c1, c2}
    Conns = {k1, k2}
    MaxInflight = 1
    MaxResets = 1
    None = None
SPECIFICATION Spec
INVARIANTS OneUser SlotsExact NoLeak
PROPERTIES AcquireEnds
CHECK_DEADLOCK FALSE
