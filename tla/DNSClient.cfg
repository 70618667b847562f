CONSTANTS
    Queries = {"q1", "q2"}
    None = None
    Envs = {0, 1, 2}
    Lookups = {"q1"}
    Asyncs = {"q2"}
    Checked = {"q2"}
    Impatient = {"q1"}
SPECIFICATION Spec
CHECK_DEADLOCK FALSE
INVARIANTS OwnEnvironment LocksExact
PROPERTY EveryQueryEnds
