CONSTANTS
    Domains = {"d1", "d2", "d3"}
    Broadcast = 5
    Reserve = 2
    LateQueries = TRUE
    MaxPos = 4
    MaxCrashes = 1
    MaxFailures = 0
SPECIFICATION Spec
CHECK_DEADLOCK FALSE
INVARIANT NoMappingAhead
