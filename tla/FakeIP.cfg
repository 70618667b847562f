CONSTANTS
    Domains = {"d1", "d2", "d3", "d4"}
    Broadcast = 5
    Reserve = 2
    LateQueries = FALSE
    MaxPos = 6
    MaxCrashes = 2
    MaxFailures = 1
SPECIFICATION Spec
CHECK_DEADLOCK FALSE
INVARIANTS NoMappingAhead DiskConsistent AnswerLeadsBack ReservedFirst
