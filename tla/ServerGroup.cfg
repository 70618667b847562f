CONSTANTS
    N = 4
    Original = 2
    Results = {"ok", "nxdomain", "error"}
    Accepted = {"ok"}
    CtxErr = "ctx"
    Members = {"a", "b", "local"}
    Local = "local"
    Scopes = 2
SPECIFICATION GroupSpec
CHECK_DEADLOCK FALSE
INVARIANTS NeverBlocked FailureIsUnanimous BestEffort BestNameWins
PROPERTY Answered
