CONSTANTS
    Queries = {q1, q2}
    Conns = {k1, k2}
    NoConn = NoConn
    NoQuery = NoQuery
    IdCount = 2
    MaxOps = 1
    RetryReadError = TRUE
SYMMETRY Symmetry
SPECIFICATION Spec
CONSTRAINT NotAliased
INVARIANTS OneOwner AnswersMatch UsersAccounted
CHECK_DEADLOCK FALSE
