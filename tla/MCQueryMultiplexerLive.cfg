CONSTANTS
    Queries = {q1, q2}
    Conns = {k1}
    NoConn = NoConn
    NoQuery = NoQuery
    IdCount = 1
    MaxOps = 1
    RetryReadError = TRUE
SPECIFICATION Spec
PROPERTIES EveryQueryAnswered
CHECK_DEADLOCK FALSE
