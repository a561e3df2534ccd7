SPECIFICATION MCSpec
CONSTANTS
    Stmts <- AllStmts
    Names <- MCNames
    MaxStmts = 5
    MaxTrace = 5
CHECK_DEADLOCK FALSE
INVARIANTS
    ScopedFollowsSource
    BlocksClosed
    RefusedExactly
