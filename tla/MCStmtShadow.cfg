SPECIFICATION StmtExecSpec
CONSTANTS
    Stmts <- ShadowStmts
    Names <- MCNames
    MaxStmts = 5
    MaxTrace = 5
CHECK_DEADLOCK FALSE
INVARIANTS
    LoweredFollowsSource
