SPECIFICATION StmtExecSpec
CONSTANTS
    Stmts <- JumpStmts
    Names <- MCNames
    MaxStmts = 4
    MaxTrace = 5
CHECK_DEADLOCK FALSE
PROPERTIES
    BlocksCatchUp
