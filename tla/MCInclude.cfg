SPECIFICATION MCSpec
CONSTANTS
    Files <- MCFiles
    Main = "a"
    Paths <- MCPaths
    Macros <- MCMacros
    Lines <- MCLines
    Defines <- MCDefines
    Resolve <- MCResolve
    MaxLines = 5
    MaxDepth = 3
CHECK_DEADLOCK FALSE
INVARIANTS
    TypeOK
    PassesAgree
    IncludesResolved
    ConditionalsClosed
    OneGroup
PROPERTY
    WalkEnds
