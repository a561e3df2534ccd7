SPECIFICATION Spec
CONSTANTS
    NoFile = NoFile
    Chars <- MCChars
    MaxHandles = 2
    MaxObufs = 2
    FirstCap = 2
    Files <- MCFiles
    ClientFiles <- MCClientFiles
    ClientTexts <- MCClientTexts
    ClientMax = 2
    Values <- MCValues
    Code <- MCCode
    Literal <- MCLiteral
    RefusedByCpp = {"!"}
    RefusedEarly = {"g"}
    RefusedLate = {"x"}
    Cwd <- MCCwd
    LineCap = 10
    Sources <- MCSources
    Paths <- MCPaths
    HandWritten <- MCHandWritten
    MaxTries = 2
    MaxFaults <- MCMaxFaults
INVARIANTS
    InBounds
    FilesFaithful
    EndToEnd
PROPERTIES
    ProgramsPublish
    SourceIntact
    BuildEnds
CHECK_DEADLOCK FALSE
