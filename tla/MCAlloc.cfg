SPECIFICATION AllocSpec
CONSTANTS
    Temps <- MCTemps
    Lines <- MCLines
    Archs = {"amd64", "i386"}
    MaxBody = 7
CHECK_DEADLOCK FALSE
INVARIANTS
    AllocTypeOK
    SlotsDisjoint
    FrameExact
    UsesExact
    WholeFunction
