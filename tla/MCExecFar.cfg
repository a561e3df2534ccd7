SPECIFICATION ExecSpec
CONSTANTS
    Temps <- MCTemps
    Lines <- FarLines
    Archs = {"aarch64"}
    MaxBody = 6
    AddImmediates <- MCAddImmediates
    MaxTrace = 4
CHECK_DEADLOCK FALSE
INVARIANTS
    CodeFollowsIr
