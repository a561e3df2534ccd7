SPECIFICATION MCSpec
CONSTANTS
    Temps <- MCTemps
    Lines <- AllLines
    Archs = {"amd64", "i386", "aarch64", "riscv64"}
    MaxBody = 10
    AddImmediates <- MCAddImmediates
    MaxTrace = 4
CHECK_DEADLOCK FALSE
INVARIANTS
    CodeFollowsIr
    ControlSound
