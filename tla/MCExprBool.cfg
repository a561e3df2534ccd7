SPECIFICATION Spec
CONSTANTS
    ByteBits = 2
    HostIntBytes = 4
    MemTop = 240
    Worlds <- FlagWorlds
CHECK_DEADLOCK FALSE
INVARIANTS
    BoolHoldsTruth
