SPECIFICATION Spec
CONSTANTS
    ByteBits = 2
    HostIntBytes = 4
    MemTop = 240
    Worlds <- MCWorlds
CHECK_DEADLOCK FALSE
INVARIANTS
    ValueAgrees
    ObjectsAgree
    TypesSound
    FoldAgrees
