SPECIFICATION Spec
CONSTANTS
    Byte = 2
    Operands <- MCOperands
    Offsets <- MCOffsets
    Slots <- MCSlots
    Ops <- MCOps
INVARIANTS
    OperationsMean
    ControlExact
    OperandsArrive
    BytesExact
PROPERTY
    FragmentEnds
CHECK_DEADLOCK FALSE
