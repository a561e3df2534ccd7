CONSTANTS
    MaxFd = 4
    MaxChunk = 2
    SizeMax = 3
    PrintCap = 3
    MayBeClosed = {1, 2}
    Used = {1}
    Lengths = {0, 3}
    Items <- SomeItems
    IntBits = 4
    LongBits = 6
    MaxRoom = 5
    WordBits = 15
    MantBits = 4
    MaxExp = 20
    ExpCap = 30
    Numbers <- SomeNumbers
    Bases = {10, 16}
    HeapStart = 3
    HeapLimit = 14
    MaxSize = 3
    MaxBlocks = 3
    WordSize = 2
    Grow = 4
    Scripts <- SomeScripts
    PathCap = 9
    LineCap = 20
    DirLen = 1
    Attempts = 2
    MaxCuts = 1
SPECIFICATION Spec
INVARIANTS
    StreamsKept
    ErrorExact
    WritesHonest
    FormatRight
    StrtodFaithful
    HeapSound
    ScriptFollowed
PROPERTIES
    CallsEnd
CHECK_DEADLOCK FALSE
