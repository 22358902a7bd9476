SPECIFICATION HashSpec
CONSTANTS
    LaneCount = 2
    SegLength = 4
    Passes = 2
    RandRange = 32
    Chunk = 2
    BlockBytes = 3
    OutBytes = 4
    MaxMessage = 10
    Base = 3
    DifficultyBytes = 2
    DigestBytes = 5
    Pieces = {1, 2, 3, 5, 7}
    OutLengths = {1, 3, 4, 5, 6, 7, 8, 9, 12}
INVARIANTS
    TypeOK
    ReadsAsSequential
    ReferencesAllowed
    ResultOfAllLanes
    StreamAsOneMessage
    LongOutput
    CeilingIsNumeric
