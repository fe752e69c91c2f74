\* A film of four pieces, one of them the margin; seeks, films closed and resumed.
CONSTANTS
    NPieces = 4
    MAX_PRIORITY_PIECES = 1
    MIN_START_PIECES = 2
    SafetyTime = 1
    Reserve = 1
    Ahead = 1
    MaxEvents = 2
    MaxDrags = 1
    User = {"drag", "close"}
    Late = {}
    NoTick = NoTick
SPECIFICATION FairPlayback
INVARIANTS
    TypeOK
PROPERTIES
    BufferingEnds
CHECK_DEADLOCK FALSE
