\* Windows of two pieces in a torrent of five: a window ends inside the file,
\* at its end, and the file may end before the torrent does.
CONSTANTS
    NPieces = 5
    MAX_PRIORITY_PIECES = 2
    MIN_START_PIECES = 2
SPECIFICATION Spec
INVARIANTS
    TypeOK
    FirstGapRequested
    RequestsTheWindow
    RequestsOneWindow
    ReadyIsSound
PROPERTIES
    ScanStopsAtGap
    CallReturns
CHECK_DEADLOCK FALSE
