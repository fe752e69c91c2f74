\* Three tracks of subtitles, two threads, a start of three pieces.
CONSTANTS
    w1 = w1
    w2 = w2
    Workers = {w1, w2}
    off = off
    en = en
    fr = fr
    Tracks = {off, en, fr}
    NoTrack = NoTrack
    StartPieces = 3
    BlocksPerPercent = 1
    MaxPieces = 3
    MaxPosts = 2
SPECIFICATION Spec
INVARIANTS
    TypeOK
    StatusBarFollows
PROPERTIES
    CanBeClosed
    PicksTheTrack
    ProgressIsReal
