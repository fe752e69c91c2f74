\* Two films and an empty file; ticks end before the user acts.
CONSTANTS
    NPieces = 4
    MAX_PRIORITY_PIECES = 1
    MIN_START_PIECES = 2
    t1 = t1
    t2 = t2
    w1 = w1
    w2 = w2
    Torrents = {t1, t2}
    Workers = {w1}
    Prefix <- MCPrefix
    Percents <- MCPercents
    NoTorrent = NoTorrent
    NoFile = NoFile
    Garbage = Garbage
    EmptyBody = EmptyBody
    Free = Free
    Bodies = {t1, t2, Garbage, EmptyBody}
    FileFirst = 0
    FileLast = 3
    MaxImports = 2
    Faults = {"addFails"}
    Races = {}
SPECIFICATION FairAppSpec
INVARIANTS
    AppTypeOK
    ActiveHasTorrent
    PercentIsReal
    ResumeIsSound
    ReadyIsOnDisk
PROPERTIES
    PlayerHasFilm
    Watchable
