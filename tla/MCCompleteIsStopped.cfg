\* One film of two pieces, downloaded to its end.
CONSTANTS
    NPieces = 2
    MAX_PRIORITY_PIECES = 1
    MIN_START_PIECES = 1
    t1 = t1
    t2 = t2
    w1 = w1
    w2 = w2
    Torrents = {t1}
    Workers = {w1}
    Prefix <- MCPrefix
    Percents <- MCPercents
    NoTorrent = NoTorrent
    NoFile = NoFile
    Garbage = Garbage
    EmptyBody = EmptyBody
    Free = Free
    Bodies = {t1}
    FileFirst = 0
    FileLast = 1
    MaxImports = 1
    Faults = {}
    Races = {}
SPECIFICATION FairAppSpec
PROPERTIES
    CompleteIsStopped
