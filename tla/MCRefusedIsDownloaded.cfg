\* Two films; a tick may be under way when the first is closed.
CONSTANTS
    NPieces = 2
    MAX_PRIORITY_PIECES = 1
    MIN_START_PIECES = 1
    t1 = t1
    t2 = t2
    w1 = w1
    w2 = w2
    Torrents = {t1, t2}
    Workers = {w1}
    Prefix <- MCPrefix
    Percents <- MCPercents
    NoTorrent = NoTorrent
    NoFile = NoFile
    Garbage = Garbage
    EmptyBody = EmptyBody
    Free = Free
    Bodies = {t1, t2}
    FileFirst = 0
    FileLast = 1
    MaxImports = 2
    Faults = {}
    Races = {"lateTick"}
SPECIFICATION AppSpec
PROPERTIES
    RefusedIsDownloaded
