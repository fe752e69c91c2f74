\* A film and a file that is none, two threads of ticks, which may be under way
\* when a film is closed or fetched, and deaths in the middle of an import.
CONSTANTS
    NPieces = 2
    MAX_PRIORITY_PIECES = 1
    MIN_START_PIECES = 1
    t1 = t1
    t2 = t2
    w1 = w1
    w2 = w2
    Torrents = {t1}
    Workers = {w1, w2}
    Prefix <- MCPrefix
    Percents <- MCPercents
    NoTorrent = NoTorrent
    NoFile = NoFile
    Garbage = Garbage
    EmptyBody = EmptyBody
    Free = Free
    Bodies = {t1, Garbage}
    FileFirst = 0
    FileLast = 1
    MaxImports = 2
    Faults = {"killMidImport"}
    Races = {"lateTick"}
SPECIFICATION FairThreads
INVARIANTS
    NoOrphan
PROPERTIES
    CloseReturns
    EngineSpec
