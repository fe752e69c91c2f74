\* One torrent of five pieces, windows of two, under any caller, with deaths at any time.
CONSTANTS
    NPieces = 5
    MAX_PRIORITY_PIECES = 2
    MIN_START_PIECES = 1
    t1 = t1
    t2 = t2
    w1 = w1
    w2 = w2
    Torrents = {t1}
    Workers = {w1}
    Prefix <- MCPrefix
    NoTorrent = NoTorrent
    FileFirst = 0
    FileLast = 4
    Percents = {0}
    MaxImports = 2
    Faults = {"killMidImport", "loseWrites", "addFails"}
SPECIFICATION Spec
INVARIANTS
    TypeOK
    Bookkeeping
    NeverRunsDry
PROPERTIES
    DeliverySpec
CHECK_DEADLOCK FALSE
