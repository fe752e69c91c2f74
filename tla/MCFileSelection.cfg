\* Three files of up to five bytes, pieces of three: files share pieces, span
\* them, are empty or padding.
CONSTANTS
    Sizes = {0, 1, 4, 5}
    MaxSize = 5
    PieceLength = 3
    MaxFiles = 3
SPECIFICATION Spec
INVARIANTS
    TypeOK
    SelectsFilm
    CoversFile
CHECK_DEADLOCK FALSE
