\* Two films, one with subtitles; a film may be picked again while it is fetched.
CONSTANTS
    f1 = f1
    f2 = f2
    Films = {f1, f2}
    NoFilm = NoFilm
    Zip <- MCZip
    Slots = {1, 2}
    Races = {"again"}
    Faults = {}
SPECIFICATION FairFetches
INVARIANTS
    TypeOK
    ResumesWhatItShows
    LastFileIsWhole
    SubsAreOfTheFilm
PROPERTIES
    PickedIsImported
