\* Fetches that fail or come late, a site that is not there, and a process that dies
\* during a fetch; two subtitle files in an archive.
CONSTANTS
    f1 = f1
    f2 = f2
    Films = {f1, f2}
    NoFilm = NoFilm
    Zip <- MCZipTwo
    Slots = {1}
    Races = {"late", "early"}
    Faults = {"fetchFails", "dies", "offline"}
SPECIFICATION Spec
INVARIANTS
    PlaysResumed
