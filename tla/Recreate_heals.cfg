SPECIFICATION FairSpec
CONSTANTS
    Procs = {p1}
    Ids = {c1, c2, c3}
    NoId = NoId
    MaxDepth = 2
    MaxFaults = 1
    MaxCrashes = 1
    MayLose = TRUE
    MayExpire = FALSE
    RestartAlways = FALSE
    c1 = c1
    c2 = c2
    c3 = c3
    p1 = p1
INVARIANTS
    TypeOK
    AllOrNothing
    ProvenKeptInCalm
    OneAtATime
PROPERTIES
    NameComesBack
    OrphansCleared
    ServedAgain
    KeepsPromise
