SPECIFICATION Spec
CONSTANTS
    Procs = {p1}
    Ids = {c1, c2, c3}
    NoId = NoId
    MaxDepth = 2
    MaxFaults = 1
    MaxCrashes = 0
    MayLose = FALSE
    MayExpire = FALSE
    RestartAlways = FALSE
    c1 = c1
    c2 = c2
    c3 = c3
    p1 = p1
SYMMETRY IdSymmetry
INVARIANTS
    NoDowntimeLeft
