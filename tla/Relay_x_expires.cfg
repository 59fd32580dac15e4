SPECIFICATION Spec
CONSTANTS
    c1 = c1
    c2 = c2
    c3 = c3
    Conns <- Two
    MaxAuthed = 1
    MaxUnauthed = 2
    MaxPerWindow = 2
    Coalesce = 1
    Grace = 1
    Weekly = 2
    PruneAfter = 4
    MaxTasks = 1
    MaxTroubles = 1
INVARIANTS
    RecordOutlives
