SPECIFICATION FairSpec
CONSTANTS
    c1 = c1
    c2 = c2
    c3 = c3
    Conns <- Three
    MaxAuthed = 1
    MaxUnauthed = 2
    MaxPerWindow = 2
    Coalesce = 1
    Grace = 1
    Weekly = 2
    PruneAfter = 3
    MaxTasks = 1
    MaxTroubles = 1
INVARIANTS
    TypeOK
    AuthedBounded
    ReaperArmed
    PokesKept
PROPERTIES
    PendingFlushed
    Reaped
    KeepsPromise
