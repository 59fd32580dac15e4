SPECIFICATION FairSpec
CONSTANTS
    Conns = {c1, c2}
    Keys = {k1, k2}
    Ids = {i1, i2}
    None = None
    Coalesce = 1
    Debounce = 2
    Triggers <- TheTriggers
    ShutdownWait = 1
    QuickRestart = FALSE
    MaxLogins = 1
    MaxInbox = 2
    MaxUpdates = 0
    MaxWaiting = 1
    MaxPokes = 2
    MaxTroubles = 1
INVARIANTS
    TypeOK
    PokesRemembered
    IdentityKept
PROPERTIES
    PokesAnswered
