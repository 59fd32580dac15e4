SPECIFICATION Spec
CONSTANTS
    Names = {pilot, mate, alien}
    Pilot = pilot
    ProjectOf <- TheProjects
    LabelChoices <- TheLabels
    ScopeChoices <- TheScopes
    None = None
    RepoOf <- TheRepos
    Repos = {repo, mirror}
    Digests = {a1, a2, m1}
    Absent = Absent
    Guarded = {repo}
    Private = {repo}
    Creds = {repo}
    DigestsOf <- TheDigests
    Contents = {c1, c2}
    KnownChoices <- TheKnown
    ContentOf <- TheContents
    Rank <- TheRanks
    MaxPushes = 1
    MaxReplaced = 1
    MaxFaults = 1
    pilot = pilot
    mate = mate
    alien = alien
    ours = ours
    theirs = theirs
    repo = repo
    mirror = mirror
    a1 = a1
    a2 = a2
    m1 = m1
    c1 = c1
    c2 = c2
INVARIANTS
    TypeOK
    KnowsItself
    SelfSpared
    ScopeKept
    NoPhantom
PROPERTIES
    NoChurn
