SPECIFICATION FairSpec
CONSTANTS
    Procs = {daemon}
    Viewers = {}
    OneShot = {}
    File = File
    Services = {web}
    Images = {img1}
    Digests = {d1, d2, d3}
    Absent = Absent
    ImageOf <- OneImage
    Soak <- SoakOne
    Rank <- Alone
    MonitorOnly = {}
    Self = {}
    Fixed = {}
    Broken = {d2}
    Doubtful = {d3}
    MayStop = {web}
    MaxAge = 1
    MaxPushes = 2
    MaxFaults = 1
    MaxCrashes = 1
    MaxDamage = 1
    web = web
    db = db
    img1 = img1
    img2 = img2
    daemon = daemon
    d1 = d1
    d2 = d2
    d3 = d3
INVARIANTS
    SoakHonoured
PROPERTIES
    CatchesUp
