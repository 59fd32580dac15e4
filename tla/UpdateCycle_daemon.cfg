SPECIFICATION Spec
CONSTANTS
    Procs = {daemon, viewer}
    Viewers = {viewer}
    OneShot = {viewer}
    File = File
    Services = {web, db}
    Images = {img1, img2}
    Digests = {d1, d2}
    Absent = Absent
    ImageOf <- OwnImages
    Soak <- SoakWeb
    Rank <- WebFirst
    MonitorOnly = {db}
    Self = {}
    Fixed = {}
    Broken = {d2}
    Doubtful = {d1}
    MayStop = {web}
    MaxAge = 1
    MaxPushes = 2
    MaxFaults = 0
    MaxCrashes = 1
    MaxDamage = 0
    web = web
    db = db
    img1 = img1
    img2 = img2
    daemon = daemon
    viewer = viewer
    d1 = d1
    d2 = d2
INVARIANTS
    TypeOK
    NotifiedOnce
PROPERTIES
    NeverRetried
    ViewersOnlyLook
