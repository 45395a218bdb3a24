\* The removal of one recording under repeated faults, and nothing else at its path.
CONSTANTS
    j1 = j1
    j2 = j2
    o1 = o1
    o2 = o2
    s1 = s1
    Jobs = {j1}
    Origins = {o1, o2}
    Shas = {s1}
    KeyOf <- PairKeys
    Paths = {p1, p2}
    NoPath = NoPath
    Owners = {}
    Cleaners = {c1, c2}
    NoOwner = NoOwner
    Markers = {m1}
    NoMarker = NoMarker
    Remotes = {1}
    NoRemote = 0
    Tags = {}
    Intents = {i1}
    LeaseMs = 1
    CleanupLeaseMs = 1
    MaxClock = 4
    MaxGen = 2
    MaxCleanupGen = 7
    RecordingPath = p1
    NewPath = p2
    Media = media
    Sidecars = {f1, f2}
    NoFile = NoFile
    Original = Original
    Renamed = Renamed
    MaxFaults = 3
SPECIFICATION FairSpec
PROPERTY InterruptedRemovalFinishes
CHECK_DEADLOCK FALSE
