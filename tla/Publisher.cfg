\* One recording, two workers, a tag and two paths; leases of one clock step.
CONSTANTS
    j1 = j1
    o1 = o1
    s1 = s1
    Jobs = {j1}
    Origins = {o1}
    Shas = {s1}
    KeyOf <- OneRowKey
    Paths = {p1, p2}
    NoPath = NoPath
    Owners = {w1, w2}
    Cleaners = {}
    NoOwner = NoOwner
    Markers <- MCMarkers
    NoMarker = 0
    Remotes <- MCMarkers
    NoRemote = 0
    Tags = {t1}
    Intents = {}
    LeaseMs = 1
    CleanupLeaseMs = 1
    MaxClock = 3
    MaxGen = 3
    MaxCleanupGen = 0
    MaxMarkers = 2
    MaxRetries = 1
SPECIFICATION Spec
INVARIANTS NoUnauthorisedDuplicate RemoteIsOwnCopy
PROPERTY ImplementsLifecycle
SYMMETRY WorkerSymmetry
