\* A worker paused inside its safe requeue while an operator retries the job.
CONSTANTS
    j1 = j1
    o1 = o1
    s1 = s1
    Jobs = {j1}
    Origins = {o1}
    Shas = {s1}
    KeyOf <- OneRowKey
    Paths = {p1}
    NoPath = NoPath
    Owners = {w1, w2}
    Cleaners = {}
    NoOwner = NoOwner
    Markers <- MCMarkers
    NoMarker = 0
    Remotes <- MCMarkers
    NoRemote = 0
    Tags = {}
    Intents = {}
    LeaseMs = 1
    CleanupLeaseMs = 1
    MaxClock = 3
    MaxGen = 4
    MaxCleanupGen = 0
    MaxMarkers = 2
    MaxRetries = 1
SPECIFICATION Spec
PROPERTY AutoRequeueOnlyUnsent
