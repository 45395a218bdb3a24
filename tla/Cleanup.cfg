\* One recording, two cleanup commands, two journals, faults, and the application.
CONSTANTS
    j1 = j1
    j2 = j2
    o1 = o1
    o2 = o2
    s1 = s1
    Jobs = {j1, j2}
    Origins = {o1, o2}
    Shas = {s1}
    KeyOf <- PairKeys
    Paths = {p1, p2}
    NoPath = NoPath
    Owners = {}
    Cleaners = {c1, c2}
    NoOwner = NoOwner
    Markers = {m1}
    NoMarker = NoMarker
    Remotes = {1}
    NoRemote = 0
    Tags = {}
    Intents = {i1, i2}
    LeaseMs = 1
    CleanupLeaseMs = 1
    MaxClock = 2
    MaxGen = 2
    MaxCleanupGen = 2
    RecordingPath = p1
    NewPath = p2
    Media = media
    Sidecars = {f1, f2}
    NoFile = NoFile
    Original = Original
    Renamed = Renamed
    MaxFaults = 1
SPECIFICATION Spec
INVARIANTS MediaKept JournalMatchesDirectory JournalPinsMembers
PROPERTY StaleCommandNeverMutates
SYMMETRY CleanerSymmetry
CHECK_DEADLOCK FALSE
