\* One publication row, every operation of every client, an advancing clock.
CONSTANTS
    j1 = j1
    o1 = o1
    s1 = s1
    Jobs = {j1}
    Origins = {o1}
    Shas = {s1}
    KeyOf <- OneRowKey
    Paths = {p1}
    NoPath = NoPath
    Owners = {w1}
    Cleaners = {c1, c2}
    NoOwner = NoOwner
    Markers = {m1}
    NoMarker = NoMarker
    Remotes = {1}
    NoRemote = 0
    Tags = {t1}
    Intents = {i1, i2}
    LeaseMs = 1
    CleanupLeaseMs = 1
    MaxClock = 3
    MaxGen = 3
    MaxCleanupGen = 2
SPECIFICATION StoreSpec
INVARIANTS RowsValid OutcomesDurable DueWorkIsWoken
PROPERTIES KnownRemoteKept ExpiredLeaseFences JournalNeverRewound RemovalIsFinal
