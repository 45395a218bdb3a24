\* One call is enough: the portal answers CreateSession after the recording has given up on it.
CONSTANTS
    MaxCalls = 1
    MaxRequests = 0
    Portal = TRUE
    MaxRefusals = 0
SPECIFICATION FairSpec
INVARIANTS NoOrphanStream
CHECK_DEADLOCK FALSE
