\* Two calls, a portal that answers in any order, a tag request, a rival process.
CONSTANTS
    MaxCalls = 2
    MaxRequests = 1
    Portal = TRUE
    MaxRefusals = 1
SPECIFICATION FairSpec
INVARIANTS ReservationsExact TagsAreChosen ConsentIsOwn StreamOutlivesCapture
PROPERTIES PendingResolves HandlesReported
CHECK_DEADLOCK FALSE
