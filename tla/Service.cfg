\* One worker with its network probe, callbacks in any order around one stop().
CONSTANTS
    QueueCapacity = 1
    MaxItems = 2
    Connections = {k1, k2}
SPECIFICATION ProbeSpec
INVARIANTS WakeNotLost StopQuiesces CancelReachesCall AdmitsOnlyAllowed
PROPERTIES AcceptedIsHandled StopEndsWorker
CHECK_DEADLOCK FALSE
