\* Two calendars and two accounts, every command and the daemon in any interleaving.
CONSTANTS
    MaxCalendars = 2
    MaxGrants = 2
    MaxAttempts = 3
    MaxPages = 2
SPECIFICATION Spec
INVARIANTS CacheIsOwn DisconnectedIsClean
PROPERTIES SettledIsFinal StopEndsRefresh
CHECK_DEADLOCK FALSE
