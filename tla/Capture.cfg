\* One call after another, two applications, pauses, a lost stream.
CONSTANTS
    Apps = {zoom, teams}
    NoApp = NoApp
    NoTime = NoTime
    StartDebounce = 1
    StopDebounce = 2
    MinRecording = 2
    Portal = TRUE
    MaxClock = 7
    MaxSegments = 3
SPECIFICATION Spec
INVARIANTS TrimIsExact ElapsedMatchesTape LayoutsAgree
CHECK_DEADLOCK FALSE
