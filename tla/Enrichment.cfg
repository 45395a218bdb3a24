\* Two recordings that ask for one name, three meetings and two faults.
CONSTANTS
    r1 = r1
    r2 = r2
    f = f
    f2 = f2
    v = v
    v2 = v2
    w = w
    m1 = m1
    m2 = m2
    private = private
    Recordings = {r1, r2}
    Names = {f, f2, v, v2, w}
    Meetings = {m1, m2, private}
    Nothing = Nothing
    FallbackName <- MCFallback
    VisibleName <- MCVisible
    Candidates <- MCCandidates
    MaxFaults = 2
SPECIFICATION Spec
INVARIANTS RecordingsKept TargetStaysFree DiscoveryFindsOwn ReportIsTrue
PROPERTY TagsSurvive
CHECK_DEADLOCK FALSE
