CONSTANTS
    s1 = s1
    s2 = s2
    u = u
    p1 = p1
    p2 = p2
    Sessions = {s1}
    Unknown = u
    Synths = {p1}
    MaxEvents = 2
    MinEvents = 1
    HeadLimit = 1
    TailLimit = 0
    BatchLimit = 1
    WedgeSkips = 2
    BackoffCap = 0
    MaxFaults = 1
    MaxCrashes = 1
    MaxManual = 1
    MaxClears = 0
    LockMayAge = TRUE
SPECIFICATION Spec
INVARIANTS TypeOK ExclusionUnlessReclaimed WedgeReportedOnce RetiredEventsAccounted OneDaemonSummary
CHECK_DEADLOCK FALSE
