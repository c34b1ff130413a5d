CONSTANTS
    s1 = s1
    s2 = s2
    u = u
    p1 = p1
    p2 = p2
    Sessions = {s1}
    Unknown = u
    Synths = {}
    MaxEvents = 1
    MinEvents = 2
    HeadLimit = 1
    TailLimit = 1
    BatchLimit = 1
    WedgeSkips = 2
    BackoffCap = 2
    MaxFaults = 1
    MaxCrashes = 0
    MaxManual = 0
    MaxClears = 0
    LockMayAge = FALSE
SPECIFICATION FairSpec
PROPERTY EndedSessionsDistilled
CHECK_DEADLOCK FALSE
