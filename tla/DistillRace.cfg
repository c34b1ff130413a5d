CONSTANTS
    s1 = s1
    s2 = s2
    u = u
    p1 = p1
    p2 = p2
    Sessions = {s1}
    Unknown = u
    Synths = {}
    MaxEvents = 2
    MinEvents = 1
    HeadLimit = 1
    TailLimit = 0
    BatchLimit = 1
    WedgeSkips = 2
    BackoffCap = 0
    MaxFaults = 0
    MaxCrashes = 0
    MaxManual = 1
    MaxClears = 0
    LockMayAge = FALSE
SPECIFICATION Spec
INVARIANT DistillersExclude
CHECK_DEADLOCK FALSE
