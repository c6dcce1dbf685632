\* A TTL annotation that cannot be parsed.
SPECIFICATION Spec
CONSTANTS
    TTLs = {1}
    Invalid = Invalid
    NoTTL = NoTTL
    Annotations = {Invalid}
    Second = 1
    Latency = 1
    RequeueAfter = 2
    RequeueBlocked = 2
    MaxBackoff = 2
    MaxTime = 4
    MaxFaults = 0
    MaxErrors = 1
    MaxProjects = 1
    NoProject = NoProject
    Absent = Absent
PROPERTY LastTransition
CHECK_DEADLOCK FALSE
