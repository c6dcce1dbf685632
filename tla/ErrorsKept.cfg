\* One failing call.
SPECIFICATION Spec
CONSTANTS
    TTLs = {1}
    Invalid = Invalid
    NoTTL = NoTTL
    Annotations = {NoTTL}
    Second = 1
    Latency = 1
    RequeueAfter = 2
    RequeueBlocked = 2
    MaxBackoff = 2
    MaxTime = 4
    MaxFaults = 1
    MaxErrors = 2
    MaxProjects = 1
    NoProject = NoProject
    Absent = Absent
PROPERTY ErrorsKept
CHECK_DEADLOCK FALSE
