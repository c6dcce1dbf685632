\* Three ticks a second, two projects of the same name, TTLs of both signs,
\* none and ones that cannot be parsed.
SPECIFICATION Spec
CONSTANTS
    TTLs <- MCTTLs
    Invalid = Invalid
    NoTTL = NoTTL
    Annotations <- MCAnnotations
    Second = 3
    Latency = 1
    RequeueAfter = 3
    RequeueBlocked = 3
    MaxBackoff = 4
    MaxTime = 7
    MaxFaults = 1
    MaxErrors = 1
    MaxProjects = 2
    NoProject = NoProject
    Absent = Absent
INVARIANTS
    TypeOK
    ExpiryReported
    ExpiryNotEarly
    SeriesEnd
PROPERTIES
    TransitionTime
VIEW MCView
CHECK_DEADLOCK FALSE
