\* Three replicas with leader election.
SPECIFICATION Spec
CONSTANTS
    r1 = r1
    r2 = r2
    r3 = r3
    Replicas <- ThreeReplicas
    Nobody = Nobody
    Gone = Gone
    LeaderElect = TRUE
    LeaseDuration = 2
    RenewDeadline = 1
INVARIANTS
    TypeOK
    OneActive
PROPERTIES
    SomebodyLeads
    StopEnds
