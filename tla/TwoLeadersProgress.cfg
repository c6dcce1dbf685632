\* One project, two replicas without leader election; no symmetry, as liveness is checked.
SPECIFICATION FairSpec
CONSTANTS
    Replicas = {r1, r2}
    Owners = {u1}
    NoOwner = NoOwner
    Absent = Absent
    NoProject = NoProject
    Digests <- MCSmallDigests
    Wants <- MCSmallWants
    Specs <- MCOneSpec
    AdminClusterRole = "cluster-admin"
    ViewerClusterRole = "view"
    EnableClusterView = FALSE
    ForeignFinalizers = {}
    LeaderElect = FALSE
    Interference = {}
    MaxFaults = 0
    MaxGeneration = 2
PROPERTIES
    StatusDescribesGeneration
    DeletionCompletes
    EventuallyReady
CHECK_DEADLOCK FALSE
