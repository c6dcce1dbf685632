\* The project is replaced by a manifest without the operator's finalizer.
SPECIFICATION Spec
CONSTANTS
    Replicas = {r1}
    Owners = {u1}
    NoOwner = NoOwner
    Absent = Absent
    NoProject = NoProject
    Digests <- MCSmallDigests
    Wants <- MCSmallWants
    Specs <- MCSmallSpecs
    AdminClusterRole = "cluster-admin"
    ViewerClusterRole = "view"
    EnableClusterView = FALSE
    ForeignFinalizers = {}
    LeaderElect = TRUE
    Interference = {"stripFinalizer"}
    MaxFaults = 0
    MaxGeneration = 2
INVARIANT ReadyMeansDeployed
CHECK_DEADLOCK FALSE
