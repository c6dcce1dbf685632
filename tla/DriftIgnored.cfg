\* Others edit one of the project's objects.
SPECIFICATION FairSpec
CONSTANTS
    Replicas = {r1}
    Owners = {u1}
    NoOwner = NoOwner
    Absent = Absent
    NoProject = NoProject
    Digests <- MCSmallDigests
    Wants <- MCSmallWants
    Specs <- MCSmallSpecs
    AdminClusterRole = "cluster-admin"
    ViewerClusterRole = "view"
    EnableClusterView = FALSE
    ForeignFinalizers = {}
    LeaderElect = TRUE
    Interference = {"edit"}
    MaxFaults = 1
    MaxGeneration = 2
PROPERTY DriftRepaired
CHECK_DEADLOCK FALSE
