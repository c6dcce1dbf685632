\* Others create one object of the project's names.
SPECIFICATION Spec
CONSTANTS
    Replicas = {r1}
    Owners = {u1}
    NoOwner = NoOwner
    Absent = Absent
    NoProject = NoProject
    Digests <- MCSmallDigests
    Wants <- MCSmallWants
    Specs <- MCSmallSpecs
    AdminClusterRole = "cluster-admin"
    ViewerClusterRole = "view"
    EnableClusterView = FALSE
    ForeignFinalizers = {}
    LeaderElect = TRUE
    Interference = {"create"}
    MaxFaults = 1
    MaxGeneration = 2
INVARIANT BindingsInOwnNamespace
CHECK_DEADLOCK FALSE
