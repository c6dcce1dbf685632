\* Two replicas with leader election, two projects of one name, two faults.
SPECIFICATION Spec
CONSTANTS
    Replicas = {r1, r2}
    Owners = {u1, u2}
    NoOwner = NoOwner
    Absent = Absent
    NoProject = NoProject
    Digests <- MCDigests
    Wants <- MCWants
    Specs <- MCSpecs
    AdminClusterRole = "cluster-admin"
    ViewerClusterRole = "view"
    EnableClusterView = FALSE
    ForeignFinalizers = {"foreign"}
    LeaderElect = TRUE
    Interference = {}
    MaxFaults = 2
    MaxGeneration = 2
INVARIANTS
    FinalizerProtects
    ReadyMeansDeployed
    NeverForgotten
PROPERTIES
    StatusDescribesGeneration
    ImplementsLifecycle
CHECK_DEADLOCK FALSE
