\* One replica, all kinds of interference by others, one of them.
SPECIFICATION Spec
CONSTANTS
    Replicas = {r1}
    Owners = {u1, u2}
    NoOwner = NoOwner
    Absent = Absent
    NoProject = NoProject
    Digests <- MCDigests
    Wants <- MCWants
    Specs <- MCSpecs
    AdminClusterRole = "cluster-admin"
    ViewerClusterRole = "view"
    EnableClusterView = FALSE
    ForeignFinalizers = {}
    LeaderElect = TRUE
    Interference = {"delete", "edit", "relabel", "create", "stripFinalizer"}
    MaxFaults = 1
    MaxGeneration = 2
INVARIANTS
    TypeOK
PROPERTIES
    OnlyOwnObjectsTouched
CHECK_DEADLOCK FALSE
