\* One replica, up to two failures or deletions of its objects by others.
SPECIFICATION FairSpec
CONSTANTS
    Replicas = {r1}
    Owners = {u1}
    NoOwner = NoOwner
    Absent = Absent
    NoProject = NoProject
    Digests <- MCSmallDigests
    Wants <- MCSmallWants
    Specs <- MCSmallSpecs
    AdminClusterRole = "cluster-admin"
    ViewerClusterRole = "view"
    EnableClusterView = FALSE
    ForeignFinalizers = {"foreign"}
    LeaderElect = TRUE
    Interference = {"delete"}
    MaxFaults = 2
    MaxGeneration = 2
PROPERTIES
    DeletionCompletes
    EventuallyReady
CHECK_DEADLOCK FALSE
