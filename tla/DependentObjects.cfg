\* All specs with up to two names in each list, from two users and a group.
SPECIFICATION EditSpec
CONSTANTS
    Absent = Absent
    AdminClusterRole = "cluster-admin"
    ViewerClusterRole = "view"
    EnableClusterView = TRUE
    Users = {"alice", "bob"}
    Groups = {"team"}
    MaxLength = 2
INVARIANTS
    ClusterViewCoversBindings
    ClusterViewInOrder
PROPERTY
    EditsReachTheirObjects
