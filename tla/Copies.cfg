\* Two objects in an informer's store and two goroutines that copy and edit.
SPECIFICATION Spec
CONSTANTS
    v1 = v1
    v2 = v2
    u1 = u1
    u2 = u2
    d1 = d1
    d2 = d2
    Nil = Nil
    Cached <- TwoCached
    Users <- TwoUsers
    SpecFields = {"labels"}
    Data <- TwoData
    Present <- NewAndUsed
    MaxItems = 2
    MaxEdits = 1
SYMMETRY Symmetry
INVARIANTS
    TypeOK
    NoSharing
PROPERTY
    ImplementsValues
