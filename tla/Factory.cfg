\* Goroutines that start, wait and shut down; no symmetry, as liveness is checked.
SPECIFICATION FairSpec
CONSTANTS
    Types = {t1, t2}
    Informers = {i1, i2}
    Callers = {c1, c2}
    Contexts = {x1}
    None = None
INVARIANTS
    TypeOK
    OneInformerPerType
    ShutdownBlocks
    SyncCoversStarted
    FailureHasCause
PROPERTIES
    ImplementsLifecycle
    ShutdownReturns
    WaitForCacheSyncReturns
