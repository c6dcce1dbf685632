\* Two contexts: the informer that a call waits for may have been stopped by the
\* context of another.
SPECIFICATION FairSpec
CONSTANTS
    Types = {t1}
    Informers = {i1, i2}
    Callers = {c1, c2}
    Contexts = {x1, x2}
    None = None
PROPERTIES
    WaitForCacheSyncReturns
