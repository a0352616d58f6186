SPECIFICATION Spec
CONSTANTS
    Threads  = {t1, t2}
    Handles  = {h1, h2, h3}
    NoHandle = NoHandle
SYMMETRY Symmetry
INVARIANTS
    TypeOK
    ReadsExact
    WarmCacheNotWritten
    ErrorIsOwn
    PointersLive
    HandlesAccounted
