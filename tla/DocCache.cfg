CONSTANTS
    Threads = {t1, t2, t3}
    NoThread = NoThread
    Names = {m, n}
    NoName = NoName
    NoGeneration = NoGeneration
    MaxLoads = 3
SPECIFICATION Spec
SYMMETRY Symmetry
INVARIANTS
    ReadsSeeReturnedLoads
    CacheCurrent
PROPERTIES
    ViewsAtomic
