CONSTANTS
    Extensions = {a}
    Instances = {i1, i2, i3}
    NoInstance = NoInstance
    NoEntry = NoEntry
    MaxHandle = 3
    Threads = {t1, t2}
    NoThread = NoThread
    RawHandles = {1}
    MaxCalls = 1
    MaxQueries = 0
    MaxPanics = 0
SPECIFICATION Spec
SYMMETRY Symmetry
INVARIANTS
    LinkedToCurrent
PROPERTIES
    HandlesNeverRebind
