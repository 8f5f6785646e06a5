CONSTANTS
    Extensions = {a, b}
    Instances = {i1, i2}
    NoInstance = NoInstance
    NoEntry = NoEntry
    MaxHandle = 3
    Threads = {t1, t2}
    NoThread = NoThread
    RawHandles = {1}
    MaxCalls = 2
    MaxQueries = 0
    MaxPanics = 0
SPECIFICATION Spec
SYMMETRY Symmetry
INVARIANTS
    RoutedToOwner
