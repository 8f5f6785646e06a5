CONSTANTS
    Extensions = {a, b}
    Instances = {i1, i2, i3}
    NoInstance = NoInstance
    NoEntry = NoEntry
    MaxHandle = 3
    Threads = {t1, t2}
    NoThread = NoThread
    RawHandles = {}
    MaxCalls = 2
    MaxQueries = 1
    MaxPanics = 1
SPECIFICATION Spec
SYMMETRY Symmetry
INVARIANTS
    FunctionsResolve
    RoutedToOwner
    ServedWhileLive
    ShutdownUnreachable
PROPERTIES
    ImplementsLifecycle
