CONSTANTS
    MaxEvents = 2
    Threads = {t1, t2}
    NoThread = NoThread
    Modules = {a, b}
    NoModule = NoModule
    Functions = {f}
    Aggregates = {x, y}
    Additive = {c}
    LogStorages = {s}
    Macros = {k}
    Refused = {k}
    Components = {{x, y}, {f, c, s, k}}
    MaxLoads = 3
SPECIFICATION FairSpec
INVARIANTS
    ListedCallable
    CountsServed
    RecordCurrent
    OneHandlePerStorage
    StoragesKeepEntry
    LogContiguous
PROPERTIES
    LoadsReturn
