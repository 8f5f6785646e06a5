CONSTANTS
    MaxEvents = 2
    Threads = {t1}
    NoThread = NoThread
    Modules = {a}
    NoModule = NoModule
    Functions = {f}
    Aggregates = {x}
    Additive = {c}
    LogStorages = {s}
    Macros = {k}
    Refused = {}
    Components = {{f, x, c, s, k}}
    MaxLoads = 2
SPECIFICATION Spec
INVARIANTS
    StoragesResolve
