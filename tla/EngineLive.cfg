CONSTANTS
    Extensions = {a}
    Instances = {i1, i2}
    NoInstance = NoInstance
    NoEntry = NoEntry
    MaxHandle = 2
    Threads = {t1, t2}
    NoThread = NoThread
    RawHandles = {}
    MaxCalls = 2
    MaxQueries = 2
    MaxPanics = 1
SPECIFICATION FairSpec
INVARIANTS
    NoCircularWait
PROPERTIES
    CallsReturn
    LoadsReturn
    ReplacedIsShutDown
