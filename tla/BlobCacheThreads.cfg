CONSTANTS
    Processes = {p}
    Workers = {w1, w2, w3}
    NoWorker = NoWorker
    Names = {n}
    NoName = NoName
    Digests = {d, e}
    NoDigest = NoDigest
    NoCatalog = NoCatalog
    Files = {f1, f2, f3}
    NoFile = NoFile
    NBlocks = 2
    MaxRequests = 4
    MaxCrashes = 1
SPECIFICATION FairSpec
INVARIANTS
    ReadersSeeWhole
    FetchedOnce
    OneCatalog
    OnlyVerified
PROPERTIES
    ImplementsStore
    RequestsReturn
