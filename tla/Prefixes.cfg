CONSTANTS
    e1 = e1
    e2 = e2
    e3 = e3
    crypto = crypto
    geo = geo
    c = c
    d = d
    hash = hash
    agg = agg
    Entries = {e1, e2, e3}
    NoEntry = NoEntry
    Schemas = {crypto, geo, c, d}
    NoSchema = NoSchema
    Functions = {hash, agg}
    Offer <- OfferMC
    AggregateNames = {agg}
    NamespaceOf <- NamespaceMC
    Community = {e1, e2}
    Declarations <- DeclarationsMC
    MaxCalls = 5
    MaxFailures = 1
    MaxExits = 1
SPECIFICATION Spec
INVARIANTS
    AliasesLead
    KeptPrefixesServe
    ReplayMirrors
PROPERTIES
    DeclarationsStick
