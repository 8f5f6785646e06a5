CONSTANTS
    pi = pi
    upper = upper
    divide = divide
    flatten = flatten
    over = over
    ex = ex
    cast = cast
    range = range
    int = int
    uuid = uuid
    list = list
    Functions = {pi, upper, divide, flatten, over, ex, cast, range}
    Surface <- SurfaceMC
    Overloaded = {over}
    Takes <- TakesMC
    Returns <- ReturnsMC
    Types = {int, uuid, list}
    Wide = {uuid}
    Nested = {list}
    Bindable = {int}
    Null = Null
    Failed = Failed
    Lost = Lost
    Unset = Unset
    ByteBits = 2
    MaskChoices <- MasksMC
    MaxChunk = 3
    MaxRows = 7
    MaxCalls = 2
SPECIFICATION Spec
INVARIANTS
    ArgumentsExact
    ResultsExact
