CONSTANTS
    zero = zero
    minus = minus
    nan = nan
    integerZero = integerZero
    untypedNull = untypedNull
    Columns = {1, 2}
    Values = {zero, minus, nan}
    Null = Null
    Default = zero
    ByteBits = 2
    States = {s1, s2, s3}
    NoState = NoState
    Kinds = {"primitive", "text", "wide", "delegating"}
    Readings = {integerZero, untypedNull}
    NoReading = NoReading
    Alike <- AlikeMC
    Literal <- LiteralMC
    Rows <- RowsMC
    MaxChunk = 3
    MaxRows = 3
    MaxAnswers = 2
    NoAnswer = NoAnswer
SYMMETRY Symmetric
SPECIFICATION Spec
INVARIANTS
    StatesHoldTheirRows
    AnswersExact
    FinishedAnswered
