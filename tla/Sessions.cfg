CONSTANTS
    Sessions = {q1, q2}
    NoSession = NoSession
    Loads <- LoadsMC
    Numbers <- Apart
    Batches = 3
SYMMETRY Symmetric
SPECIFICATION Spec
INVARIANTS
    BatchesInOrder
    NothingCutOff
    NothingLeftOpen
PROPERTIES
    ImplementsStreams
