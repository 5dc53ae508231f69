CONSTANTS
    a = a
    b = b
    doc = doc
    empty = empty
    w1 = w1
    w2 = w2
    w3 = w3
    Ids = {a, b}
    Payloads = {doc, empty}
    EmptyDoc = empty
    Writers = {w1, w2, w3}
    Requests <- MixedRequests
    MaxRequests = 3
SPECIFICATION Spec
SYMMETRY Symmetry
INVARIANTS
    TypeOK
    PositionsUnique
    BatchIsWhole
    AnsweredIsDurable
PROPERTIES
    RowsMoveForward
    BatchTakesEffect
    PublishesAtomically
