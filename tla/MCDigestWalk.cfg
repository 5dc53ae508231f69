CONSTANTS
    a = a
    b = b
    c = c
    doc = doc
    empty = empty
    w1 = w1
    w2 = w2
    Ids = {a, b, c}
    Payloads = {doc, empty}
    EmptyDoc = empty
    Writers = {w1, w2}
    Requests <- CrossingRequests
    MaxRequests = 2
    Rank <- Ranks
    Limit = 0
    MaxLimit = 2
SPECIFICATION WalkSpec
INVARIANTS
    WalkIsExact
PROPERTIES
    WalkEnds
    RequestsEnd
