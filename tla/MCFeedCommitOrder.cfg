CONSTANTS
    a = a
    b = b
    doc = doc
    empty = empty
    w1 = w1
    w2 = w2
    Ids = {a, b}
    Payloads = {doc, empty}
    EmptyDoc = empty
    Writers = {w1, w2}
    Requests <- OneEach
    MaxRequests = 2
    Size <- DocSizes
    Limit = 2
    MaxLimit = 3
    Bytes = 2
SPECIFICATION ConsumerSpec
INVARIANTS
    NothingBehindCursor
