CONSTANTS
    a = a
    b = b
    doc = doc
    empty = empty
    w1 = w1
    w2 = w2
    Ids = {a, b}
    Payloads = {doc, empty}
    EmptyDoc = empty
    Writers = {w1, w2}
    Requests <- AllRequests
    MaxRequests = 8
    Rank <- Ranks
    Limit = 0
    MaxLimit = 2
    First <- AllAreNew
    Versions <- OneChanges
    MaxEdits = 2
    MaxFaults = 1
SPECIFICATION SenderSpec
INVARIANTS
    SenderTypeOK
    LatestAcknowledgedIsServed
PROPERTIES
    SenderConverges
