CONSTANTS
    Names = {"s", "ingest"}
    RecordIds = {"s", "ingest", "1", "changes", "digests"}
    Collections = {"s"}
    Tokens = {"t1", "t2"}
    Secrets = {"k1", "k2"}
    Labels = {"l1", "l2"}
    Senders = {"x"}
    Requests <- AccessRequests
SPECIFICATION AccessSpec
INVARIANTS
    AccessTypeOK
    RecordsHaveTheirUrls
PROPERTIES
    WritesFollowCredentials
    RevocationTakesEffect
