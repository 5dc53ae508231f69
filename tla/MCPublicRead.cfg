CONSTANTS
    a = a
    b = b
    red = red
    empty = empty
    Ids = {a, b}
    Payloads = {red, empty}
    EmptyDoc = empty
    Filterable <- Colours
    Contains <- Coloured
    Size <- Sizes
    ResponseBytes = {0, 9}
    MaxBytes = 3
    Queries <- ReadQueries
    InOrder = TRUE
    MaxSeq = 3
    DefaultLimit = 2
    MaxLimit = 2
    MaxU16 = 9
    MaxU64 = 9
    MaxI64 = 8
    NotANumber = NotANumber
    NotReading = NotReading
SPECIFICATION ReadSpec
INVARIANTS
    ReadersTypeOK
    ItemContentIsCurrent
    StaleManifestIsRefused
    ConfirmedPageIsExact
    ValidatorsTellApart
    QueriesAreAnsweredAsAsked
