CONSTANTS
    a = a
    b = b
    Ids = {"7", "w"}
    NumberTexts = {"7", "0.5"}
    IntegerTexts = {"7"}
    MaxSize = 7
    MaxBatch = 2
    Json <- MCJson
    Specs <- MCSpecs
    Depth <- MCDepth
    SpecDepth <- MCSpecDepth
    Schemas <- MCSchemas
    Batches <- MCBatches
    Queries <- MCQueries
SPECIFICATION Spec
INVARIANT ServedIsReleased
