CONSTANTS
    p = p
    s1 = s1
    s2 = s2
    k1 = k1
    Clients = {p}
    Second = 3
    Slots = {s1, s2}
    Connections = {k1}
    Routes <- MixedRoutes
    Configs <- MixedConfigs
    MaxRequests = 3
    MaxStarts = 2
SPECIFICATION FairServiceSpec
INVARIANTS
    ServiceTypeOK
    RetryAfterIsEnough
    PoolCannotJam
    EveryRequestIsAnswered
PROPERTIES
    ShutdownCompletes
    EveryRequestEnds
