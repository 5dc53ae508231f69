CONSTANTS
    p = p
    s1 = s1
    s2 = s2
    k1 = k1
    Clients = {p}
    Second = 3
    Slots = {s1}
    Connections = {k1}
    Routes <- MixedRoutes
    Configs <- MixedConfigs
    MaxRequests = 1
    MaxStarts = 1
SPECIFICATION ServiceSpec
INVARIANT EveryAnswerIsCounted
