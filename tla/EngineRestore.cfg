SPECIFICATION FairSpec
CONSTANTS
    Slots = {s1, s2}
    NoCall = NoCall
    NoInfo = NoInfo
    Infos <- TwoInfos
    HostCalls <- RestoreCalls
    Polite = FALSE
    AutoStart = FALSE
    Crashes = TRUE
    Serial = TRUE
    AdoptRetries = 2
    RefreshLimit = 1
    MaxStops = 1
    MaxChain = 0
INVARIANTS
    ProcessOwnership
    RestoreOwned
PROPERTIES
    TransientsEnd
    RestoresEnd
