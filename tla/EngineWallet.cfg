SPECIFICATION Spec
CONSTANTS
    Slots = {s1, s2}
    NoCall = NoCall
    NoInfo = NoInfo
    Infos <- AllInfos
    HostCalls <- WalletCalls
    Polite = FALSE
    AutoStart = FALSE
    Crashes = TRUE
    Serial = FALSE
    AdoptRetries = 2
    RefreshLimit = 2
    MaxStops = 2
    MaxChain = 1
SYMMETRY SlotSymmetry
INVARIANTS
    TypeOK
    StopSafety
    LifecycleOwned
