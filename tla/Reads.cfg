SPECIFICATION ReadsSpec
CONSTANTS
    Probes = 2
    MaxCycles = 3
    MaxFunds = 1
    SyncPollLimit = 2
    RefreshLimit = 2
    MaxTurns = 4
    MaxChain = 1
INVARIANTS
    PollsAreOwned
PROPERTIES
    ErrorsEscalate
    NothingDue
    ReadsEnd
CHECK_DEADLOCK FALSE
