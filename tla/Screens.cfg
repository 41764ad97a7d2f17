SPECIFICATION ScreensSpec
CONSTANTS
    SatsExponent = 8
    MaxSafe = 1000000
    Pastes <- TestPastes
    MaxQuotes = 2
    MaxVisits = 2
    Outpoints = {"a", "b"}
    Selections <- TestSelections
    MaxFunds = 2
    MaxBatches = 2
    Outputs = {"a", "b"}
    MaxPlans = 2
    MaxRuns = 1
    MaxScreens = 2
    Exits = {"a", "b"}
    MaxReads = 3
    MaxProgress = 2
    PollMaxTicks = 2
    PollFailureLimit = 2
    MaxInvoices = 1
    MaxReturns = 1
    Wallets = {l, w}
    Legacy = {l}
    Networks = {m, t}
    Home = m
    Nobody = Nobody
    MaxSteps = 8
    MaxCalls = 2
INVARIANTS
    ReviewIsSafe
    ExitsAreSafe
    StampsAreProven
PROPERTIES
    ScreensProgress
    StatusNeverRegresses
CHECK_DEADLOCK FALSE
