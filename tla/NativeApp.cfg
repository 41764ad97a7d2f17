SPECIFICATION NativeAppSpec
CONSTANTS
    FailureLimit = 2
    MaxEntries = 1
    MaxLives = 4
    MaxPumps = 3
    MaxBreaks = 1
    WalletIds = {l, w}
    Legacy = l
    Networks = {m, t}
    Home = m
    Nobody = Nobody
    MaxActs = 4
    MaxFlows = 2
    MaxFaults = 1
    Passkeys = {"old", "new"}
    Synced = {"old"}
    PrfLength = 2
    Prf <- TestPrf
    Accounts = {a, b}
    NoOne = NoOne
    MaxCeremonies = 2
    MaxScreenings = 4
INVARIANTS
    AttachedLives
    ClosedIsRetried
    StopsAreClean
    OthersSurvive
    RegistryIsTrue
    MarksAreProven
    KeysAreTrue
PROPERTIES
    PasskeysEnd
CHECK_DEADLOCK FALSE
