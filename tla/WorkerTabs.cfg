SPECIFICATION Spec
CONSTANTS
    Tabs = {a, b}
    NoTab = NoTab
    Names = {global, profile}
    NoName = NoName
    WebLocks = TRUE
    MaxLeases = 2
    MaxWorkers = 2
    MayClose = TRUE
SYMMETRY TabSymmetry
INVARIANTS
    SessionIsWhole
    LockMatchesBrowser
PROPERTY ExclusiveDatabases
CHECK_DEADLOCK FALSE
