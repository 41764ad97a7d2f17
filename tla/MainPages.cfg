SPECIFICATION Spec
CONSTANTS
    Pages = {p, q}
    ClientsPerPage = 2
    Layouts <- MCLayouts
    NoClient = NoClient
    Global = global
    NoName = NoName
    WebLocks = TRUE
    MaxLeases = 2
    Restless <- First
    MayClose = TRUE
SYMMETRY PageSymmetry
INVARIANTS
    LockFollowsDaemon
PROPERTIES
    ExclusiveDatabases
    StoppedMeansFree
CHECK_DEADLOCK FALSE
