SPECIFICATION Spec
CONSTANTS
    Pages = {p, q}
    ClientsPerPage = 2
    Layouts <- MCLayouts
    NoClient = NoClient
    Global = global
    NoName = NoName
    WebLocks = TRUE
    MaxLeases = 2
    Restless <- First
    MayClose = FALSE
SYMMETRY PageSymmetry
INVARIANT ReleasedIsClosed
CHECK_DEADLOCK FALSE
