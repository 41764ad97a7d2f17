SPECIFICATION RequestsSpec
CONSTANTS
    Page = p
    Tabs <- OnePage
    NoTab = NoTab
    Names = {global}
    NoName = NoName
    WebLocks = TRUE
    MaxLeases = 2
    MaxWorkers = 2
    MayClose = FALSE
    Calls = {x}
    Operation = operation
    MaxRequests = 3
INVARIANTS
    AnswersAreOwn
PROPERTIES
    HostIsAnswered
CHECK_DEADLOCK FALSE
