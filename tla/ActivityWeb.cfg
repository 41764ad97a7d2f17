SPECIFICATION FairSpec
CONSTANTS
    FailureLimit = 2
    MaxEntries = 2
    MaxLives = 4
    MaxBreaks = 2
    Threads = {"worker", "main"}
INVARIANTS
    NeverSilent
    OneStream
    CaughtUp
PROPERTIES
    Recovers
CHECK_DEADLOCK FALSE
