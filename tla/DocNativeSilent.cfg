SPECIFICATION Spec
CONSTANTS
    FailureLimit = 2
    MaxEntries = 1
    MaxLives = 4
    MaxPumps = 3
    MaxBreaks = 1
INVARIANTS
    NeverSilent
CHECK_DEADLOCK FALSE
