SPECIFICATION AppSpec
CONSTANTS
    Wallets = {l, w}
    Legacy = {l}
    Networks = {m, t}
    Home = m
    Nobody = Nobody
    MaxSteps = 7
    MaxCalls = 2
INVARIANT GuessesAreProven
CHECK_DEADLOCK FALSE
