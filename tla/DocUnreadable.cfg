SPECIFICATION WalletsSpec
CONSTANTS
    WalletIds = {l, w}
    Legacy = l
    Networks = {m, t}
    Home = m
    Nobody = Nobody
    MaxActs = 3
    MaxFlows = 2
    MaxFaults = 1
INVARIANT UnreadableIsNotLost
CHECK_DEADLOCK FALSE
