CONSTANTS
    Replicas = {r1, r2}
    Duration = 3
    RenewEvery = 1
    Second = 1
    MaxOutages = 1
    MaxKCrashes = 1
    MaxKEdits = 1
SPECIFICATION KSpec
INVARIANT SoleLeader
PROPERTIES TakeoverWaits LeadershipSettles
