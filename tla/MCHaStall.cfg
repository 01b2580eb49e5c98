\* Replicas that may stall anywhere, and a deleted lease.
SPECIFICATION HaSpec
CONSTANTS
    Instances = {i1, i2}
    TTL = 3
    Renew = 1
    Verify = 1
    Prompt = FALSE
    LeaseFaults = {"lease_lost"}
    MaxIOErrors = 1
    MaxCrashes = 0
    MaxEpoch = 2
    MaxPos = 2
CHECK_DEADLOCK FALSE
SYMMETRY Replicas
INVARIANTS
    NoLoss
PROPERTIES
    StartsFresh
