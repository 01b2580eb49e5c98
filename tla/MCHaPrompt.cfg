\* Replicas that never stall: leadership changes by crashes, signals and I/O errors.
SPECIFICATION HaFairSpec
CONSTANTS
    Instances = {i1, i2}
    TTL = 4
    Renew = 1
    Verify = 1
    Prompt = TRUE
    LeaseFaults = {"read_error", "write_error", "crash", "signal"}
    MaxIOErrors = 1
    MaxCrashes = 1
    MaxEpoch = 4
    MaxPos = 2
CHECK_DEADLOCK FALSE
INVARIANTS
    AtMostOneLeader
PROPERTIES
    
    
    TakeoverDelivers
