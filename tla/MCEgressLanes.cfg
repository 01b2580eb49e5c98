\* Two lanes paused by the same midnight.
SPECIFICATION EgressSpec
CONSTANTS
    Lanes = {l1, l2}
    Budget = 3
    BatchSizes = {1, 2}
    Actions = {"pause"}
    MaxBatch = 2
    MaxUsed = 5
    MaxDay = 2
    MaxRuns = 1
CHECK_DEADLOCK FALSE
PROPERTIES
    ReleasedAtMidnight
