\* Two lanes; outages end, but the bulk lane's sink may hang; stop at any time.
SPECIFICATION RecoveringSpec
CONSTANTS
    p1 = p1
    p2 = p2
    b1 = b1
    Sources = {p1, b1}
    Lanes = {"streaming", "bulk"}
    LaneOf <- TwoLanes
    Script <- SplitScript
    QueueMax = 2
    ByteBudget = 2
    MaxEntries = 2
    MaxBytes = 3
    MaxCost = 3
    Faults = {"retryable", "permanent", "over_budget", "stop"}
    StuckLanes = {"bulk"}
    MaxRuns = 1
PROPERTIES
    
    StopEnds
CHECK_DEADLOCK FALSE
