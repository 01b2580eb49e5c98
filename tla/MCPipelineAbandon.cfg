\* What an abandoned batch leaves behind.
SPECIFICATION Spec
CONSTANTS
    p1 = p1
    p2 = p2
    b1 = b1
    Sources = {p1, p2}
    Lanes = {"streaming"}
    LaneOf <- OneLane
    Script <- SharedScript
    QueueMax = 2
    ByteBudget = 2
    MaxEntries = 2
    MaxBytes = 3
    MaxCost = 3
    Faults = {"retryable", "stop"}
    StuckLanes = {}
    MaxRuns = 1
INVARIANTS
    AbandonedIsRetried
CHECK_DEADLOCK FALSE
