\* Two sources share one lane: sink faults, failed writes, kills, stop and restart.
SPECIFICATION Spec
CONSTANTS
    p1 = p1
    p2 = p2
    b1 = b1
    Sources = {p1, p2}
    Lanes = {"streaming"}
    LaneOf <- OneLane
    Script <- SharedScript
    QueueMax = 2
    ByteBudget = 2
    MaxEntries = 2
    MaxBytes = 3
    MaxCost = 2
    Faults = {"retryable", "lost_answer", "commit_error", "source_error", "kill", "stop", "grace"}
    StuckLanes = {}
    MaxRuns = 2
INVARIANTS
    CheckpointCovered
    DrainedOnReturn
    QueuedBytesExact
PROPERTIES
    KeepsContract
CHECK_DEADLOCK FALSE
