SPECIFICATION Spec
CONSTANTS
    Writers = {w1, w2}
    Keys = {k1, k2}
    Values = {v1}
    NoValue = NoValue
    Backends = {"s3", "gcs"}
    MaxAttempts = 2
    FaultChoices <- BenignOrAll
    MaxVersion = 3
    Daemons = {"d1"}
    Tools = {"t1"}
    SfKeys = {"k1", "k2"}
    MaxWrites = 2
    ViewOrgs = {"a", "b"}
    LegacyOrg = "a"
    MaxRead = 3
    Lanes = {l1, l2}
    Budget = 3
    BatchSizes = {1, 2}
    Actions = {"pause", "drop"}
    MaxBatch = 2
    MaxUsed = 6
    MaxDay = 1
    MaxRuns = 2
INVARIANTS
    ConflictMeansOther
    CheckpointsKept
    
    UsedSurvivesRestart
    OvershootBounded
CHECK_DEADLOCK FALSE
PROPERTIES
    NoLostUpdate
SYMMETRY StoreSymmetry
