SPECIFICATION Spec
CONSTANTS
    ElfTypes = {"t", "u"}
    ElfFiles = {1, 2}
    TypeOf <- MCTypeOf
    ElfExplicit = {"u"}
    ElfExcluded = {}
    Versions <- MCVersions
    RowsKept <- MCRowsKept
    ElfPage = 2
    ElfCarried = 1
    ElfConcurrency = 1
    SettleWindow = 1
    MaxAge = 2
    ElfFlightMax = 1
    ElfMaxTime = 4
    ElfMaxFaults = 1
    Logs = {1, 2, 3, 4, 5, 6}
    StartTime <- MCStartTime
    LogsKept = {1, 3, 4}
    Oversize = {4}
    ApxPage = 2
    ApxCarried = 2
    ApxFlightMax = 2
    ApxMaxFaults = 1
    Orgs = {"a", "b"}
    FirstOrg = "a"
    BfTypes <- MCBfTypes
    BfFiles = {1, 2, 3, 4, 5, 6, 7}
    BfOf <- MCBfOf
    BfCreated <- MCBfCreated
    BfChunks <- MCBfChunks
    BfUntils = {3, 9}
    BfPage = 3
    BfMaxPushFailures = 2
    BfMaxFaults = 2
INVARIANTS
    NoFileSkipped
    LogCursorSound
    BackfillSound
PROPERTIES
    
    EveryLogSettled
    BackfillEnds
CHECK_DEADLOCK FALSE
