SPECIFICATION Spec
CONSTANTS
    Lanes = {l1, l2}
    Buckets = {"lines", "bytes"}
    Capacity = 4
    PerTick = 2
    MaxAmount = 6
    Batches <- AnyBatch
    MaxEntries = 4
    TooMany = 3
    MaxAttempts = 2
    MaxSkFaults = 2
    LineLimits = {0, 2, 6}
    Marker = 3
    MaxChars = 4
    Orgs = {"a", "b"}
    FirstOrg = "a"
    Sources = {"sa", "sb"}
    Pollers = {"pa"}
    OrgOf <- MCOrgOf
    MaxRevokes = 1
    MaxRestarts = 1
    Topics = {"/event/LoginEventStream", "/event/ApiEventStream"}
    StoredObjects = {"LoginHistory"}
    EventTypes = {"Login", "API"}
    CategoryOf <- MCCategoryOf
    OvlConfigs <- MCOvlConfigs
INVARIANTS
    DebtBounded
    PushSound
    LineCapped
    
    OneSourcePerCategory
PROPERTIES
    ServedWhenAlone
    PushSettles
    
CHECK_DEADLOCK FALSE
