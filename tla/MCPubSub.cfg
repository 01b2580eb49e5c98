SPECIFICATION FairPubSubSpec
CONSTANTS
    t1 = t1
    t2 = t2
    NoTopic = NoTopic
    Topics <- MCTopics
    Explicit <- MCExplicit
    Kept <- MCKept
    Preset = "CUSTOM"
    Credits = 1
    QueueMax = 1
    BridgeMax = 2
    Cost = 2
    PubFaults = {"stream", "schema", "poison", "load", "corrupt", "rejected", "discovery", "expire", "cancel", "kill", "stop"}
    MaxTrouble = 1
    MaxRuns = 1
INVARIANTS
    NoSkip
    BridgeSound
CHECK_DEADLOCK FALSE
PROPERTIES
    TopicsLive
