CONSTANTS
    cluster = cluster
    engine = engine
    model = model
    Entities = {cluster, engine}
    Removable = {engine}
    Models = {model}
    Values = {"seed", "edited"}
    Meanings = {"seed", "other"}
    Requested = {0, 1, 2}
    Seed <- MCSeed
    Persistent = TRUE
    MayRemove = TRUE
    MaxVersion = 6
    Failures <- SavesAndCrashes
SPECIFICATION Spec
INVARIANTS
    AuditExplainsConfig
    SnapshotIsAMoment
    ForwardNamespaceHasOneMeaning
PROPERTIES
    SeedingNeverClobbers
CHECK_DEADLOCK FALSE
