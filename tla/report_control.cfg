SPECIFICATION FairSpec
CONSTANTS
    Clients = {c1, c2}
    NoClient = NoClient
    Elements = {1, 2}
    KnownDataSets = {"ds1", "ds2"}
    DynamicDataSets = {"ds2"}
    InitialDataSet = "ds1"
    TriggerOptions <- SomeTriggers
    SqNumModulus = 1
    MaxUpdates = 2
    MaxStored = 1
    Disconnects = TRUE
INVARIANTS
    ChangesReported
    DeliveredToOwner
PROPERTIES
    PendingReported
