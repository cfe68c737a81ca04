SPECIFICATION FairSpec
CONSTANTS
    NoHandle = NoHandle
    NoParam = NoParam
    CtlModel <- OneSbo
    NumObjects = 1
    Services = {"Oper", "Disconnect", "Cancel"}
    Params = {p1}
    Handles = {h1, h2}
    MaxOps = 2
    MaxConns = 2
    OperateMany = {}
    SelectTimeout = {1}
INVARIANTS
    TasksCounted
    OperatedBySelector
PROPERTIES
    DrainWaitsForThreads
    NotStuck
CHECK_DEADLOCK FALSE
