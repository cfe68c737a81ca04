SPECIFICATION FairSpec
CONSTANTS
    NoHandle = NoHandle
    NoParam = NoParam
    CtlModel <- OneEnhanced
    NumObjects = 1
    Services = {"Oper", "TimedOper"}
    Params = {p1, p2}
    Handles = {h1, h2}
    MaxOps = 2
    MaxConns = 2
    OperateMany = {}
    SelectTimeout = {1}
CONSTRAINT
    NotOvertaken
INVARIANTS
    ExclusiveOperation
    OperatedAsCommanded
    AnsweredOnce
PROPERTIES
    RequestsAnswered
CHECK_DEADLOCK FALSE
