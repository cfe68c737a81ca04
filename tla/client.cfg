SPECIFICATION FairSpec
CONSTANTS
  c1 = c1
  c2 = c2
  Callers = {c1, c2}
  Main = c1
  Slots = 2
  Associations = {"accepted", "refused"}
  Answers = {"response", "error", "reject"}
  ConcludeAnswers = {"accepted", "rejected"}
  CloseEarly = FALSE
  MaxCalls = 3
  MaxIrregularCalls = 2
  MaxReports = 1
  MaxLate = 1
INVARIANTS
  ResultIsOwn
  NoAnswerLost
PROPERTIES
  CallsReturn
CHECK_DEADLOCK FALSE
