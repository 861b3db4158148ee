CONSTANTS
  KeepRecent = 2
  PreserveRecent = 3
  Threshold = 10
  TailBudget <- MCTailBudget
  SummaryLimit <- MCSummaryLimit
  MaxIterations = 3
  MaxHistory = 2
  MaxCalls = 2
  MaxEmergencies = 2
SPECIFICATION Spec
INVARIANTS
  RequestsAreWellFormed
  TaskIsRemembered
  ResultsReachTheModel
CHECK_DEADLOCK FALSE
