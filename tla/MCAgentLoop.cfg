CONSTANTS
  MaxRetries = 1
  TokenBudget = 0
  TurnBudget = 2
  MaxTokens = 0
  InitialStatuses = {"active", "deleted"}
  MaxOthers = 1
  MaxIterations = 3
  MaxSkips = 2
  MaxNudges = 1
  MaxValidations = 2
  MaxContinuations = 1
  MaxUnconfirmed = 1
  MaxRuns = 2
SPECIFICATION Spec
INVARIANTS
  ReportsAgree
  RejectedIsNotShown
  TurnsAreCountedOnce
PROPERTIES
  ContinuesWithinBudget
  ImplementsContract
  RunReturns
CHECK_DEADLOCK FALSE
