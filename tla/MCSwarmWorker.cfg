CONSTANTS
  MaxRetries = 1
  MaxIterations = 4
  MaxSkips = 3
  MaxCalls = 2
  IsDataAgent = TRUE
SPECIFICATION Spec
INVARIANTS
  TokensAreCounted
  BreakerIsExact
PROPERTIES
  ImplementsContract
  WorkerAnswers
