CONSTANTS
  spot = spot
  perp = perp
  q1 = q1
  q2 = q2
  Symbol <- MCSymbol
  BaseOf <- MCBaseOf
  Query = {q1, q2}
  Call <- MCCall
  ReadOnly <- MCReadOnly
  Repeatable <- MCRepeatable
  PoolSize = 2
  MaxCalls = 3
  MaxTurns = 2
SPECIFICATION SpecBatch
INVARIANTS
  CallsAreAnswered
  WritesRunAlone
  ConsumersUseLockedSymbols
  LockedSymbolsAgree
PROPERTIES
  TurnsEnd
