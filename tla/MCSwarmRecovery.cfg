CONSTANTS
  propose = propose
  challenge = challenge
  decide = decide
  r1 = r1
  r2 = r2
  Task <- MCPair
  DependsOn <- MCPairDependsOn
  LayerOf <- MCPairLayerOf
  LastLayer <- MCLastLayer
  Staffings <- MCPairStaffings
  Timed <- MCPairTimed
  InPreset <- MCPairOrder
  ById <- MCPairOrder
  Reaper = {r1, r2}
  MaxRetries = 0
  MaxWorkers = 1
  MaxFaults = 0
  MaxBroken = 1
  MayCrash = TRUE
SPECIFICATION SpecRecovery
INVARIANTS
  SweepsConverge
  CompletedIsOnDisk
PROPERTIES
  TaskEndingsStand
  AbandonedRunsEnd
