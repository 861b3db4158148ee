CONSTANTS
  a = a
  b = b
  c = c
  d = d
  e = e
  Task <- MCTask
  DependsOn <- MCDependsOn
  LayerOf <- MCLayerOf
  LastLayer <- MCLastLayer
  Staffings <- MCStaffings
  Timed <- MCTimed
  MaxRetries = 1
  MaxWorkers = 1
  MaxFaults = 1
  MayCrash = TRUE
SPECIFICATION Spec
INVARIANTS
  IInv
  WorkersHaveTheirInputs
  CompletedMeansAll
