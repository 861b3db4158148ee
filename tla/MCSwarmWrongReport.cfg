CONSTANTS
  propose = propose
  challenge = challenge
  decide = decide
  r1 = r1
  r2 = r2
  Task <- MCTask
  DependsOn <- MCDependsOn
  LayerOf <- MCLayerOf
  LastLayer <- MCLastLayer
  Staffings <- MCStaffings
  Timed <- MCTimed
  InPreset <- MCInPreset
  ById <- MCById
  Reaper = {r1}
  MaxRetries = 0
  MaxWorkers = 2
  MaxFaults = 0
  MaxBroken = 0
  MayCrash = TRUE
SPECIFICATION SpecRecovery
INVARIANT ReportIsTheSynthesis
