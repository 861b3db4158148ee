CONSTANTS
  t1 = t1
  t2 = t2
  t3 = t3
  u1 = u1
  Task <- MCTask
  Unknown <- MCUnknown
SPECIFICATION Spec
INVARIANTS
  AcceptsOnlyDags
  RejectsOnlyBadGraphs
  DependenciesComeFirst
  VerdictIsRight
