CONSTANTS
  alpha = alpha
  beta = beta
  gamma = gamma
  project = project
  user = user
  f1 = f1
  f2 = f2
  x1 = x1
  c1 = c1
  c2 = c2
  NoOne = NoOne
  Client = {c1, c2}
  Title = {alpha, beta, gamma}
  Type = {project, user}
  Text = {x1}
  File = {f1, f2}
  FileOf <- MCFileOf
  Mentions <- MCMentions
  MaxIndexLines = 2
  MaxOps = 3
  MaxTimeouts = 1
  MaxFaults = 1
SPECIFICATION Spec
INVARIANTS
  IndexAgrees
  LastSaveStands
  TogetherOnlyUnlocked
PROPERTIES
  CallsEnd
CHECK_DEADLOCK FALSE
