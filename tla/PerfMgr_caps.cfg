SPECIFICATION Spec
CONSTANTS
  NumNodes = 4
  NumValues = 3
  launch = launch
  interaction = interaction
  Hint = {launch, interaction}
  Actions <- CapActions
  Override = {}
  Default <- CapDefault
  ResetOnInit = {1, 2, 3, 4}
  FileNode = {1, 2, 3}
  HoldFd = {2}
  Capped <- CapPairs
  Faulty = {4}
  Retry = 1
  MaxTimeout = 1
  MaxSlow = 0
  Client = {c1, c2}
  CanStop = TRUE
PROPERTIES
  TwoPassesSettle
  StopOfSleeperReturns
