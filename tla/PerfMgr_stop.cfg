SPECIFICATION Spec
CONSTANTS
  NumNodes = 1
  NumValues = 2
  launch = launch
  interaction = interaction
  Hint = {launch, interaction}
  Actions <- StopActions
  Override = {}
  Default <- StopDefault
  ResetOnInit = {}
  FileNode = {1}
  HoldFd = {}
  Capped <- NoPairs
  Faulty = {}
  Retry = 1
  MaxTimeout = 1
  MaxSlow = 0
  Client = {c1}
  CanStop = TRUE
PROPERTIES
  StopReturns
