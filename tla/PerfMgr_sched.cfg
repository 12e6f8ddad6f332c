SPECIFICATION Spec
CONSTANTS
  NumNodes = 2
  NumValues = 3
  launch = launch
  interaction = interaction
  Hint = {launch, interaction}
  Actions <- SchedActions
  Override = {1}
  Default <- SchedDefault
  ResetOnInit = {2}
  FileNode = {1}
  HoldFd = {1}
  Capped <- NoPairs
  Faulty = {1}
  Retry = 1
  MaxTimeout = 2
  MaxSlow = 1
  Client = {c1}
  CanStop = FALSE
INVARIANTS
  NoLostWakeup
  HintIsWhole
PROPERTIES
  OnlyOwnerEndsRequest
  ImplementsBoard
