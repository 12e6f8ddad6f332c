SPECIFICATION Spec
CONSTANTS
  Stream = {movie}
  Direct = {movie}
  NumPorts = 1
  RingSize = 4
  Padding = 0
  MaxWrite = 3
  MaxMsgs = 3
  CanExit = TRUE
INVARIANTS
  LastCallWins
  PausePlaysOneMore
  UnpausedIsNotQuiet
PROPERTIES
  WriteReturns
  PlaysUnlessPaused
  ExitOfRunningReturns
CHECK_DEADLOCK FALSE
