SPECIFICATION Spec
CONSTANTS
  Stream = {music, movie}
  Direct = {movie}
  NumPorts = 2
  RingSize = 1
  Padding = 1
  MaxWrite = 1
  MaxMsgs = 1
  CanExit = FALSE
INVARIANTS
  NoPortLost
