SPECIFICATION Spec
CONSTANTS
  NumPaths = 2
  ListSize = 1
  MaxCmds = 1
  MaxCount = 2
  Faulty = {"thread", "stream"}
INVARIANTS
  EventGoesOn
  FreedWithThreadsGone
  RunningCanBeStopped
PROPERTIES
  EventReturns
  ImplementsChannel
