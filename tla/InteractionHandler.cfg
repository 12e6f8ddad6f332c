SPECIFICATION Spec
CONSTANTS
  Duration = {0, 1, 2, 5}
  Extra = 1
  mWaitMs = 1
  mMinDurationMs = 2
  mMaxDurationMs = 4
INVARIANTS
  HintMatchesState
  AbortMatchesWait
  SleeperIsWoken
PROPERTIES
  HeldAsPromised
  ReleasedUnlessTouched
  ExitReturns
