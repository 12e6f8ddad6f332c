SPECIFICATION Spec
CONSTANTS
  NumSlots = 2
  CanCorrupt = TRUE
INVARIANTS
  ActivatedSlotBoots
  GivenUpAfterTries
PROPERTIES
  FallbackRemains
  SuccessMeansSwitched
  MergeIsRemembered
CHECK_DEADLOCK FALSE
