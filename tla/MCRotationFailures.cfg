SPECIFICATION Spec
CONSTANTS
  Clients = {c1, c2}
  NULL = NULL
  Codes <- MCTwoCodes
  Handles = {1, 2}
  SfMayFail = TRUE
  WmLocks = TRUE
  PauseUsed = TRUE
  GarbageValues = {0, 1}
  MaxEvents = 1
  MaxProps = 1
  MaxSets = 2
SYMMETRY MCSymmetry
INVARIANTS
  CallbackSafe
PROPERTIES
  KeepsPromise
