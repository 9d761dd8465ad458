SPECIFICATION Spec
CONSTANTS
  Clients = {c1, c2}
  NULL = NULL
  Codes <- MCTwoCodes
  Handles = {1}
  SfMayFail = FALSE
  WmLocks = TRUE
  PauseUsed = FALSE
  GarbageValues = {0}
  MaxEvents = 1
  MaxProps = 1
  MaxSets = 2
INVARIANT
  OwnData
