SPECIFICATION Spec
CONSTANTS
  Clients = {c1}
  NULL = NULL
  Codes <- MCCodes
  Handles = {1}
  SfMayFail = FALSE
  WmLocks = TRUE
  PauseUsed = FALSE
  GarbageValues = {0, 1}
  MaxEvents = 2
  MaxProps = 2
  MaxSets = 1
INVARIANT
  DeferralWillEnd
