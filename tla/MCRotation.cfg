SPECIFICATION FairSpec
CONSTANTS
  Clients = {c1}
  NULL = NULL
  Codes <- MCCodes
  Handles = {1}
  SfMayFail = FALSE
  WmLocks = TRUE
  PauseUsed = FALSE
  GarbageValues = {0}
  MaxEvents = 2
  MaxProps = 2
  MaxSets = 1
INVARIANTS
  RotTypeOK
  ReleasedWhenUnset
  UpToDate
  DeferralWillEnd
PROPERTIES
  EventuallyTold
