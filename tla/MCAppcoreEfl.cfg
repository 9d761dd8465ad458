SPECIFICATION FairSpec
CONSTANTS
  NULL = NULL
  EflOps = EflOps
  UiOps <- MCUiOps
  Cbs = {cb1}
  VconfFailures <- MCVconfFailures
  Windows = {w1, w2}
  OpsChoices <- MCOpsChoices
  CreateReturnValues <- MCCreateReturnValues
  PauseReturnValues <- MCPauseReturnValues
  AllocMayFail = TRUE
INVARIANTS
  TypeOK
  TimerDiscipline
  CleanExit
  UpcallSafe
  HandlersNeedOps
  ActiveConsistent
PROPERTIES
  FollowsLifecycle
  RequestsKept
  TerminateHonoured
  GetsFirstReset
  FlushHappens
