SPECIFICATION Spec
CONSTANTS
  NULL = NULL
  EflOps = EflOps
  UiOps <- MCUiOps
  Cbs = {cb1}
  VconfFailures <- MCVconfFailures
  Windows = {w1, w2}
  OpsChoices <- MCOpsChoices
  CreateReturnValues <- MCCreateReturnValues
  PauseReturnValues <- MCPauseReturnValues
  AllocMayFail = TRUE
INVARIANT
  CreateErrorCancels
