SPECIFICATION XSpec
CONSTANTS
  NULL = NULL
  EflOps = EflOps
  UiOps <- MCUiOps
  Cbs = {}
  VconfFailures <- MCVconfFailures
  Windows = {t1, t2, c1}
  Top = {t1, t2}
  OpsChoices <- MCOpsChoices
  CreateReturnValues <- MCCreateReturnValues
  PauseReturnValues <- MCReturnValues
  AllocMayFail = FALSE
  MaxQueue = 2
  MaxElm = 2
  MaxMains = 2
INVARIANTS
  PausedWhenInvisible
