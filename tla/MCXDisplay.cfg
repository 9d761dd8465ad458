SPECIFICATION XFairSpec
CONSTANTS
  NULL = NULL
  EflOps = EflOps
  UiOps <- MCUiOps
  Cbs = {}
  VconfFailures <- MCVconfFailures
  Windows = {t1, t2, c1}
  Top = {t1, t2}
  OpsChoices <- MCOpsChoices
  CreateReturnValues <- MCCreateReturnValues
  PauseReturnValues <- MCReturnValues
  AllocMayFail = FALSE
  MaxQueue = 3
  MaxElm = 2
  MaxMains = 1
INVARIANTS
  ListMatchesScreen
  ResumedWhenVisible
  PausedWhenInvisible
  NoGhostWindow
PROPERTIES
  VisibleMeansResumed
