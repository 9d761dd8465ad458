SPECIFICATION SysFairSpec
CONSTANTS
  NULL = NULL
  UiOps = {efl_ops}
  Cbs = {cb1}
  VconfFailures <- MCVconfFailures
  Langs = {en, xx}
  Regions = {dd, yy}
  Installed = {en, dd}
  BatteryLevels <- MCBatteryLevels
  Registrable <- MCRegistrable
  MaxPending = 2
INVARIANTS
  SysTypeOK
  SettingsInEffect
  DrawnInLanguage
  DomainKept
PROPERTIES
  LanguageArrives
  ChangeReachesCallback
