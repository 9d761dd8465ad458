SPECIFICATION RaiseFairSpec
CONSTANTS
  NULL = NULL
  Root = root
  Windows = {a, b, c}
  Odd = {c}
  OpenCbs = {cb1}
  MaxChanges = 2
INVARIANTS
  RaiseTypeOK
  StableFound
PROPERTIES
  QuietSearch
  SearchAdvances
  ResumeAnswered
