SPECIFICATION Spec
CONSTANTS
  c1 = c1
  c2 = c2
  Caller = {c1}
  Target <- MCTarget
  Managed <- MCTarget
  Flat <- MCFlat
  Id = {1}
  a = a
  b = b
  Content = {a, b}
  Torn = Torn
  Capture <- MCOneFile
  Installed <- MCInstalled
  Found <- MCFreshRoot
  KeepCount = 1
  KeepAge = 1
  PowerLoss = TRUE
  MaxCalls = 2
  MaxTime = 0
  MaxInodes = 2
  NoDir = NoDir
  NoManifest = NoManifest
  NoCall = NoCall
INVARIANTS RollbackIsPossible
CHECK_DEADLOCK FALSE
