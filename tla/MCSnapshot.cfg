SPECIFICATION Spec
CONSTANTS
  c1 = c1
  c2 = c2
  Caller = {c1, c2}
  Target <- MCThreeTargets
  Managed <- MCFirstTwo
  Flat <- MCFlat
  Id = {1, 2, 3}
  a = a
  b = b
  Content = {a, b}
  Torn = Torn
  Capture <- MCCapture
  Installed <- MCInstalled
  Found <- MCFound
  KeepCount = 1
  KeepAge = 0
  PowerLoss = TRUE
  MaxCalls = 2
  MaxTime = 1
  MaxInodes = 3
  NoDir = NoDir
  NoManifest = NoManifest
  NoCall = NoCall
CONSTRAINT MCOverlapBound
INVARIANTS TypeOK NoMutualRefusal EtagWasLive ListedIsRestorable
PROPERTIES WriteIsSaved CompleteIsKept RefusalTouchesNothing
CHECK_DEADLOCK FALSE
