SPECIFICATION FairSpec
CONSTANTS
  Caller = {c1, c2}
  IdleTimeout = 2
  MaxEvents = 4
INVARIANT ActiveCountsGuards
PROPERTIES ExitOnlyWhenIdle EventuallyOff
CHECK_DEADLOCK FALSE
