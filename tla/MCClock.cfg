SPECIFICATION Spec
CONSTANTS
  Start = 2
  BuildTimes = {0, 1}
  Interval = 2
  Gap = 1
  MaxDelay = 1
  MaxTime = 7
  MaxRestarts = 2
INVARIANTS
  ClockTypeOK
  SyncedIsAuthoritative
  RestoredIsRecent
PROPERTIES
  EventuallySynced
CHECK_DEADLOCK FALSE
