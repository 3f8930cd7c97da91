SPECIFICATION Spec
CONSTANTS
  MaxRecords = 2
  MaxFaults = 2
  MaxLines = 3
  Nothing = Nothing
  MinAttempts = 1
  MaxAttempts = 2
  Minutes = 5
INVARIANTS
  TypeOK
  WakeUpIsSure
  CountIsKept
PROPERTIES
  RadioComesBack
  EventuallySleeps
