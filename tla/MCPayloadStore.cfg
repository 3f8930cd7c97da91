SPECIFICATION Spec
CONSTANTS
  MaxRecords = 3
  MaxFaults = 2
  MaxLines = 5
  Nothing = Nothing
INVARIANTS
  TypeOK
  FaultsAreContained
PROPERTIES
  WorksLikeQueue
  EventuallyDelivered
