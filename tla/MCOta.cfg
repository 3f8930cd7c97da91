SPECIFICATION Spec
CONSTANTS
  Builds = {b1}
  Bad = {bad}
  NoMessage = NoMessage
  NoBuild = NoBuild
  Tasks = {t1, t2}
  Size = 1
INVARIANTS
  TypeOK
  OneUpdate
  SuspensionHasOwner
  ReportIsTrue
PROPERTIES
  MessageIsConsidered
  UpdateIsOver
