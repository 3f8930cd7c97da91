SPECIFICATION SpecWedge
CONSTANTS
  Builds = {b1}
  Bad = {bad}
  NoMessage = NoMessage
  NoBuild = NoBuild
  Tasks = {t1}
  Size = 1
  Liveness = 2
PROPERTY WedgeIsReset
