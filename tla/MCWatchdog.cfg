SPECIFICATION Spec
CONSTANTS
  Wrap = 23
  Liveness = 4
  Grace = 6
  Productivity = {0, 13}
  Period = 2
  HwWindow = 7
  MaxBarren = 21
INVARIANTS
  TypeOK
  HangIsBounded
  SkipsAreExplained
PROPERTY OneRaceIsHarmless
