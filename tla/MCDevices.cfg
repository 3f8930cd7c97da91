SPECIFICATION Spec
CONSTANTS
  Kinds <- MCKinds
  MaxVal = 3
  NoValue <- MCNoValue
  Pulses = {1, 2, 4}
  Samples = 3
  Tolerance = 1
  WlFactors = {1, 2}
  DigitalFactors = {1}
  AnalogFactors = {1, 2}
  MaxWlReads = 4
  Leftovers = {2}
  Sensors = 2
  Param <- MCParam
  Values = {7, 150}
  MaxRounds = 3
  PulseMod = 4
  Disconnect = 3
  Unit = 2
  Difference = 1
  MaxLag = 2
  MaxPulses = 5
  Junk = 9
  SampleBuffer = 2
  MaxSamples = 6
  MaxRun = 2
  MaxCommands = 3
  Offsets <- MCOffsets
  DefaultOffset = 2
  CountMod = 5
  ClockMod = 12
  MinBackoff = 1
  MaxBackoff = 4
  QueueSize = 2
  SnapOffsets = {1, 2, 4, 6}
  SendMod = 4
  MaxSnaps = 4
  JobTimeout = 2
  TunnelTimeout = 2
  HeaderMax = 2
  Multiples = {5, 6}
  DefaultMultiple = 4
  Intervals = {1, 5, 15}
  Zones <- MCZones
  DefaultZone = 9
  LowPowers <- MCLowPowers
INVARIANTS
  TypeOK
  ReadingsAreKept
  SessionsAreOwn
  
  OutputsAreKnown
PROPERTIES
  AnswersAreOwn
  WorkEnds
CHECK_DEADLOCK FALSE
