SPECIFICATION Spec
CONSTANTS
  rain1 = rain1
  rain2 = rain2
  rain3 = rain3
  relay1 = relay1
  rain_gauge = rain_gauge
  relay = relay
  NoName = NoName
  MaxDevices = 3
  Devices <- MCDevices
  Kinds <- MCKinds
  KindOf <- MCKindOf
  Limit <- MCLimit
INVARIANTS
  TypeOK
  StoredIsWanted
  ActiveIsWanted
  TableMirrorsSlots
  KindsWithinLimit
PROPERTY WritesAreAtomic
