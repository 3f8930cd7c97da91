SPECIFICATION Spec
CONSTANTS
  soil12 = soil12
  soil21 = soil21
  flow = flow
  level = level
  Nobody = Nobody
  MaxDevices = 2
  Names <- MCNames
  MachineName <- MCMachineName
  SizeOf <- MCSizeOf
  InitAddress = 5
  StorageSize = 30
  CountMod = 3
  MaxOverrun = 2
INVARIANTS
  TypeOK
  AddressesDiffer
  OwnConfiguration
PROPERTY AddressIsPredictable
