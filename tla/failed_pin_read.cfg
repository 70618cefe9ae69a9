SPECIFICATION Spec
CONSTANTS
  MmType = 2
  OpcuaVersionSN = 1
  StartPhases = {1}
  FirstShotSN = 1
  MaxCycles = 1
  MaxRestarts = 0
  Faults = {"read"}
CHECK_DEADLOCK FALSE
PROPERTY StatusAgreesWithPins
