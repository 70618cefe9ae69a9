SPECIFICATION Spec
CONSTANTS
  MmType = 2
  OpcuaVersionSN = 1
  StartPhases = {1, 2, 3, 4}
  FirstShotSN = 1
  MaxCycles = 2
  MaxRestarts = 0
  Faults = {}
CHECK_DEADLOCK FALSE
INVARIANT CollectsOnlyWhileClosed
