SPECIFICATION Spec
CONSTANTS
  MmType = 1
  OpcuaVersionSN = 1
  StartPhases = {1, 2, 3, 4}
  FirstShotSN = 65534
  MaxCycles = 3
  MaxRestarts = 2
  Faults = {"shotlag", "shotquery", "opc", "crash"}
CHECK_DEADLOCK FALSE
INVARIANT TypeOK
INVARIANT RowsAttributed
INVARIANT NoShotSkipped
INVARIANT OpcNeverBoth
INVARIANT NeverAheadOfDb
