SPECIFICATION FairSpec
CONSTANTS
  MmType = 2
  OpcuaVersionSN = 1
  StartPhases = {1, 4}
  FirstShotSN = 65534
  MaxCycles = 3
  MaxRestarts = 0
  Faults = {"shotquery", "opc"}
CHECK_DEADLOCK FALSE
INVARIANT RowsAttributed
INVARIANT DecodeFollowsMold
INVARIANT OpcTracksMold
PROPERTY EveryShotCollected
PROPERTY SigintStops
