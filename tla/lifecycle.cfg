SPECIFICATION FairSpec
CONSTANTS
  Instances = {1, 2}
  MOs = {1, 2}
  SensorMOs = {1}
  MaxEdits = 1
  Faults = {"kill", "update", "query", "device"}
CHECK_DEADLOCK FALSE
INVARIANT TypeOK
INVARIANT StaleOnlyAfterFailure
INVARIANT CollectorIsNamed
INVARIANT CollectsForSensors
PROPERTY StopsWhenTold
