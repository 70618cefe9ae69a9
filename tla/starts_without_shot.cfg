SPECIFICATION Spec
CONSTANTS
  Instances = {1}
  MOs = {1, 2}
  SensorMOs = {1}
  MaxEdits = 1
  Faults = {}
CHECK_DEADLOCK FALSE
INVARIANT CollectsForShot
