SPECIFICATION Spec
CONSTANTS
  amount = 2
  Mapped = {0, 1}
  Values = {0, 1}
  duplicate_output_time = 2
  MaxGap = 2
  MaxSamples = 3
  Faults = {"query"}
CHECK_DEADLOCK FALSE
INVARIANT RowsTruthful
