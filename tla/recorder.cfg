SPECIFICATION Spec
CONSTANTS
  amount = 2
  Mapped = {0, 1}
  Values = {0, 1}
  duplicate_output_time = 2
  MaxGap = 2
  MaxSamples = 4
  Faults = {"insert"}
CHECK_DEADLOCK FALSE
INVARIANT TypeOK
INVARIANT RowsFit
INVARIANT RowsTruthful
INVARIANT EdgesKept
INVARIANT InterpolationExact
INVARIANT ReadingsRecoverable
INVARIANT HeartbeatInTime
