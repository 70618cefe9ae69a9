SPECIFICATION Spec
CONSTANTS
  TableSize = 3
  Amount = 2
  resolution = 4
  Listings <- MCListings
  Absent = Absent
  Sensors = {5, 6}
  Codes = {"0104", "0143", "1080", "0000"}
  Raws = {1, 4}
  Times <- MCTimes
CHECK_DEADLOCK FALSE
INVARIANTS TypeOK RowsFollowMapping ValueIsReading TickIsElapsed
PROPERTY TickOrder
