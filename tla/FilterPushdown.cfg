CONSTANTS
  Value = {1, 2, 3}
  Millisecond = 2
  MaxBatch = 2
SPECIFICATION Spec
INVARIANTS
  StatisticsDescribeTheirFile
  NoMatchingRowLost
CHECK_DEADLOCK FALSE
