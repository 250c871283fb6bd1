SPECIFICATION SessionSpec
CONSTANTS
  Pods = {0, 1}
  Indices = {0}
  Workload = "multi-stream"
  MaxSends = 3
INVARIANTS SuccessesAreRecords NoGap
CHECK_DEADLOCK FALSE
