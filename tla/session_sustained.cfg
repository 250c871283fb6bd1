SPECIFICATION SessionSpec
CONSTANTS
  Pods = {0, 1}
  Indices = {0}
  Workload = "sustained"
  MaxSends = 3
INVARIANTS SuccessesNeverShared
CHECK_DEADLOCK FALSE
