SPECIFICATION Spec
CONSTANTS
  Modes = {m1, m2}
  Foreign = {}
  Images = {i1}
  ApiFaults = FALSE
  Beside = FALSE
  MaxRuns = 1
  MaxKills = 0
  None = None
INVARIANTS ClusterAccounted
CHECK_DEADLOCK FALSE
