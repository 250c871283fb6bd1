SPECIFICATION Spec
CONSTANTS
  Modes = {m1}
  Foreign = {}
  Images = {i1,i2}
  ApiFaults = FALSE
  Beside = FALSE
  MaxRuns = 2
  MaxKills = 0
  None = None
INVARIANT AutoTeardownAfterCleanRun
CHECK_DEADLOCK FALSE
