SPECIFICATION Spec
CONSTANTS
  Loads <- AllLoads
  PageLimit = 4
  Pages = TRUE
  MaxKept = 1
  MaxLost = 1
  Absent = Absent
INVARIANTS TypeOK ReplayedWhole StampedeTogether
PROPERTIES ReplayReturns
CHECK_DEADLOCK FALSE
