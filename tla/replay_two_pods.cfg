SPECIFICATION Spec
CONSTANTS
  Loads <- CatchUpFleet
  PageLimit = 4
  Pages = TRUE
  MaxKept = 0
  MaxLost = 1
  Absent = Absent
INVARIANTS ReplayedWholeByFleet
CHECK_DEADLOCK FALSE
