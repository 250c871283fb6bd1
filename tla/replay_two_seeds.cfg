SPECIFICATION Spec
CONSTANTS
  Loads <- ReadsFleet
  PageLimit = 4
  Pages = FALSE
  MaxKept = 0
  MaxLost = 1
  Absent = Absent
INVARIANTS SeededOnce
CHECK_DEADLOCK FALSE
