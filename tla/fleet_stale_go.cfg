SPECIFICATION Spec
CONSTANTS
  Pods = {p1, p2}
  None = None
  UseBarrier = TRUE
  ApiFaults = TRUE
  Headroom = 1
  Window = 1
  MaxPass = 2
  MaxNow = 4
SYMMETRY Symmetry
INVARIANTS NoStaleGo
CHECK_DEADLOCK FALSE
