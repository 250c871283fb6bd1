SPECIFICATION Spec
CONSTANTS
  Pods = {p1, p2}
  None = None
  UseBarrier = TRUE
  ApiFaults = TRUE
  Headroom = 1
  Window = 4
  MaxPass = 2
  MaxNow = 6
SYMMETRY Symmetry
INVARIANTS NobodyStranded NoFalseReject
CHECK_DEADLOCK FALSE
