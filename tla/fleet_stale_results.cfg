SPECIFICATION Spec
CONSTANTS
  Pods = {p1}
  None = None
  UseBarrier = FALSE
  ApiFaults = FALSE
  Headroom = 1
  Window = 1
  MaxPass = 2
  MaxNow = 4
INVARIANTS AcceptedFresh
CHECK_DEADLOCK FALSE
