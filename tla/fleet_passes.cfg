SPECIFICATION FairSpec
CONSTANTS
  Pods = {p1, p2}
  None = None
  UseBarrier = TRUE
  ApiFaults = FALSE
  Headroom = 1
  Window = 1
  MaxPass = 2
  MaxNow = 4
INVARIANTS AcceptedFresh NoStaleGo
PROPERTIES BarrierSpec PassEnds
CHECK_DEADLOCK FALSE
