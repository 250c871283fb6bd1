SPECIFICATION Spec
CONSTANTS
  NPods = 1
  NStreams = 1
  Conns = 1
  MaxSends = 2
  Restarts = 0
  Timeouts = 1
INVARIANT VerifyExact
CHECK_DEADLOCK FALSE
