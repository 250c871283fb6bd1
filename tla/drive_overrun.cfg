SPECIFICATION Spec
CONSTANTS
  Runs <- OneMixed
  Grace = 1
  IdleFloor = 1
  Slack = 1
  ConnectFor = 1
  MaxStart = 0
  MaxTime = 2
  None = None
INVARIANTS NoLateRequest
CHECK_DEADLOCK FALSE
