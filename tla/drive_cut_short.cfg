SPECIFICATION Spec
CONSTANTS
  Runs <- ShortTimeout
  Grace = 1
  IdleFloor = 1
  Slack = 1
  ConnectFor = 1
  MaxStart = 1
  MaxTime = 2
  None = None
INVARIANTS ListensToTheEnd
CHECK_DEADLOCK FALSE
