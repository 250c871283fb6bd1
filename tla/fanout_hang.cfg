SPECIFICATION FairSpec
CONSTANTS
  Runs <- OneFanout
  Grace = 1
  IdleFloor = 1
  Slack = 1
  ConnectFor = 1
  MaxStart = 0
  MaxTime = 2
  None = None
PROPERTIES FanoutReturns
CHECK_DEADLOCK FALSE
