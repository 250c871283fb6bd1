SPECIFICATION FairSpec
CONSTANTS
  Runs <- AllRuns
  Grace = 1
  IdleFloor = 1
  Slack = 1
  ConnectFor = 1
  MaxStart = 0
  MaxTime = 2
  None = None
INVARIANTS HeardFromTheStart OneWindow AtMostOneLate RecordsTheWindow
PROPERTIES RunReturns
CHECK_DEADLOCK FALSE
