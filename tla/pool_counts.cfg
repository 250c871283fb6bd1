SPECIFICATION FairSpec
CONSTANTS
  NPods = 1
  NStreams = 3
  Conns = 2
  MaxSends = 2
  Restarts = 1
  Timeouts = 1
INVARIANTS ServerMatchesClients MeasuredAccounted WorkersApart EvenCoverage
PROPERTY ResultDelivered
CHECK_DEADLOCK FALSE
