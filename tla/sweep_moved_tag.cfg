SPECIFICATION Spec
CONSTANTS
  Workload = "mixed"
  StreamCounts <- TwoCounts
  LevelLists <- TwoLevels
  Mode = "wal"
  Images <- Builds
  Reference <- MovedTag
  Rate = 500
  Latency = 7
  MaxRuns = 2
  None = None
INVARIANTS FinishedSweepOnImage
CHECK_DEADLOCK FALSE
