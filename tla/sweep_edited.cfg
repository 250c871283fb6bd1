SPECIFICATION Spec
CONSTANTS
  Workload = "mixed"
  StreamCounts <- TwoCounts
  LevelLists <- EditedLevels
  Mode = "wal"
  Images <- Builds
  Reference <- MovedTag
  Rate = 500
  Latency = 7
  MaxRuns = 2
  None = None
INVARIANTS FinishedSweepCovers
CHECK_DEADLOCK FALSE
