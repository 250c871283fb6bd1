SPECIFICATION Spec
CONSTANTS
  Workload = "sustained"
  StreamCounts <- TwoCounts
  LevelLists <- OneLevel
  Mode = "wal"
  Images <- Builds
  Reference <- MovedTag
  Rate = 500
  Latency = 7
  MaxRuns = 2
  None = None
INVARIANTS OkHasItsThroughput
CHECK_DEADLOCK FALSE
