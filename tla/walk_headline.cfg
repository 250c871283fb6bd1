SPECIFICATION Spec
CONSTANTS
  StreamCounts <- OneCount
  PodLadder <- ShortLadder
  PlateauPct = 10
  Patiences = {1}
  Repeats = 2
  Mode = "wal"
  Images <- Builds
  Reference <- MovedTag
  Ops = {100, 300}
  MaxRuns = 1
  None = None
PROPERTIES HeadlineFromValidReadings
CHECK_DEADLOCK FALSE
