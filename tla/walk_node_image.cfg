SPECIFICATION Spec
CONSTANTS
  StreamCounts <- OneCount
  PodLadder <- ShortLadder
  PlateauPct = 10
  Patiences = {1}
  Repeats = 1
  Mode = "node"
  Images <- Builds
  Reference <- MovedTag
  Ops = {100, 120}
  MaxRuns = 2
  None = None
INVARIANTS FinishedRunMeasured
CHECK_DEADLOCK FALSE
