SPECIFICATION FairSpec
CONSTANTS
  StreamCounts <- MixedCounts
  PodLadder <- MixedLadder
  PlateauPct = 10
  Patiences = {1, 2}
  Repeats = 1
  Mode = "wal"
  Images <- Builds
  Reference <- MovedTag
  Ops = {100, 105, 111}
  MaxRuns = 2
  None = None
INVARIANTS TypeOK LegacyRule PinNearBest PinnedWhereClimbStopped OneNoisyRungNeverPins FinishedRunMeasured
PROPERTIES RunEnds
CHECK_DEADLOCK FALSE
