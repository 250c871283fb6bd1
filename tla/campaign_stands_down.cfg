SPECIFICATION CampaignSpec
CONSTANTS
  Modes = {m1}
  Foreign = {}
  Images = {i1}
  ApiFaults = TRUE
  Beside = FALSE
  MaxRuns = 1
  MaxKills = 1
  None = None
  ListFaults = FALSE
INVARIANT StandsDownClean
CHECK_DEADLOCK FALSE
