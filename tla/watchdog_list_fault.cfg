SPECIFICATION CampaignSpec
CONSTANTS
  Modes = {m1, m2}
  Foreign = {m2}
  Images = {i1}
  ApiFaults = TRUE
  Beside = FALSE
  MaxRuns = 1
  MaxKills = 0
  None = None
  ListFaults = TRUE
INVARIANT StandsDownForGood
CHECK_DEADLOCK FALSE
