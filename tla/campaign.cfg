SPECIFICATION CampaignFairSpec
CONSTANTS
  Modes = {m1}
  Foreign = {m1}
  Images = {i1}
  ApiFaults = TRUE
  Beside = TRUE
  MaxRuns = 2
  MaxKills = 1
  None = None
  ListFaults = FALSE
INVARIANTS CampaignTypeOK StandsDownForGood
PROPERTIES NothingTakenUnderWork ClustersNeverBillForever
CHECK_DEADLOCK FALSE
