CONSTANTS
  Campaign <- CampaignTried
  Controls <- ControlsTried
  MaxScripts = 1
SPECIFICATION BtSpec
INVARIANTS SurvivorsReachedTheTests
CHECK_DEADLOCK FALSE
