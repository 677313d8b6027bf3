CONSTANTS
  MaxDistance = 1
  kNoGainForMs = 1
  kWalkLimitMs = 2
  kMaxExploringStages = 2
  MaxJourneys = 1
  MaxCarried = 0
SPECIFICATION FairSpec
PROPERTIES
  GivesUp
CHECK_DEADLOCK FALSE
