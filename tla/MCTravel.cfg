CONSTANTS
  MaxDistance = 2
  kNoGainForMs = 1
  kWalkLimitMs = 2
  kMaxExploringStages = 2
  MaxJourneys = 2
  MaxCarried = 1
SPECIFICATION JourneySpec
PROPERTIES
  IsATrip
  EndsInTheOpen
CHECK_DEADLOCK FALSE
