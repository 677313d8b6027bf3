CONSTANTS
  W = 4
  H = 3
  Stride = 2
  MaxStep = 400
  ClearWanted = 2
  MaxLeg = 300
  Reach = 8
  NoFloor = NoFloor
  Pictures <- MCPictures
  Starts <- MCStarts
  Targets <- MCTargets
  Spots <- MCSpots
  kStepChain = 600
  kGroundTries = 2
  kProgressWanted = 100
  kExploreLeast = 200
  kExploredKeepOut = 150
  kStageKeepOut = 100
  kPointlessRoute = 100
  kAtTheTarget = 150
  kFieldShortOk = 100
  kFieldStageMin = 300
  kFieldStageLeast = 100
  kMaxExplored = 2
  kSamePlace = 100
  kStuckKeepOut = 100
  kKeepAtMost = 1
  kShortErrand = 200
  MaxStages = 2
  Cities <- MCCities
  kWholeMapAreas = 2
  Places <- MCPlaces
  kSewSquare = 2
  kSewRings = 3
  kSewRiseCosts = 4
  kCorridorJoin = 2
  kCorridorReach = 4
  kMinCorridorStep = 1
  kCorridorAhead = 3
  kJoinRadius = 3
  MaxErrands = 3
  Squares <- MCSquares
  Questions <- MCQuestions
  Far <- MCFar
  CutStep <- MCCutStep
  CutSquare <- MCCutSquare
  kStepAtMost = 2
  kNearEnough = 4
  kMaxVisited = 4
  kSaveEvery = 1
  MaxSteps = 3
  MaxStepsTorn = 0
  n1 = n1
  n2 = n2
  A = A
  B = B
  Nowhere = Nowhere
  kSmoothLookahead = 3
  kSmoothPasses = 1
  kMaxReplans = 1
  MaxRoute = 2
  MaxLooks = 1
  MaxPlans = 1
  MaxLives = 2
  Side = 5
  Rooms <- MCRooms
  kDoorOpen = 1
  kPickupDisc = 1
  kSqueezeOut = 1
  kBeside = 2
  kThinned = 4
SPECIFICATION GroundSpec
INVARIANTS
  ClearanceIsTheDistance
  SearchFindsTheBest
  StageGetsSomewhere
  
  WaysWereWalked
  
  GridOutlivesItsSearch
  
PROPERTY PlansEnd
CHECK_DEADLOCK FALSE
