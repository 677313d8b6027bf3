CONSTANTS
  kMaxTasks = 2
  kTasksPerFrame = 2
  MaxPosts = 3
  MaxBatch = 2
  Neighbours = {"n1", "n2"}
  kFrames = 2
  kRehooks = 2
  MaxNested = 2
  Lines <- MCLines
  MaxLines = 2
  Slots = {1, 2}
  Standings <- MCStandings
  Movers <- MCMovers
  Places = {5, 9}
  Questions <- MCQuestions
  Footprints <- MCFootprints
  FaultsAt = {2}
  SectorCells = 2
  kWindow = 7
  kWindowMargin = 2
  kRebuildEvery = 2
  kRepeat = 4
  kMaxSpread = 4
SPECIFICATION FrameSpec
INVARIANTS
  GameHearsWhatItShould
  NothingHeldAtReset
  PointerChangesHands
  LinesMatchTheWorld
  FootprintsMatchTheWorld
PROPERTIES
  KeepsThePromise
  EveryCallReturns
  
CHECK_DEADLOCK FALSE
