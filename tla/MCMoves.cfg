CONSTANTS
  MaxLegs = 2
  LegLength = 2
  MaxWalks = 1
  Closely = {TRUE, FALSE}
  kWalkLimit = 4
  kNoCloser = 2
  kGrace = 1
  kLetGo = 1
  kBusy = 1
  kBlockedNoProgress = 1
  kWaitForPerson = 1
  kWaitForTraffic = 1
  kMaxBackOuts = 1
  kPushesPerPlace = 1
  kDoorPushes = 1
  kMaxSidesteps = 1
  kMaxSideChanges = 1
  kJumpsWhenWedged = 1
  Ranks = 2
  MaxDetours = 2
  kCentreClearProbes = 2
  kDeadEndProbes = 2
  kFollowGiveUp = 3
  Ways = {0, 20, 70, 165, 200, 340}
  kFramesSprintUpBeforeJump = 2
  kJumpHold = 2
  kJumpTakes = 3
  MaxNodes = 2
  MaxDrives = 1
  kStuckAfter = 2
  kReverseFor = 2
  kGiveUpAfterStuck = 2
  Chains <- MCChains
  MaxQueued = 1
  MaxAsked = 3
SPECIFICATION MovesSpec
INVARIANTS
  HeldIsNotStuck
  OnlyWhatWasLeft
PROPERTIES
  WalksEnd
  WallIsHandedBack
  SprintIsUpForAJump
  WedgedDriveEnds
  KeysComeUp
CHECK_DEADLOCK FALSE
