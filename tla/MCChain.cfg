CONSTANTS
  Menus <- MCMenus
  Chains <- MCChains
  OnDialog = TRUE
  OnSpokenTo = TRUE
  OnHurt = TRUE
  HurtBy = 2
  MaxHealth = 2
  MaxChains = 1
  MaxShown = 3
  MaxUnasked = 0
  Lingers = FALSE
  Ring = 4
  Arrangements <- MCArrangements
  kMinStrings = 2
  kMinSentences = 2
  kMinRun = 3
  kMaxEntries = 9
  kMinTimeSamples = 2
  kMinTimeDistinct = 1
  kMaxAge = 15
  kMinSignatureVoters = 2
  kMaxVoters = 6
  kMaxProposers = 2
  kMaxAnchoredAttempts = 1
  kRetryAfter = 1
  Utterances <- MCUtterances
  Pauses = {0, 1}
  MaxLines = 5
SPECIFICATION ReadingSpec
INVARIANTS
  DoneMeansSeen
  NoJourneyAfterTheChain
  ReadsWhatWasSaid
PROPERTY ChainsEnd
CHECK_DEADLOCK FALSE
