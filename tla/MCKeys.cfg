CONSTANTS
  enter = enter
  forward = forward
  NoKey = NoKey
  ScriptKeys <- MCScriptKeys
  HoldKeys <- MCHoldKeys
  HoldFrames = 0
  LetterFrames = 1
  PressFrames = {0}
  MaxScript = 2
SPECIFICATION FairSpec
INVARIANTS
  HoldsExactlyUnlessPanicked
PROPERTIES
  PanicReleases
CHECK_DEADLOCK FALSE
