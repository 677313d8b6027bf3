CONSTANTS
  Asking <- MCAsking
  OtherDialogs <- MCOtherDialogs
  MaxPools = 3
  MaxScript = 2
SPECIFICATION FairSpec
INVARIANTS
  LayoutIsOfThisSession
  PasswordLandsWhereMeant
  SeatIsGivenUp
PROPERTIES
  LayoutIsFound
CHECK_DEADLOCK FALSE
