CONSTANTS
  kKeep = 2
  kKeepChat = 2
  Kinds <- MCKinds
  Limits <- MCLimits
  MaxNotes = 5
  MaxSessions = 2
  Mine <- MCMine
  Others <- MCOthers
  kChatLines = 2
  kLastFew = 1
  Dialogs <- MCDialogs
  MaxHealth = 2
  MaxLines = 3
  MaxChanges = 1
  Menus <- MCMenus
  Paths <- MCPaths
  MaxShown = 3
  MaxUnasked = 1
  Lingers = TRUE
  MaxWalks = 2
SPECIFICATION SeenSpec
INVARIANTS
  NothingMissed
  LandsWhereRead

  
  
CHECK_DEADLOCK FALSE
