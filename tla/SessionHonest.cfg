SPECIFICATION SessionSpec
CONSTANTS
  Caps <- MCCaps
  Desired <- MCDesired
  DependsOn <- MCDependsOn
  Chunking <- MCChunking
  MaxTrackedCaps = 3
  MaxChallenge = 1
  Timed = TRUE
  ServerKinds <- MCKinds
  Offers <- AnyOffer
  NoNick = NoNick
  TakenNicks = 2
  Injectable <- NoLines
  MaxInjected = 0
  MaxBacklog = 0
  MaxUnread = 0
  MaxNotices = 2
  MaxRenames = 1
  EarlyNotices = FALSE
INVARIANTS AdmittedIsAuthenticated CapsInSync NickInSync
PROPERTY AttemptSettles
CHECK_DEADLOCK FALSE
