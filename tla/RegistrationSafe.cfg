SPECIFICATION Spec
CONSTANTS
  Caps <- MCCaps
  Desired <- MCDesired
  DependsOn <- MCDependsOn
  Chunking <- MCChunking
  MaxTrackedCaps = 2
  MaxChallenge = 1
  Timed = TRUE
  ServerKinds <- MCKinds
  Offers <- AllOrNone
  NoNick = NoNick
  TakenNicks = 1
  Injectable <- HostileLines
  MaxInjected = 6
  MaxBacklog = 1
  MaxUnread = 7
  MaxNotices = 1
INVARIANTS TypeOK FailsClosed OneExchangeThenEnd
PROPERTY KeepsContract
CHECK_DEADLOCK FALSE
