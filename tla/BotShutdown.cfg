CONSTANTS
  NumModules = 2
  MaxCleanups = 2
  MaxRetries = 1
  MaxAttempts = 2
SPECIFICATION Spec
INVARIANTS NothingLeftBehind UndoneInReverse FreshPerConnection
PROPERTIES KeepsBot StopEnds
CHECK_DEADLOCK FALSE
