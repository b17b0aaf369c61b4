SPECIFICATION Spec
CONSTANTS
  MaxRetries = 2
  Deadlined = TRUE
  MaxAttempts = 6
INVARIANTS TypeOK RegisteredIsUsable SlotsAreLive NothingLeaks
PROPERTIES KeepsLifecycle ConnectSettles
CHECK_DEADLOCK FALSE
