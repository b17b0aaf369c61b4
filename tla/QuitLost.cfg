SPECIFICATION Spec
CONSTANTS
  MaxQueueDepth = 2
  MaxLines = 4
INVARIANT QuitFlushed
CHECK_DEADLOCK FALSE
