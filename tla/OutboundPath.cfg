SPECIFICATION Spec
CONSTANTS
  MaxQueueDepth = 2
  MaxLines = 4
INVARIANTS WireInOrder NoSocketLeaks
PROPERTIES CloseEnds LinesMove
CHECK_DEADLOCK FALSE
