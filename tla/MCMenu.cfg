SPECIFICATION MenuSpec
CONSTANTS
  Cap = 2
  MaxLines = 4
  MaxKeys = 1
INVARIANTS LinesInOrder NothingUnasked
PROPERTIES StopEndsScreen NotStuckOnChannel SessionEnds
CHECK_DEADLOCK FALSE
