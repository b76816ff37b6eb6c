SPECIFICATION Spec
CONSTANTS
  Window = 2
  PipeCap = 2
  MaxLines = 2
CHECK_DEADLOCK FALSE
INVARIANTS
  UpThenExited
