SPECIFICATION FairSpec
CONSTANTS
  Window = 2
  PipeCap = 2
  MaxLines = 4
CHECK_DEADLOCK FALSE
INVARIANTS
  TypeOK
  OutcomeRight
  RotationFound
  NothingUnread
PROPERTIES
  OutcomeComes
