SPECIFICATION FairSpec
CONSTANTS
  pt = pt
  o1 = o1
  o2 = o2
  r1 = r1
  Cases <- AllCases
  Pinentry = pt
  Own <- OthersOwn
  Refused <- OthersRefused
  MaxServes = 2
CHECK_DEADLOCK FALSE
INVARIANTS
  TypeOK
  GateSound
  HelperAgrees
  FieldsArrive
  PasswordArrives
PROPERTIES
  PinentryEnds
