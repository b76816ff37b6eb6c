SPECIFICATION Spec
CONSTANTS
  s1 = s1
  s2 = s2
  s3 = s3
  k1 = k1
  k2 = k2
  Start <- ThreeStarts
  Stop <- OneStop
  NoPid = NoPid
CHECK_DEADLOCK FALSE
INVARIANTS
  OneTunnel
