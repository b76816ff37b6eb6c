SPECIFICATION FairSpec
CONSTANTS
  l1 = l1
  l2 = l2
  c1 = c1
  Launch <- TwoLaunches
  Cli <- OneCli
  Casts <- Pairs
  MaxStops = 1
  NoOne = NoOne
CHECK_DEADLOCK FALSE
INVARIANTS
  TypeOK
  OneReachableApp
  QuitStops
  PidFileTrue
  
PROPERTIES
  Adopted
  LossNoticed
