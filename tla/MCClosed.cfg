SPECIFICATION FairSpec
CONSTANTS
  a1 = a1
  a2 = a2
  a3 = a3
  d1 = d1
  Attempt <- TwoAttempts
  Disconnect <- OneDisconnect
  Poller = Poller
  NoOne = NoOne
  Pins = {TRUE}
  MaxConnects = 1
  FallbackModal = FALSE
CHECK_DEADLOCK FALSE
PROPERTIES
  ClosedStaysClosed
