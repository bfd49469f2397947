\* Three layers of two gates, one gate at a time; one node may fail.
SPECIFICATION FairSpec
CONSTANTS
  p1 = p1
  p2 = p2
  p3 = p3
  Node <- ThreeNodes
  Dealer <- TwoDealers
  Layers = 3
  Gates = 2
  Inputs = 2
  Limit = 1
  MayFail <- OneFails
INVARIANTS
  NothingUnreceivedIsCleared
  OperandsPresent
PROPERTIES
  ImplementsBarrier
  Termination
CHECK_DEADLOCK FALSE
