\* Three nodes, two rounds, one of them returning early; one fault.
SPECIFICATION FairSpec
CONSTANTS
  N = 3
  Kinds <- AllKinds
  Early <- OneEarly
  Rounds = 2
  MaxFaults = 1
INVARIANTS
  StopIsBarrier
  FailureHasCause
PROPERTY
  Termination
CHECK_DEADLOCK FALSE
