\* n = 4t + 2 with t = 1, a faulty node, a node that may fail, and three repeated
\* frames: enough for masks that cannot be decoded.
SPECIFICATION FairSpec
CONSTANTS
  n = 6
  t = 1
  Faulty = {2}
  MayFail = {3}
  Repeats = 3
INVARIANTS
  SharesRight
  AbortStopsAll
PROPERTY Termination
CHECK_DEADLOCK FALSE
