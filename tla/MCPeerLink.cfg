\* Three tasks send to one peer; one connection breaks, one is refused.
SPECIFICATION FairSpec
CONSTANTS
  f1 = f1
  f2 = f2
  f3 = f3
  Frame <- Frames
  MaxBreaks = 1
  MaxRefusals = 1
  Conn <- Conns
  None = None
INVARIANTS
  NoQuietLoss
  OneRepeatPerConnection
PROPERTY
  Settled
CHECK_DEADLOCK FALSE
