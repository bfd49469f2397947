\* Three launches of three repeats, one of which may fail.
SPECIFICATION Spec
CONSTANTS
  Repeats = 3
  StageRows = 2
  MayFail = {2}
  MaxLaunches = 3
INVARIANTS
  CountedHasRows
  NothingRunTwice
  CostsFollowCounts
  AllCounted
CHECK_DEADLOCK FALSE
