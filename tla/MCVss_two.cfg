\* n = 4t + 1 with t = 2: two faulty row parties, two faulty column parties,
\* and one node whose run may fail.
SPECIFICATION Spec
CONSTANTS
  n = 9
  t = 2
  Dealer = 1
  ByzRow = {2, 3}
  ByzCol = {4, 5}
  Targets = {1, 6}
  MayFail = {9}
  CoverOf <- MinimumCover
CONSTRAINT
  OneAfterAnother
INVARIANTS
  NobodyGivesUp
  ErrorsCovered
  SharesRight
CHECK_DEADLOCK FALSE
