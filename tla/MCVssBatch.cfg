\* Two secrets; two faulty row parties, twice the fault bound, that may lie about
\* one secret or both; a node whose run may fail.
SPECIFICATION FairSpec
CONSTANTS
  n = 5
  t = 1
  Dealer = 1
  ByzRow = {2, 3}
  ByzCol = {}
  Targets = {1, 2, 4}
  MayFail = {3}
  Batch = {1, 2}
  Chosen = 2
  Lies <- AllOrNobody
  CoverOf <- MinimumCover
PROPERTIES
  ImplementsVss
  Termination
CHECK_DEADLOCK FALSE
