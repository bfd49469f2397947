\* n = 4t + 1 with t = 1: one faulty row party and one faulty column party.
SPECIFICATION FairSpec
CONSTANTS
  n = 5
  t = 1
  Dealer = 1
  ByzRow = {2}
  ByzCol = {4}
  Targets = {1, 2, 4}
  MayFail = {}
  CoverOf <- MinimumCover
INVARIANTS
  AccusesWrongRows
  CoverAgreement
PROPERTIES
  ImplementsIdeal
  Termination
CHECK_DEADLOCK FALSE
