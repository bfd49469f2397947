\* Every 4 x 4 complaint matrix.
SPECIFICATION CoverSpec
CONSTANTS
  Left <- Rows
  Right <- Columns
  Graphs <- AllGraphs
INVARIANTS
  IsMatching
  CoverIsMinimum
PROPERTIES
  RoundProgress
CHECK_DEADLOCK FALSE
