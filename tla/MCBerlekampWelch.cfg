\* Words of two to five values over the field of 7, one and two components.
SPECIFICATION DecodeSpec
CONSTANTS
  p = 7
  Codes <- MCCodes
  Inputs <- MCInputs
INVARIANTS
  DecodesNearest
  OutcomesCover
  AnswerIsKept
CHECK_DEADLOCK FALSE
