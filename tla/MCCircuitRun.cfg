\* All circuits of three gates over two inputs; invalid ones of two gates.
SPECIFICATION CircuitSpec
CONSTANTS
  n = 5
  t = 1
  Circuits <- MCCircuits
INVARIANTS
  SharesArePlain
  SharingsUsedOnce
  CostIsPredicted
