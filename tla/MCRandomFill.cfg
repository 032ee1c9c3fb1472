SPECIFICATION Spec
CONSTANTS
  B = 8
  M0 = 5
  M1 = 3
  W0 = 3
  W1 = 6
  XorOf <- Xors
  Mantissas = 4
  Calls <- AllCalls
INVARIANTS PositionPure CellsAreApart MaskIsUniformBelow
CHECK_DEADLOCK FALSE
