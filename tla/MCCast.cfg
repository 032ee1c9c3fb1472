CONSTANTS
  MantBits = 10
  MaxExp = 6
  FarShift = 6
  Scale = 11
  Requests <- MCRequests
  Inputs <- MCInputs
SPECIFICATION Spec
INVARIANTS CorrectlyRounded ValuesAreKept Fp8AgreesWithCast
CHECK_DEADLOCK FALSE
