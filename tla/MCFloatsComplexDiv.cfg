SPECIFICATION FloatsSpec
CONSTANTS
  MantBits = 28
  MaxExp = 6
  FarShift = 20
  QuotientBits = 8
  F64 <- LaneF64
  F32 <- LaneF32
  Lanes <- AllLanes
  NoLanes <- OtherDtypes
  Lines <- PickedLines
  Factors <- PickedFactors
  Lane <- ComplexLane
  Externals <- SomeExternals
  Pi <- Angle
  Lefts <- LeftOperands
  Rights <- RightOperands
  OtherOps = {"add"}
INVARIANT FiniteOverInfiniteIsZero
CHECK_DEADLOCK FALSE
