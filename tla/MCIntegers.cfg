SPECIFICATION LanesSpec
CONSTANTS
  Dtypes <- MCDtypes
  LaneHalf = 128
  Cells <- MCCells
  TermCount = 3
  Jobs <- MCJobs
  Extent = 2
  MaxNodes = 3
  Binds <- MCBinds
  OpNodes <- MCOpNodes
  ScalarCalls <- MCCalls
  I64 <- i4
  Elements <- MCElements
  MaxLine = 4
INVARIANTS TruncatesExactly StaysInDtype OrderIndependent
  MatchesCircuit DecompositionsAgree TruthIsKept RecipeIsExact
CHECK_DEADLOCK FALSE
