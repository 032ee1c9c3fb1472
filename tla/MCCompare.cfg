SPECIFICATION CompareSpec
CONSTANTS
  PairFormats <- ComparedFormats
  Formats <- BatchFormats
  Tolerances <- BatchTolerances
  Batches <- AllBatches
  Ulps = {0, 1, 2, 5}
INVARIANTS DistanceCountsNumbers VerdictIsFair ReportIsTrue
CHECK_DEADLOCK FALSE
