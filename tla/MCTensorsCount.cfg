\* UsizeMax: five bits.
CONSTANTS
  MaxRank = 3
  UsizeMax = 31
  Calls <- MCCalls
SPECIFICATION TensorsSpec
INVARIANT ReducedCountIsFolded
CHECK_DEADLOCK FALSE
