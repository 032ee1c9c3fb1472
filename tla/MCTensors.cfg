\* UsizeMax: five bits.
CONSTANTS
  MaxRank = 3
  UsizeMax = 31
  Calls <- MCCalls
SPECIFICATION TensorsSpec
INVARIANTS ResultIsSpec FaultsAreNamed OutputCountsPlacements TapsAreExact CellsAreCovered
CHECK_DEADLOCK FALSE
