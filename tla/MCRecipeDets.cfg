SPECIFICATION WalkSpec
CONSTANTS
  UlpBounds = {2, 4}
  Dags <- MCDags
CHECK_DEADLOCK FALSE
INVARIANTS DetsArePathwise SelectionsAreNeverUlp DtypeIsInherited
