SPECIFICATION FairWalkSpec
CONSTANTS
  UlpBounds = {1}
  Dags <- MCDags
CHECK_DEADLOCK FALSE
INVARIANTS VerdictSound HeapBound OperandsReady
PROPERTIES ImplementsSpec Terminates
