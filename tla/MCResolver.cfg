\* MaxStack: deeper than any decomposition.
CONSTANTS
  MaxOperands = 3
  MaxTokens = 5
  MaxStack = 80
  Requests <- MCRequests
SPECIFICATION ScalarSpec
INVARIANTS SupportIsHonest NanPayloadAsDeclared ParsesTheGrammar
PROPERTIES ImplementsDecomposition EveryCallEnds
