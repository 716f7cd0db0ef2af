SPECIFICATION Spec
CONSTANTS
  Trees <- MCTrees
INVARIANTS
  AnyMessageIsSentWhole
CHECK_DEADLOCK FALSE
