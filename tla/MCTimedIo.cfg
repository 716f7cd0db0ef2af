SPECIFICATION TimedSpec
CONSTANTS
  MaxEndpoints = 2
  Needs <- MCNeeds
  MaxOps = 4
INVARIANTS
  TimedTypeOK
  NoStaleHandler
  NoSpuriousTimeout
  OnlyCompositeReadsUnguarded
PROPERTIES
  ConnectEnds
  ReadEndsUnlessUnguarded
CHECK_DEADLOCK FALSE
