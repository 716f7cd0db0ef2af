SPECIFICATION TimedSpec
CONSTANTS
  MaxEndpoints = 2
  Needs <- MCNeeds
  MaxOps = 4
PROPERTY
  ReadsTimeOut
CHECK_DEADLOCK FALSE
