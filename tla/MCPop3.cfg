SPECIFICATION Spec
CONSTANTS
  Batch = 2
  MaxMail = 5
  MaxForeign = 1
INVARIANTS
  TypeOK
  OnlyApprovedRemoved
  NewestFirstOnce
  ApprovedGoes
CHECK_DEADLOCK FALSE
