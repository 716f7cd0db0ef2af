SPECIFICATION Spec
CONSTANTS
  message = message
  Nobody = Nobody
  NoPiece = "none"
  Messages <- MCMessages
  Outboxes <- MCOutboxes
  Dots = {}
  MaxSends = 1
  MaxLines = 1
INVARIANT
  DestructorAbsorbs
CHECK_DEADLOCK FALSE
