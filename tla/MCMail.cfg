SPECIFICATION Spec
CONSTANTS
  mail = mail
  other = other
  Nobody = Nobody
  Messages <- MCMessages
  Mails <- MCMails
  Limit = 4
  MaxSends = 3
  MaxLines = 1
INVARIANTS
  TypeOK
  ReturnedMeansSpooled
  SpooledOnce
  NothingPartial
PROPERTIES
  ImplementsSmtp
  SendEnds
CHECK_DEADLOCK FALSE
