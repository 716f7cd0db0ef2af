SPECIFICATION Spec
CONSTANTS
  thread1 = thread1
  thread2 = thread2
  get = get
  post = post
  Threads <- MCThreads
  Keys <- MCKeys
  Idempotent <- MCIdempotent
  MaxHops = 5
  MaxSet = 3
  MaxCalls = 4
INVARIANTS
  TypeOK
  NoneDropped
PROPERTIES
  AnswersInOrder
  RedirectsEnd
CHECK_DEADLOCK FALSE
