SPECIFICATION Spec
CONSTANTS
  conn = conn
  Conns <- MCConns
  Requests <- MCRequests
  Responses <- MCResponses
  ErrorBody <- MCErrorBody
INVARIANTS
  TypeOK
  HandlerSeesWholeRequest
  BodyIsWhole
  AgentIsAnswered
PROPERTIES
  ExchangeEnds
CHECK_DEADLOCK FALSE
