SPECIFICATION Spec
CONSTANTS
  Conn = {c1}
  c1 = c1
  MaxRequests = 4
INVARIANTS
  TypeOK
  HandlersOwnSession
  OneActivity
  AnswersInOrder
  GracefulClose
PROPERTIES
  ServesNextRequest
  StrandKeepsHandlersApart
  SessionsEnd
  ImplementsConnection
