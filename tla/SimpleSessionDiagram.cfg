SPECIFICATION Spec
CONSTANTS
  Conn = {c1}
  c1 = c1
  MaxRequests = 2
PROPERTY
  WriteErrorEndsSession
