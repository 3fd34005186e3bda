SPECIFICATION ServerSpec
CONSTANTS
  c1 = c1
  Conn = {c1}
  MaxRequests = 1
  Threads = 4
INVARIANT
  EndsInOrder
