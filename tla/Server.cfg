SPECIFICATION ServerSpec
CONSTANTS
  c1 = c1
  c2 = c2
  Conn = {c1, c2}
  MaxRequests = 1
  Threads = 1
INVARIANTS
  ServerTypeOK
  PortIsServed
  EndsDrained
PROPERTIES
  WaitingIsAccepted
  SessionsSurviveListener
