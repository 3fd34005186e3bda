SPECIFICATION Spec
CONSTANTS
  Job = {j1, j2}
  j1 = j1
  j2 = j2
  Paths = {p1, p2}
  p1 = p1
  p2 = p2
  NoPath = NoPath
  Unspecified = Unspecified
  Functors = {"", "file", "query"}
INVARIANTS
  TypeOK
  PathsArePrivate
  ViewsAlive
PROPERTY
  ImplementsLoader
