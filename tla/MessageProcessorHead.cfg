SPECIFICATION Spec
CONSTANTS
  Job = {j1}
  j1 = j1
  Paths = {p1}
  p1 = p1
  NoPath = NoPath
  Unspecified = Unspecified
  Functors = {"", "file", "query"}
INVARIANT
  HeadHasNoBody
