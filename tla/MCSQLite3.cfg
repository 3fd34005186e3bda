CONSTANTS
  Stmt = {s1, s2}
  Table = {t1, t2, t3}
  MaxEvaluations = 2
  MaxRows = 2
  MaxCopies = 1
SPECIFICATION Spec
INVARIANTS
  TypeOK
  ClosesClean
  NothingDangles
  NothingOutlives
  TableKnowsCursor
  RunsOncePerEvaluation
SYMMETRY Symmetry
