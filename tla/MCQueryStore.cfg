CONSTANTS
  Job = {j1, j2}
  Cells <- MCCells
  Rows <- MCRows
  MaxColumns = 2
  MaxRows = 2
  IntHalf = 4
  NoPath = NoPath
  Unspecified = Unspecified
SPECIFICATION Spec
INVARIANTS
  TypeOK
  AnswerIsWhole
  RowsMatchHeader
  AnswerTellsEffect
  ValuesShowCells
  ExecutedOnce
  NoStatementLeft
PROPERTIES
  UsesLibrary
  ImplementsProcessor
