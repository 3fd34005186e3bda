SPECIFICATION Spec
CONSTANTS
  NPos = 15
  MaxLength = 7
  Bodies <- Strings
INVARIANTS
  TypeOK
  NeverOutOfRange
  SplitsPieces
