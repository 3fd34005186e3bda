SPECIFICATION Spec
CONSTANTS
  NPos = 15
  MaxLength = 7
  Targets <- Strings
INVARIANTS
  TypeOK
  NeverOutOfRange
  CutsAtSeparators
  FrontExists
