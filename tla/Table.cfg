SPECIFICATION Spec
CONSTANTS
  Names = {n1, n2}
  Values = {v1}
  NULL = NULL
  Junk = Junk
  INCREASE_LINES_NUM = 2
  MaxLines = 3
  MaxFields = 2
INVARIANTS
  TypeOK
  IndexesInvert
  NoUnsetCell
PROPERTIES
  ImplementsGrid
