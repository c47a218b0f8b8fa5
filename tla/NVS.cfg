SPECIFICATION Spec
CONSTANTS
  x = x
  y = y
  Ids = {a, b}
  Values = {x, y}
  LenOf <- MCLenOf
  Shapes <- MCShapes
  MaxFailures = 2
  TearsFull = FALSE
  NULL = NULL
INVARIANTS ReadsLast NeverOverwrites NeverRefuses
SYMMETRY Symmetry
