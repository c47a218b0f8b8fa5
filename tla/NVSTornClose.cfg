SPECIFICATION Spec
CONSTANTS
  x = x
  y = y
  Ids = {a, b}
  Values = {x, y}
  LenOf <- MCLenOf
  Shapes <- MCShapes
  MaxFailures = 2
  TearsFull = TRUE
  NULL = NULL
INVARIANTS ReadsLast
SYMMETRY Symmetry
