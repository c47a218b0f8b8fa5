SPECIFICATION Spec
CONSTANTS
  Threads = {a, b}
  WaitQs = {m, n}
  Prios = {1, 2}
  SMP = TRUE
  NULL = NULL
  Ceiling = 0
  CondVars = {}
  MaxHeld = 2
  Habits = {"nested", "any_order", "suspend"}
INVARIANTS OwnerAlone PriorityRestored
SYMMETRY Symmetry
CHECK_DEADLOCK FALSE
