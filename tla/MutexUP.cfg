SPECIFICATION FairSpec
CONSTANTS
  Threads = {a, b, c}
  WaitQs = {m}
  Prios = {1, 2, 3}
  SMP = FALSE
  NULL = NULL
  Ceiling = 2
  CondVars = {}
  MaxHeld = 1
  Habits = {}
INVARIANTS OwnerKnows NoLostWakeup Inherits
PROPERTIES LockEnds
