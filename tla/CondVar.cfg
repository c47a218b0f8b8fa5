SPECIFICATION MonitorSpec
CONSTANTS
  Threads = {a, b, c}
  WaitQs = {m, v}
  CondVars = {v}
  Prios = {1}
  SMP = TRUE
  NumCPUs = {1, 2}
  NULL = NULL
  Ceiling = 0
  MaxHeld = 1
  MaxTokens = 2
  Habits = {}
INVARIANTS NoLostSignal WaitReturnsLocked
SYMMETRY Symmetry
CHECK_DEADLOCK FALSE
