SPECIFICATION Spec
CONSTANTS
  Threads = {a, b, c}
  WaitQs = {s}
  Prios = {1, 2}
  SMP = FALSE
  NULL = NULL
  Limit = 2
  Calls = {"reset", "suspend", "set_prio"}
INVARIANTS NoLostWakeup ForeverIsForever NeverStranded LongestWaitingFirst
PROPERTIES SuccessIffToken
SYMMETRY Symmetry
