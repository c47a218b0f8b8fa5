SPECIFICATION Spec
CONSTANTS
  Threads = {a, b, c}
  IDLE = IDLE
  DUMMY = DUMMY
  NULL = NULL
  OBJ = OBJ
  Prios = {0, 1, 2, 3}
  NumMetairq = 1
  FirstPreempt = 2
  SliceMaxPrio = 2
  Workloads = {{"start", "start_early", "yield", "sleep", "pend", "timed", "lock", "slice"},
               {"start", "yield", "sleep", "pend", "abort", "slice"},
               {"preemptive", "start", "pend", "suspend", "abort", "halt", "kill", "join"},
               {"preemptive", "start", "sleep", "pend", "timed", "suspend", "abort", "halt",
                "wakeup"},
               {"preemptive", "start", "pend", "lock", "prio"}}
  MaxLock = 1
INVARIANTS HighestRuns SliceRuns QueuesExact DeadIsGone SuspendHolds
PROPERTIES TurnKept CoopKept MetairqReturns
SYMMETRY Symmetry
