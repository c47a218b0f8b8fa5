SPECIFICATION FairSpec
CONSTANTS
  Threads = {a, b}
  WaitQs = {q, r}
  i1 = i1
  i2 = i2
  Items = {i1, i2}
  Prios = {1}
  SMP = TRUE
  NumCPUs = {1, 2}
  NULL = NULL
  MaxMsgs = 2
  MaxEntries = 2
  Lists <- MCLists
  Walkers = {w}
  EventBits = {e, f}
  SemLimit = 1
  SysSemLimit = 2
  MaxStatus = 2
  PipeSizes = {2}
  Writes <- MCWrites
  Reads = {2}
  MinXfers = {0, 1}
  MsgSizes = {0, 1}
  HeapSizes <- MCHeapSizes
  Allocs <- MCAllocs
  Reallocs = {3, 4}
  Awaited = {4}
  AllocLoops = 3
  Kinds = {"msgq", "queue", "stack", "slab", "event", "timer", "futex", "poll",
           "pipe", "heap", "mbox"}
INVARIANTS NobodyWaitsInVain NeverStranded DataKept TimerStaysStopped
PROPERTIES AnswerIsTrue TimedWaitEnds
CHECK_DEADLOCK FALSE
