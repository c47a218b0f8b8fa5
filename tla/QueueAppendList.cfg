SPECIFICATION FairSpec
CONSTANTS
  Threads = {a, b}
  WaitQs = {q, r}
  i1 = i1
  i2 = i2
  Items = {i1, i2}
  Prios = {1}
  SMP = TRUE
  NumCPUs = {1}
  NULL = NULL
  MaxMsgs = 2
  MaxEntries = 2
  Lists <- ShortLists
  Walkers = {}
  EventBits = {e, f}
  SemLimit = 1
  SysSemLimit = 2
  MaxStatus = 2
  PipeSizes = {2}
  Writes <- MCWrites
  Reads = {2}
  MinXfers = {0, 1}
  MsgSizes = {0, 1}
  HeapSizes <- MCHeapSizes
  Allocs <- MCAllocs
  Reallocs = {3, 4}
  Awaited = {4}
  AllocLoops = 3
  Kinds = {"queue"}
PROPERTIES TimedWaitEnds
