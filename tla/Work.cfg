SPECIFICATION FairSpec
CONSTANTS
  q1 = q1
  q2 = q2
  w1 = w1
  w2 = w2
  c1 = c1
  c2 = c2
  Items = {w1, w2}
  Queues = {q1, q2}
  Callers = {c1, c2}
  NULL = NULL
  Setups <- MCSetups
INVARIANTS FlushWaits PromiseKept QueuedOnce
PROPERTIES CancelWaits LoneCallEnds QueuedRuns
