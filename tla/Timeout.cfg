SPECIFICATION FairSpec
CONSTANTS
  c0 = c0
  c1 = c1
  t1 = t1
  t2 = t2
  t3 = t3
  Timeouts = {t1, t2, t3}
  CPUs = {c0, c1}
  Builds <- MCBuilds
  NULL = NULL
  Delays = {0, 2}
  Deadlines = {3}
  MaxReal = 4
INVARIANTS DeadlineKept NoTickLost
PROPERTIES RefinesDeadlines EventuallyExpires
