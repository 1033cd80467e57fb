SPECIFICATION Spec
CONSTANTS
  Threads = {t1, t2, t3}
  WRITE_LOCK_FLAG = 3
  PoolPages = {p1, p2}
  Triggers = {t1}
  MaxStarts = 2
  MaxUses = 2
  Workers = {w1, w2}
  Callers = {c1, c2}
  Waiters = {x1}
  Pages = {p1, p2, p3}
  NoPage = NoPage
  Capacity = 2
  MaxRequests = 3
INVARIANTS MutualExclusion WordExact NoScanAfterStop StopFlushesQuietPages QueueExact StopIsFinal
PROPERTIES LatchIsLock LatchMovesOn FlusherAnswers PrefetchSettles
