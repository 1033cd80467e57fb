SPECIFICATION Spec
CONSTANTS
  Threads = {t1, t2}
  Frames = {f1, f2}
  NoFrame = NoFrame
  NumPages = 3
  LivePages = 2
  Calls = {"read", "cp"}
  MaxCalls = 4
  MaxRetires = 0
SYMMETRY PoolSymmetry
INVARIANT ReadsNeverStale
CHECK_DEADLOCK FALSE
