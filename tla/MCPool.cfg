SPECIFICATION ModesSpec
CONSTANTS
  Threads = {t1, t2}
  Frames = {f1, f2}
  NoFrame = NoFrame
  NumPages = 3
  LivePages = 3
  Calls = {"slot", "job", "cp", "scan"}
  MaxCalls = 4
  MaxRetires = 1
SYMMETRY PoolSymmetry
INVARIANTS OneCopy PageStays ListsExact ReadsCurrent
CHECK_DEADLOCK FALSE
