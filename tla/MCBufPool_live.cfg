SPECIFICATION FairSpec
CONSTANTS
  Threads = {t1, t2}
  Frames = {f1}
  NoFrame = NoFrame
  NumPages = 2
  LivePages = 2
  Calls = {"read", "slot", "job", "cp", "scan"}
  MaxCalls = 3
  MaxRetires = 1
PROPERTY PoolCallsEnd
CHECK_DEADLOCK FALSE
