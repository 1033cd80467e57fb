SPECIFICATION Spec
CONSTANTS
  Writers = {w1, w2}
  Readers = {}
  Vertices = {v1}
  Dsts = {d1, d2}
  BaseGraph <- EmptyGraph
  Ops = {"INSERT"}
  NoWriter = NoWriter
  ChainThreshold = 1
  RecsPerPage = 1
  ManualSwitch = FALSE
  Failures = {}
  MaxPage = 5
  MaxOps = 3
  MaxReads = 0
  MaxJob = 1
SYMMETRY WriterSymmetry
INVARIANT InsertsNeverLost
CHECK_DEADLOCK FALSE
