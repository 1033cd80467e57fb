SPECIFICATION ModesSpec
CONSTANTS
  Writers = {w1, w2}
  Readers = {r1}
  Vertices = {v1, v2, v3}
  SharedVertices = {v1, v2}
  OneVertex = {v3}
  Dsts = {d1, d2}
  OneDst = {d1}
  BaseGraph <- EmptyGraph
  Ops = {"INSERT", "DELETE"}
  NoWriter = NoWriter
  ChainThreshold = 1
  RecsPerPage = 1
  ManualSwitch = TRUE
  Failures = {"read", "delta", "prepare", "index"}
  MaxPage = 5
  MaxOps = 4
  MaxReads = 1
  MaxJob = 2
SYMMETRY ModesSymmetry
INVARIANTS EdgesExact ReadsRegular FreePagesUnreachable ClaimExclusive  ForwarderOwned
CHECK_DEADLOCK FALSE
