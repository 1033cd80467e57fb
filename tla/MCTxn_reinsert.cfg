SPECIFICATION Spec
CONSTANTS
  v0 = v0
  v1 = v1
  Txns = {t1, t2, t3}
  Serializable = {}
  Vertices = {v0, v1}
  Missing = {}
  Zero = v0
  Base <- OneEdge
  Ops <- DeleteInsert
  NoTxn = NoTxn
  MaxOps = 1
  MaxReads = 0
  MaxMerges = 0
INVARIANT CommittedEdgesSeen
CHECK_DEADLOCK FALSE
