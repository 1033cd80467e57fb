SPECIFICATION ModesSpec
CONSTANTS
  v0 = v0
  v1 = v1
  v2 = v2
  Txns = {t1, t2, t3}
  Serializable = {t1, t2}
  Vertices = {v0, v1, v2}
  Missing = {v2}
  Zero = v0
  Base <- OneEdge
  Ops <- AllOps
  NoTxn = NoTxn
  MaxOps = 1
  MaxReads = 1
  MaxMerges = 1
SYMMETRY TxnSymmetry
INVARIANTS NoDirtyRead SnapshotExact MergeExact ConflictsKept ReadKeysUnchanged
CHECK_DEADLOCK FALSE
