-------------------------------- MODULE MCTxn --------------------------------
(* An instance of Txn for TLC: vertices 0 and 1 and an edge that is there from *)
(* the start.                                                                  *)
EXTENDS Txn, TLC

CONSTANTS v0, v1
OldEdge == <<v0, v1>>
OneEdge == {OldEdge}
DeleteInsert == {[kind |-> "DELETE_EDGE", e |-> OldEdge], [kind |-> "INSERT_EDGE", e |-> OldEdge]}
TxnSymmetry == Permutations(Serializable)
==============================================================================
