------------------------------ MODULE MCCommits ------------------------------
(***************************************************************************)
(* Transactions that change edges, and transactions that delete and insert *)
(* vertices, insert an edge of theirs and one of a vertex beyond the       *)
(* index.  A behaviour is one of them; they use the same variables.        *)
(***************************************************************************)
EXTENDS MCTxn

CONSTANT v2

VARIABLE mode

NewEdge == <<v1, v0>>
LostEdge == <<v1, v2>>
WriteOps == {[kind |-> "DELETE_EDGE", e |-> OldEdge], [kind |-> "INSERT_EDGE", e |-> NewEdge],
             [kind |-> "DELETE_EDGE", e |-> NewEdge]}
VertexOps == {[kind |-> "DELETE_VERTEX", e |-> NewEdge], [kind |-> "INSERT_VERTEX", e |-> NewEdge],
              [kind |-> "INSERT_EDGE", e |-> NewEdge], [kind |-> "INSERT_EDGE", e |-> LostEdge]}
AllOps == WriteOps \cup VertexOps

ByEdge   == INSTANCE Txn WITH Ops <- WriteOps
ByVertex == INSTANCE Txn WITH Ops <- VertexOps

ModesInit == mode \in {"edges", "vertices"} /\ Init

ModesNext ==
  /\ UNCHANGED mode
  /\ \/ mode = "edges" /\ ByEdge!Next
     \/ mode = "vertices" /\ ByVertex!Next

ModesSpec == ModesInit /\ [][ModesNext]_<<vars, mode>>
==============================================================================
