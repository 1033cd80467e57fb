--------------------------- MODULE MCConsolidation ---------------------------
(* Instances of Consolidation for TLC. *)
EXTENDS Consolidation, TLC

EmptyGraph == [v \in Vertices |-> {}]

WriterSymmetry == Permutations(Writers)
==============================================================================
