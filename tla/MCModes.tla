------------------------------- MODULE MCModes -------------------------------
(***************************************************************************)
(* Consolidation with both ways of publishing versions: by the manual      *)
(* switch, with two vertices that share a page and one destination; at     *)
(* once, with one vertex and two destinations; and either way with a       *)
(* reader of that vertex.  A behaviour is one of them; they use the same   *)
(* variables.                                                              *)
(***************************************************************************)
EXTENDS Consolidation, TLC

CONSTANTS SharedVertices, OneVertex, OneDst

VARIABLE mode

EmptyGraph == [v \in Vertices |-> {}]

Manual == INSTANCE Consolidation WITH
  ManualSwitch <- TRUE, Vertices <- SharedVertices, Dsts <- OneDst, MaxOps <- 3, MaxReads <- 0,
  Failures <- {},
  BaseGraph <- [v \in SharedVertices |-> {}]

Direct == INSTANCE Consolidation WITH
  ManualSwitch <- FALSE, Vertices <- OneVertex, MaxReads <- 0, Failures <- {},
  BaseGraph <- [v \in OneVertex |-> {}]

Reading(byHand) == INSTANCE Consolidation WITH
  ManualSwitch <- byHand, Vertices <- OneVertex, MaxOps <- 2, Failures <- {},
  BaseGraph <- [v \in OneVertex |-> {}]

Failing(byHand) == INSTANCE Consolidation WITH
  ManualSwitch <- byHand, Vertices <- OneVertex, Dsts <- OneDst, MaxOps <- 3, MaxReads <- 0,
  BaseGraph <- [v \in OneVertex |-> {}]

\* A reader with each way of publishing.
Reads(byHand) == mode = IF byHand THEN "read, manual" ELSE "read, direct"

\* Every call that can throw does, with each way of publishing.
Fails(byHand) == mode = IF byHand THEN "failing, manual" ELSE "failing, direct"

ModesInit ==
  \/ mode = "manual" /\ Manual!Init
  \/ mode = "direct" /\ Direct!Init
  \/ \E byHand \in BOOLEAN : Reads(byHand) /\ Reading(byHand)!Init
  \/ \E byHand \in BOOLEAN : Fails(byHand) /\ Failing(byHand)!Init

ModesNext ==
  /\ UNCHANGED mode
  /\ \/ mode = "manual" /\ Manual!Next
     \/ mode = "direct" /\ Direct!Next
     \/ \E byHand \in BOOLEAN : Reads(byHand) /\ Reading(byHand)!Next
     \/ \E byHand \in BOOLEAN : Fails(byHand) /\ Failing(byHand)!Next

ModesSpec == ModesInit /\ [][ModesNext]_<<vars, mode>>

\* The modes with one destination do not treat the destinations alike, but have
\* no two states that differ by an exchange of them.
ModesSymmetry == Permutations(Writers) \cup Permutations(SharedVertices) \cup Permutations(Dsts)
==============================================================================
