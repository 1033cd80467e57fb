------------------------------ MODULE MCClosing ------------------------------
(* An instance of Closing for TLC: two consolidations, one with two versions.   *)
EXTENDS Closing, TLC

TwoTasks == ("a" :> {"v1", "v2"}) @@ ("b" :> {"v3"})
==============================================================================
