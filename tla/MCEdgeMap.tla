----------------------------- MODULE MCEdgeMap -----------------------------
(* An instance of EdgeMap for TLC: a path whose order is not that of the       *)
(* numbers, one vertex of it a giant.                                          *)
EXTENDS EdgeMap, TLC

Zigzag == {(0 :> <<3>>) @@ (1 :> <<2>>) @@ (2 :> <<1, 4>>) @@ (3 :> <<0, 4>>) @@ (4 :> <<2, 3>>)}
PageOfVertex == (0 :> 1) @@ (1 :> 2) @@ (2 :> 3) @@ (3 :> 3) @@ (4 :> 1)
=============================================================================
