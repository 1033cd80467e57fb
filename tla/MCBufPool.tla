------------------------------ MODULE MCBufPool ------------------------------
(* Instances of BufPool for TLC. *)
EXTENDS BufPool, TLC

PoolSymmetry == Permutations(Threads) \cup Permutations(Frames)
==============================================================================
