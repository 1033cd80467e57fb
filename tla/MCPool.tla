-------------------------------- MODULE MCPool --------------------------------
(***************************************************************************)
(* The buffer pool with callers that change pages, and with callers that   *)
(* keep them pinned for a job; in both, copies and scans of any page       *)
(* number.  A behaviour is one of them; they use the same variables.       *)
(***************************************************************************)
EXTENDS BufPool, TLC

VARIABLE mode

Changing == INSTANCE BufPool WITH Calls <- {"slot", "cp", "scan"}
Pinning  == INSTANCE BufPool WITH Calls <- {"job", "cp", "scan"}, LivePages <- 2, MaxCalls <- 3

ModesInit ==
  \/ mode = "changing" /\ Changing!Init
  \/ mode = "pinning" /\ Pinning!Init

ModesNext ==
  /\ UNCHANGED mode
  /\ \/ mode = "changing" /\ Changing!Next
     \/ mode = "pinning" /\ Pinning!Next

ModesSpec == ModesInit /\ [][ModesNext]_<<vars, mode>>

PoolSymmetry == Permutations(Threads) \cup Permutations(Frames)
==============================================================================
