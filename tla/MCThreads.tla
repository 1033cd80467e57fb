------------------------------ MODULE MCThreads ------------------------------
(***************************************************************************)
(* Instances of the three small thread protocols: the latch, a background  *)
(* flusher and the prefetch queue.  They share no state, so a behaviour    *)
(* moves one of them; the other two stay in their initial state, where     *)
(* none of their fair actions is enabled.                                  *)
(***************************************************************************)
EXTENDS RWLatch, Flusher, Prefetch

VARIABLE unit   \* the protocol that moves

allVars == <<unit, latchVars, flusherVars, prefetchVars>>

Init == unit \in {"latch", "flusher", "prefetch"} /\ LatchInit /\ FlusherInit /\ PrefetchInit

Next ==
  \/ unit = "latch" /\ LatchNext /\ UNCHANGED <<unit, flusherVars, prefetchVars>>
  \/ unit = "flusher" /\ FlusherNext /\ UNCHANGED <<unit, latchVars, prefetchVars>>
  \/ unit = "prefetch" /\ PrefetchNext /\ UNCHANGED <<unit, latchVars, flusherVars>>

Spec == Init /\ [][Next]_allVars /\ LatchFairness /\ FlusherFairness /\ PrefetchFairness
==============================================================================
