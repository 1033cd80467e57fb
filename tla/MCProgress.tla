----------------------------- MODULE MCProgress -----------------------------
(***************************************************************************)
(* What must come to an end: the functions over the edge map, updates and  *)
(* consolidations with each way of publishing versions, and the closing of *)
(* a database.  They share no state; a behaviour is one of them.  Closing  *)
(* has its own variables and constants; the others keep their variables in *)
(* the registers s1 .. s19, in the order of the INSTANCE, and leave the    *)
(* registers above unused.                                                 *)
(***************************************************************************)
EXTENDS Closing, TLC

VARIABLES unit, s1, s2, s3, s4, s5, s6, s7, s8, s9, s10, s11, s12, s13, s14, s15, s16, s17, s18, s19

over13 == <<s14, s15, s16, s17, s18, s19>>
registers == <<s1, s2, s3, s4, s5, s6, s7, s8, s9, s10, s11, s12, s13, over13>>
allVars == <<unit, registers, closingVars>>

Unused13 == s14 = 0 /\ s15 = 0 /\ s16 = 0 /\ s17 = 0 /\ s18 = 0 /\ s19 = 0
Unused ==
  /\ s1 = 0 /\ s2 = 0 /\ s3 = 0 /\ s4 = 0 /\ s5 = 0 /\ s6 = 0 /\ s7 = 0 /\ s8 = 0 /\ s9 = 0
  /\ s10 = 0 /\ s11 = 0 /\ s12 = 0 /\ s13 = 0 /\ Unused13

-----------------------------------------------------------------------------
(* The instances *)

\* A path whose order is not that of the numbers, one vertex of it a giant.
Zigzag == (0 :> <<2>>) @@ (1 :> <<2>>) @@ (2 :> <<0, 1>>)
TwoWorkers == {"w1", "w2"}
Edge == INSTANCE EdgeMap WITH
  N <- 3, Graphs <- {Zigzag}, Giants <- {1}, PageOf <- [v \in 0 .. 2 |-> v], Workers <- TwoWorkers,
  Divisors <- {1, 20}, MaxIterations <- 2, Starts <- {1},
  prog <- s1, adj <- s2, threshold <- s3, val <- s4, prev <- s5, front <- s6, todo <- s7, out <- s8,
  run <- s9, changed <- s10, moved <- s11, iteration <- s12, phase <- s13

\* Two writers, a reader and two jobs on one edge.
TwoWriters == {"w1", "w2"}
OneReader == {"r1"}
TwoJobs == 1 .. 2
JobPages == 1 .. 5
Consolidating(byHand) == INSTANCE Consolidation WITH
  Writers <- TwoWriters, Readers <- OneReader, Vertices <- {"v1"}, Dsts <- {"d1"},
  BaseGraph <- [v \in {"v1"} |-> {}], Ops <- {"INSERT", "DELETE"}, NoWriter <- "none",
  ChainThreshold <- 1, RecsPerPage <- 1, ManualSwitch <- byHand, Failures <- {"read", "prepare", "index"}, MaxPage <- 5, MaxOps <- 2,
  MaxReads <- 1, MaxJob <- 2,
  csr <- s1, cur <- s2, head <- s3, vlatch <- s4, recs <- s5, chain <- s6, fwd <- s7, claimed <- s8,
  freeSlots <- s9, nextPage <- s10, job <- s11, njobs <- s12, wr <- s13, rd <- s14, nops <- s15,
  nreads <- s16, pending <- s17, switching <- s18, hist <- s19

\* One consolidation of two versions.
TwoVersions == "a" :> {"v1", "v2"}

-----------------------------------------------------------------------------
(* One of them *)

\* The unit that consolidates, by how it publishes versions.
Consolidates(byHand) == unit = IF byHand THEN "manual switch" ELSE "consolidation"

\* Closing has a part of its state to choose; it stays as it is when another moves.
Init ==
  /\ ClosingInit
  /\ \/ unit = "edge map" /\ Edge!Init /\ Unused13 /\ ~manual
     \/ \E byHand \in BOOLEAN : Consolidates(byHand) /\ Consolidating(byHand)!Init /\ ~manual
     \/ unit = "closing" /\ Unused

Steps ==
  \/ unit = "edge map" /\ Edge!Next /\ UNCHANGED <<over13, closingVars>>
  \/ \E byHand \in BOOLEAN :
       Consolidates(byHand) /\ Consolidating(byHand)!Next /\ UNCHANGED closingVars
  \/ unit = "closing" /\ ClosingNext /\ UNCHANGED registers

Next == Steps /\ UNCHANGED unit

\* The fairness of EdgeMap and Closing, each for the unit that moves.
EdgeFairness ==
  /\ WF_allVars(unit = "edge map" /\ Edge!RoundStep /\ UNCHANGED <<unit, over13, closingVars>>)
  /\ \A w \in TwoWorkers :
       WF_allVars(unit = "edge map" /\ Edge!WorkerStep(w) /\ UNCHANGED <<unit, over13, closingVars>>)

\* Threads inside a call and jobs in the SMO arena keep running, and the
\* version-GC threads keep polling; new calls and the manual switch are the
\* caller's choice.
WriterRuns(w) ==
  \E byHand \in BOOLEAN : Consolidates(byHand) /\ Consolidating(byHand)!WriterStep(w)
ReaderRuns(r) ==
  \E byHand \in BOOLEAN :
    Consolidates(byHand) /\ (Consolidating(byHand)!ReaderStep(r) \/ Consolidating(byHand)!ReaderFinish(r))
JobRuns(k) ==
  \E byHand \in BOOLEAN : Consolidates(byHand) /\ Consolidating(byHand)!JobStep(k)
PageReclaimed(k) ==
  \E byHand \in BOOLEAN : Consolidates(byHand) /\ Consolidating(byHand)!Reclaim(k)
ConsolidationFairness ==
  /\ \A w \in TwoWriters : WF_allVars(WriterRuns(w) /\ UNCHANGED <<unit, closingVars>>)
  /\ \A r \in OneReader : WF_allVars(ReaderRuns(r) /\ UNCHANGED <<unit, closingVars>>)
  /\ \A k \in TwoJobs : /\ WF_allVars(JobRuns(k) /\ UNCHANGED <<unit, closingVars>>)
                        /\ WF_allVars(PageReclaimed(k) /\ UNCHANGED <<unit, closingVars>>)

EndFairness ==
  /\ \A t \in Tasks :
       WF_allVars(unit = "closing" /\ TaskStep(t) /\ UNCHANGED <<unit, registers>>)
  /\ \A r \in Readers :
       WF_allVars(unit = "closing" /\ ReaderEnds(r) /\ UNCHANGED <<unit, registers>>)
  /\ \A g \in GcThreads :
       WF_allVars(unit = "closing" /\ GcStep(g) /\ UNCHANGED <<unit, registers>>)
  /\ WF_allVars(unit = "closing" /\ CloseStep /\ UNCHANGED <<unit, registers>>)
  /\ WF_allVars(unit = "closing" /\ Callback(Closer) /\ UNCHANGED <<unit, registers>>)

Spec == Init /\ [][Next]_allVars /\ EdgeFairness /\ ConsolidationFairness /\ EndFairness

-----------------------------------------------------------------------------
(* Properties: those of the modules, for the unit that moves; CloseSafe is    *)
(* that of Closing                                                           *)

\* Every function of the edge map returns and close() returns.
CallsReturn ==
  /\ <>(unit = "edge map" => Edge!Ended)
  /\ (unit = "closing" /\ CloseCalled) ~> (unit = "closing" /\ Closed)

PageClaimed(p) == \E byHand \in BOOLEAN : Consolidates(byHand) /\ Consolidating(byHand)!Claimed(p)
PageKept(k) == \E byHand \in BOOLEAN : Consolidates(byHand) /\ Consolidating(byHand)!Recyclable(k)

\* Every consolidation claim is released: no return path or exception of a job
\* leaves a page that can never be consolidated again.  Every page a finished
\* job has replaced goes back to the disk manager: no page leaks.
JobsSettle ==
  /\ \A p \in JobPages : PageClaimed(p) ~> ~PageClaimed(p)
  /\ \A k \in TwoJobs : PageKept(k) ~> ~PageKept(k)
=============================================================================
