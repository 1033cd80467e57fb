------------------------------- MODULE MCUnits -------------------------------
(***************************************************************************)
(* Instances of the parts of the database that share no state with each    *)
(* other and whose safety is checked alone: the algorithms, the build, the *)
(* page structures, the delta pages and the disk manager.  A behaviour is  *)
(* one of them.  The disk manager has its own variables; the others keep   *)
(* theirs in the registers s1 .. s14, in the order of the INSTANCE, and    *)
(* leave the registers above unused.                                       *)
(***************************************************************************)
EXTENDS DiskManager, TLC

VARIABLES unit, s1, s2, s3, s4, s5, s6, s7, s8, s9, s10, s11, s12, s13, s14

over11 == <<s12, s13, s14>>
over9 == <<s10, s11, over11>>
over6 == <<s7, s8, s9, over9>>
registers == <<s1, s2, s3, s4, s5, s6, over6>>
allVars == <<unit, registers, diskVars>>

Unused11 == s12 = 0 /\ s13 = 0 /\ s14 = 0
Unused9 == s10 = 0 /\ s11 = 0 /\ Unused11
Unused6 == s7 = 0 /\ s8 = 0 /\ s9 = 0 /\ Unused9
Unused == s1 = 0 /\ s2 = 0 /\ s3 = 0 /\ s4 = 0 /\ s5 = 0 /\ s6 = 0 /\ Unused6

-----------------------------------------------------------------------------
(* The instances *)

TwoWorkers == {"w1", "w2"}
PageOfVertex == (0 :> 1) @@ (1 :> 2) @@ (2 :> 3) @@ (3 :> 3) @@ (4 :> 1)

\* A path whose order is not that of the numbers, one vertex of it a giant.
Zigzag == (0 :> <<3>>) @@ (1 :> <<2>>) @@ (2 :> <<1, 3>>) @@ (3 :> <<0, 2>>)
Edge == INSTANCE EdgeMap WITH
  N <- 4, Graphs <- {Zigzag}, Giants <- {1}, PageOf <- PageOfVertex, Workers <- TwoWorkers,
  Divisors <- {1, 20}, MaxIterations <- 2, Starts <- {1},
  prog <- s1, adj <- s2, threshold <- s3, val <- s4, prev <- s5, front <- s6, todo <- s7, out <- s8,
  run <- s9, changed <- s10, moved <- s11, iteration <- s12, phase <- s13

Path == (0 :> <<1>>) @@ (1 :> <<0, 2>>) @@ (2 :> <<1>>) @@ (3 :> <<>>)
Ring == (0 :> <<1, 3>>) @@ (1 :> <<0, 2>>) @@ (2 :> <<1, 3>>) @@ (3 :> <<0, 2>>)
Star == (0 :> <<3>>) @@ (1 :> <<3>>) @@ (2 :> <<3>>) @@ (3 :> <<0, 1, 2>>)
Round == INSTANCE RoundMap WITH
  N <- 4, Unit <- 4096, Slots <- 2, Workers <- TwoWorkers, MaxIterations <- 2,
  ConvergenceThreshold <- 1, RankGraphs <- {Path, Ring}, LabelGraphs <- {Path, Ring, Star},
  prog <- s1, adj <- s2, cur <- s3, nxt <- s4, slot <- s5, overflow <- s6, tally <- s7, todo <- s8,
  run <- s9, iteration <- s10, phase <- s11

\* Blocks that are entered twice, a second component, an isolated vertex.
WalkGraphs ==
  {(0 :> <<1, 4>>) @@ (1 :> <<0, 2, 3>>) @@ (2 :> <<1, 3>>) @@ (3 :> <<1, 2>>) @@ (4 :> <<0>>),
   (0 :> <<2>>) @@ (1 :> <<3, 4>>) @@ (2 :> <<0>>) @@ (3 :> <<1, 4>>) @@ (4 :> <<1, 3>>),
   (0 :> <<3>>) @@ (1 :> <<>>) @@ (2 :> <<3>>) @@ (3 :> <<0, 2>>) @@ (4 :> <<>>)}
Walk == INSTANCE Traverse WITH
  N <- 5, Graphs <- WalkGraphs, PageOf <- PageOfVertex, Workers <- TwoWorkers, SampleSize <- 3,
  MaxWalk <- 4, Step <- 2,
  Calls <- {"bfs", "wcc", "bfs_block", "bfs_block_parallel", "walk", "histogram"},
  call <- s1, adj <- s2, start <- s3, queue <- s4, visited <- s5, level <- s6, order <- s7,
  pages <- s8, worker <- s9, active <- s10, go <- s11, walk <- s12, pins <- s13, phase <- s14

PartGraphs == {(0 :> {1, 2, 3}) @@ (1 :> {2, 1}) @@ (2 :> {3}) @@ (3 :> {}),
               (0 :> {1, 3}) @@ (1 :> {2}) @@ (2 :> {3}) @@ (3 :> {})}
Part == INSTANCE Partition WITH
  Graphs <- PartGraphs, GiantBound <- 3, MaxWeight <- 4, MaxDegree <- 2, MaxRounds <- 3,
  call <- s1, graph <- s2, block_of <- s3, over <- s4, max_bid <- s5, rounds <- s6, part <- s7,
  sparse <- s8, phase <- s9

\* A giant; and a first segment that does not fit on one page.
BuildGraphs ==
  {(0 :> <<1>>) @@ (1 :> <<0, 2>>) @@ (2 :> <<1, 3, 4>>) @@ (3 :> <<2, 4>>) @@ (4 :> <<2, 3>>),
   (0 :> <<1, 2>>) @@ (1 :> <<0, 2>>) @@ (2 :> <<0, 1>>) @@ (3 :> <<>>) @@ (4 :> <<>>)}
AllBuilds == {"build_seq_db", "build_compressed_db", "build_standard_db", "build_reorder_tat_db"}
Built == INSTANCE Build WITH
  N <- 5, Graphs <- BuildGraphs, GiantBound <- 3, FixedWords <- 4, VertexWords <- 3,
  PageWords <- 19, Slots <- 1, Threads <- 2,
  Partitions <- {<<<<0, 1>>, <<2, 3, 4>>>>, <<<<0>>, <<1, 4>>, <<3, 2>>>>, <<<<0, 1, 2, 3>>, <<4>>>>},
  Builds <- AllBuilds,
  build <- s1, adj <- s2, file <- s3, part <- s4, cursor <- s5, batch <- s6, seg <- s7, pages <- s8,
  loc <- s9, giants <- s10, disk <- s11, saved <- s12, phase <- s13
\* Pages too small for a vertex with two neighbours, with or without a free slot.
Small == INSTANCE Build WITH
  N <- 5, Graphs <- BuildGraphs, GiantBound <- 3, FixedWords <- 4, VertexWords <- 3,
  PageWords <- 8, Slots <- 1, Threads <- 2, Partitions <- {<<<<0, 1>>, <<2, 3, 4>>>>},
  Builds <- AllBuilds,
  build <- s1, adj <- s2, file <- s3, part <- s4, cursor <- s5, batch <- s6, seg <- s7, pages <- s8,
  loc <- s9, giants <- s10, disk <- s11, saved <- s12, phase <- s13

PageGraphs ==
  {(11 :> {12, 13}) @@ (12 :> {11, 14}) @@ (13 :> {11}) @@ (14 :> {12}) @@ (15 :> {}),
   (11 :> {12}) @@ (12 :> {11, 13}) @@ (13 :> {12})}
Tree == INSTANCE Tat WITH
  PageGraphs <- PageGraphs, Groups <- <<{11, 12}, {13}>>, Top <- 40, MaxBlocks <- 4,
  MaxUpdates <- 2,
  builder <- s1, pgraph <- s2, waiting <- s3, roots <- s4, level <- s5, badj <- s6, next <- s7,
  csr <- s8, idx <- s9, root <- s10, updates <- s11, file <- s12, phase <- s13

PageLists == {<<<<1, <<5>>>>, <<2, <<>>>>>>, <<<<1, <<5, 6, 7>>>>, <<3, <<5, 6>>>>>>,
              <<<<2, <<5, 6>>>>, <<1, <<>>>>, <<3, <<6>>>>>>}
PageDeltas == {[target |-> "EDGE", type |-> "INSERT", first |-> 1, second |-> 6],
               [target |-> "EDGE", type |-> "DELETE", first |-> 1, second |-> 5],
               [target |-> "EDGE", type |-> "INSERT", first |-> 2, second |-> 5],
               [target |-> "VERTEX", type |-> "INSERT", first |-> 4, second |-> 0],
               [target |-> "VERTEX", type |-> "DELETE", first |-> 2, second |-> 0]}
\* As many neighbour pages as stay out of the vertices; with one more they do not.
SampledPages == [k \in 1 .. 8 |-> 30 + k]
Page == INSTANCE CsrPage WITH
  Lists <- PageLists, Dests <- {5, 6}, GiantBound <- 3, PageWords <- 40, SlotChoices <- {0, 1},
  Block <- 16, Deltas <- PageDeltas, Links <- {<<8>>, <<9, 8>>, SampledPages}, MaxOps <- 3,
  mem <- s1, obj <- s2, disk <- s3, ref <- s4, ops <- s5, lost <- s6

\* One and two bytes, a full group of four, a difference beyond two bytes.
Giant == INSTANCE GiantStore WITH
  Giants <- {1}, Lists <- {{}, {3, 130, 300, 301, 20000}, {0, 127, 128, 700}},
  Neighbours <- {0, 50000}, MaxClock <- 3,
  base <- s1, recs <- s2, cache <- s3, clock <- s4, job <- s5, truth <- s6

\* Two chains that compete for a frame; a chain of several pages.
Shared == INSTANCE DeltaPages WITH
  Chains <- {"a", "b"}, Frames <- {"f1"}, NoFrame <- "none", Slots <- 2, MaxRecs <- 3, MaxPages <- 2,
  MaxLoads <- 2,
  head <- s1, frame <- s2, map <- s3, disk <- s4, op <- s5, flush <- s6, npages <- s7, nrecs <- s8,
  loads <- s9, made <- s10, loc <- s11, cut <- s12, taken <- s13, doubtful <- s14
Chain == INSTANCE DeltaPages WITH
  Chains <- {"a"}, Frames <- {"f1", "f2"}, NoFrame <- "none", Slots <- 2, MaxRecs <- 3, MaxPages <- 3,
  MaxLoads <- 1,
  head <- s1, frame <- s2, map <- s3, disk <- s4, op <- s5, flush <- s6, npages <- s7, nrecs <- s8,
  loads <- s9, made <- s10, loc <- s11, cut <- s12, taken <- s13, doubtful <- s14

\* What the proofs about DeltaPages suppose of its constants.
ASSUME DeltaInstances == Shared!DeltaParameters /\ Chain!DeltaParameters

-----------------------------------------------------------------------------
(* One of them *)

RegisterInit ==
  \/ unit = "edge map" /\ Edge!Init /\ s14 = 0
  \/ unit = "rounds" /\ Round!Init /\ Unused11
  \/ unit = "traversal" /\ Walk!Init
  \/ unit = "partition" /\ Part!Init /\ Unused9
  \/ unit = "build" /\ Built!Init /\ s14 = 0
  \/ unit = "small build" /\ Small!Init /\ s14 = 0
  \/ unit = "index tree" /\ Tree!Init /\ s14 = 0
  \/ unit = "page" /\ Page!Init /\ Unused6
  \/ unit = "giants" /\ Giant!Init /\ Unused6
  \/ unit = "shared pool" /\ Shared!Init
  \/ unit = "delta chain" /\ Chain!Init
  \/ unit = "disk" /\ Unused

Init == DiskInit /\ RegisterInit

RegisterNext ==
  \/ unit = "edge map" /\ Edge!Next /\ UNCHANGED s14
  \/ unit = "rounds" /\ Round!Next /\ UNCHANGED over11
  \/ unit = "traversal" /\ Walk!Next
  \/ unit = "partition" /\ Part!Next /\ UNCHANGED over9
  \/ unit = "build" /\ Built!Next /\ UNCHANGED s14
  \/ unit = "small build" /\ Small!Next /\ UNCHANGED s14
  \/ unit = "index tree" /\ Tree!Next /\ UNCHANGED s14
  \/ unit = "page" /\ Page!Next /\ UNCHANGED over6
  \/ unit = "giants" /\ Giant!Next /\ UNCHANGED over6
  \/ unit = "shared pool" /\ Shared!Next
  \/ unit = "delta chain" /\ Chain!Next

Next ==
  \/ RegisterNext /\ UNCHANGED <<unit, diskVars>>
  \/ unit = "disk" /\ DiskNext /\ UNCHANGED <<unit, registers>>

Spec == Init /\ [][Next]_allVars

-----------------------------------------------------------------------------
(* Properties: those of the modules, for the unit that moves *)

\* EdgeMap: every finished function holds the reference result.
ResultExact == unit = "edge map" => Edge!ResultExact

\* EdgeMap: parents, roots and labels are sound at every step.
ArraysSound == unit = "edge map" => Edge!ArraysSound

\* RoundMap: no vote, contribution or rank mass is lost or counted twice.
RoundExact == unit = "rounds" => Round!RoundExact /\ Round!MassKept

\* Traverse: each call returns what the graph says, block searches cover a page once.
TraversalExact == unit = "traversal" => Walk!TraversalExact /\ Walk!BlocksOnce

\* Partition: every vertex in one block, no block too heavy, no degree too high.
PartitionSound == unit = "partition" => Part!PartitionSound

\* Build: every vertex is read back from where the build put it.
BuildReadable == /\ unit = "build" => Built!BuildReadable
                 /\ unit = "small build" => Small!BuildReadable

\* Tat: the index pages form one tree over the CSR pages.
IndexTree == unit = "index tree" => Tree!IndexTree

\* CsrPage: the words of a page say what the operations on it did.
PageExact == unit = "page" => Page!PageExact

\* GiantStore: a stored list with its pending records is the vertex's list.
GiantReadExact == unit = "giants" => Giant!GiantReadExact

\* DeltaPages: no record is lost between frames and file, a fetch returns the chain.
DeltaExact ==
  /\ unit = "shared pool" => Shared!RecordsReadable /\ Shared!FetchExact
  /\ unit = "delta chain" => Chain!RecordsReadable /\ Chain!FetchExact

=============================================================================
