----------------------------- MODULE Partition -----------------------------
(***************************************************************************)
(* part/partition.h: graph partitioning around the KaMinPar library and    *)
(* the sparsification of the page graph.  The library is external: it may  *)
(* return any assignment to the number of blocks it is asked for.  The     *)
(* refinement loop splits overweight blocks again until none is left.      *)
(***************************************************************************)
EXTENDS Integers, Sequences, SequencesExt, FiniteSets, FiniteSetsExt

CONSTANTS Graphs,      \* adjacency sets, functions from vertices to sets of vertices
          GiantBound, MaxWeight, MaxDegree,
          MaxRounds    \* bound on refinement rounds: the library need not make progress

VARIABLES call, graph,
          block_of,    \* block of each vertex
          over,        \* overweight blocks of this round, with their vertices
          max_bid, rounds, part, sparse, phase

vars == <<call, graph, block_of, over, max_bid, rounds, part, sparse, phase>>
V == DOMAIN graph

(* The entry points: how vertices weigh and whether overweight blocks are refined. *)
absolute_weight_graph_partition == [weight |-> "giant", refine |-> TRUE]
absolute_weight_graph_partition_non_giant(refine) == [weight |-> "degree", refine |-> refine]
absolute_weight_block_partition == [weight |-> "one", refine |-> FALSE]
absolute_weight_partition(edge_weight, refine) ==
  [weight |-> IF edge_weight THEN "giant" ELSE "one", refine |-> refine]
sparsification == [weight |-> "none", refine |-> FALSE]
Calls ==
  {absolute_weight_graph_partition, absolute_weight_graph_partition_non_giant(FALSE),
   absolute_weight_block_partition, absolute_weight_partition(TRUE, TRUE), sparsification}

(* pre_partition_handle: undirected, without self loops, every endpoint a vertex. *)
pre_partition_handle(g) ==
  LET all == DOMAIN g \cup UNION {g[v] : v \in DOMAIN g}
      to(v) == IF v \in DOMAIN g THEN g[v] ELSE {}
  IN [v \in all |-> {u \in all \ {v} : u \in to(v) \/ v \in to(u)}]

(* induced_subgraph, induced_block_subgraph: edges between the given vertices.   *)
induced_subgraph(g, vs) == [v \in vs |-> IF v \in DOMAIN g THEN g[v] \cap vs ELSE {}]

Degree(v) == Cardinality(graph[v])
node_weight_original(v) == IF Degree(v) >= GiantBound THEN 1 ELSE 1 + Degree(v)
block_weight_original(vs) == MapThenSumSet(node_weight_original, vs)
NodeWeight(v) == CASE call.weight = "giant"  -> node_weight_original(v)
                   [] call.weight = "degree" -> 1 + Degree(v)
                   [] OTHER                  -> 1
Ceil(a, b) == (a + b - 1) \div b

(* The library (external): some assignment of the vertices to k blocks. *)
KaMinPar(g, k) == [DOMAIN g -> 0 .. k - 1]
kway_graph_partition(g, k) == KaMinPar(g, Min({k, Cardinality(DOMAIN g)}))

Init ==
  /\ call \in Calls /\ \E g \in Graphs : graph = pre_partition_handle(g)
  /\ block_of = <<>> /\ over = <<>> /\ max_bid = 0 /\ rounds = 0 /\ part = <<>> /\ sparse = <<>>
  /\ phase = IF call.weight = "none" THEN "sparsify" ELSE "partition"

InitialPartition ==
  /\ phase = "partition"
  /\ \E p \in KaMinPar(graph, Ceil(MapThenSumSet(NodeWeight, V), MaxWeight)) : block_of' = p
  /\ phase' = IF call.refine THEN "collect" ELSE "compress"
  /\ UNCHANGED <<call, graph, over, max_bid, rounds, part, sparse>>

(* collect_blocks and the list of blocks over the limit, at the head of a round. *)
Bucket(b) == {v \in V : block_of[v] = b}
Used == {block_of[v] : v \in V}
collect_blocks ==
  /\ phase = "collect" /\ rounds < MaxRounds
  /\ LET heavy == SetToSortSeq({b \in Used : block_weight_original(Bucket(b)) > MaxWeight}, <)
     IN /\ over' = [i \in DOMAIN heavy |-> [b |-> heavy[i], verts |-> Bucket(heavy[i])]]
        /\ phase' = IF heavy = <<>> THEN "compress" ELSE "split"
  /\ max_bid' = Max(Used) /\ rounds' = rounds + 1
  /\ UNCHANGED <<call, graph, block_of, part, sparse>>

(* One overweight block: partition its induced subgraph again; the first part    *)
(* keeps the block's number, the others get fresh numbers.                       *)
NewIds(k) == [i \in 0 .. k - 1 |-> IF i = 0 THEN Head(over).b ELSE max_bid + i]
SplitBlock ==
  /\ phase = "split" /\ over # <<>>
  /\ LET verts == Head(over).verts
         k == Max({2, Ceil(block_weight_original(verts), MaxWeight)})
     IN /\ \E local \in kway_graph_partition(induced_subgraph(graph, verts), k) :
             block_of' = [v \in V |-> IF v \in verts THEN NewIds(k)[local[v]] ELSE block_of[v]]
        /\ max_bid' = max_bid + k - 1
  /\ over' = Tail(over)
  /\ UNCHANGED <<call, graph, rounds, part, sparse, phase>>

EndRound ==
  /\ phase = "split" /\ over = <<>> /\ phase' = "collect"
  /\ UNCHANGED <<call, graph, block_of, over, max_bid, rounds, part, sparse>>

(* compress_block_ids numbers the used blocks densely in hash order;             *)
(* compute_absolute_weight_graph_partition then lists the vertices per block.    *)
Renumberings == {f \in [Used -> 0 .. Cardinality(Used) - 1] : IsInjective(f)}
compress_block_ids ==
  /\ phase = "compress"
  /\ \E f \in Renumberings :
       /\ block_of' = [v \in V |-> f[block_of[v]]]
       /\ part' = [i \in 1 .. Max({f[b] : b \in Used}) + 1 |->
                     SetToSortSeq({v \in V : f[block_of[v]] = i - 1}, <)]
  /\ phase' = "end"
  /\ UNCHANGED <<call, graph, over, max_bid, rounds, sparse>>

(* graph_sparsification: edges by falling degree sum; a spanning forest first,   *)
(* then whatever fits, no vertex above the limit.                                *)
Edges == {e \in SUBSET V : Cardinality(e) = 2 /\ \E v \in e : e \subseteq graph[v] \cup {v}}
Importance(e) == MapThenSumSet(Degree, e)
Orders == {s \in SetToSeqs(Edges) : \A i, j \in DOMAIN s : i < j => Importance(s[i]) >= Importance(s[j])}
DegreeIn(es, v) == Cardinality({e \in es : v \in e})
FitsAtLimit(es, e) == \A v \in e : DegreeIn(es, v) <= MaxDegree
Fits(es, e) == \A v \in e : DegreeIn(es, v) < MaxDegree
ForestStep(s, e) ==
  IF s.count < Cardinality(V) - 1 /\ Fits(s.kept, e) /\ \A c \in s.comps : ~(e \subseteq c)
  THEN LET joined == {c \in s.comps : c \cap e # {}}
       IN [kept |-> s.kept \cup {e}, count |-> s.count + 1, comps |-> (s.comps \ joined) \cup {UNION joined}]
  ELSE s
graph_sparsification ==
  /\ phase = "sparsify"
  /\ \E order \in Orders :
       LET forest == FoldLeft(ForestStep, [kept |-> {}, count |-> 0, comps |-> {{v} : v \in V}], order)
       IN sparse' = FoldLeft(LAMBDA es, e : IF Fits(es, e) THEN es \cup {e} ELSE es, forest.kept, order)
  /\ phase' = "end"
  /\ UNCHANGED <<call, graph, block_of, over, max_bid, rounds, part>>

Next == InitialPartition \/ collect_blocks \/ SplitBlock \/ EndRound \/ compress_block_ids
        \/ graph_sparsification
Spec == Init /\ [][Next]_vars

-----------------------------------------------------------------------------
(* Whatever the library answers, a returned partition lists every vertex      *)
(* exactly once in blocks without gaps, and after refinement no block weighs  *)
(* more than the limit; a sparsified graph keeps no vertex above the degree   *)
(* limit and drops an edge only if one of its ends is full.                   *)
PartitionSound ==
  phase = "end" =>
    IF call.weight = "none"
    THEN /\ sparse \subseteq Edges /\ \A v \in V : DegreeIn(sparse, v) <= MaxDegree
         /\ \A e \in Edges \ sparse : ~Fits(sparse, e)
    ELSE /\ \A v \in V : Cardinality({<<i, j>> \in (1 .. Len(part)) \X (1 .. Cardinality(V)) :
                                        j \in DOMAIN part[i] /\ part[i][j] = v}) = 1
         /\ \A i \in DOMAIN part : part[i] # <<>> /\ (call.refine => block_weight_original(ToSet(part[i])) <= MaxWeight)
=============================================================================
