------------------------------ MODULE RoundMap ------------------------------
(***************************************************************************)
(* The iterative algorithms: PageRank and label propagation in their       *)
(* edge-map, scan and sequential forms.  A round reads one array and fills *)
(* another; what is shared between workers is the vote slots and the rank  *)
(* sums.  Ranks are exact fixed-point numbers (Unit stands for 1.0, the    *)
(* damping factor is 1/2 and the degrees of the graphs are powers of two). *)
(***************************************************************************)
EXTENDS Integers, Sequences, SequencesExt, FiniteSets, FiniteSetsExt

CONSTANTS N, Unit, Slots,   \* Slots is kCdlpInitSlots
          Workers, MaxIterations, ConvergenceThreshold,
          RankGraphs, LabelGraphs  \* symmetric graphs, for the ranks with degrees a power of two

VARIABLES prog, adj, cur, nxt,
          slot, overflow,   \* cdlp_vote_slot_t arrays, [key, count] per vertex and probe
          tally,            \* label_count and touched_labels of the sequential cdlp
          todo, run, iteration, phase

vars == <<prog, adj, cur, nxt, slot, overflow, tally, todo, run, iteration, phase>>
V == 0 .. N - 1
kEmptyVoteKey == N
Degree(v) == Len(adj[v])
SumOver(S, f) == MapThenSumSet(LAMBDA v : f[v], S)
Norm(f, g) == MapThenSumSet(LAMBDA v : IF f[v] > g[v] THEN f[v] - g[v] ELSE g[v] - f[v], V)
Zero == [v \in V |-> 0]
Identity == [v \in V |-> v]
EmptySlots == [v \in V |-> [p \in 1 .. Slots |-> [key |-> kEmptyVoteKey, count |-> 0]]]
Count(s) == [l \in V |-> Cardinality({i \in DOMAIN s : s[i] = l})]
LabelsOf(v) == [i \in DOMAIN adj[v] |-> cur[adj[v][i]]]

(* The functions: what a worker does per task, the first values, the rule   *)
(* that ends a round.                                                       *)
parallel_pagerank_map == [kind |-> "rank", task |-> "add", start |-> "uniform", timed |-> FALSE]
benchmark_parallel_pagerank_map == [parallel_pagerank_map EXCEPT !.timed = TRUE]
parallel_pagerank == [kind |-> "scan", task |-> "write_add", start |-> "degree", timed |-> FALSE]
benchmark_parallel_pagerank_scan == [parallel_pagerank EXCEPT !.timed = TRUE]
parallel_cdlp_map == [kind |-> "label", task |-> "vote", start |-> "id", timed |-> FALSE]
benchmark_parallel_cdlp_map == [parallel_cdlp_map EXCEPT !.timed = TRUE]
cdlp_voting_map == [kind |-> "label", task |-> "pull", start |-> "id", timed |-> FALSE]
benchmark_cdlp_voting_map == [cdlp_voting_map EXCEPT !.timed = TRUE]
cdlp(random) == [kind |-> "label", task |-> IF random THEN "shuffled" ELSE "tally",
                 start |-> "id", timed |-> FALSE]
pagerank == [kind |-> "dangling", task |-> "gather", start |-> "uniform", timed |-> FALSE]

(* A function and the graph it runs on; the timed forms run the same steps. *)
Cases ==
  ({benchmark_parallel_pagerank_map, benchmark_parallel_pagerank_scan, pagerank} \X RankGraphs)
  \cup ({benchmark_parallel_cdlp_map, benchmark_cdlp_voting_map, cdlp(TRUE), cdlp(FALSE)} \X LabelGraphs)

Idle == [at |-> "idle"]
First(p, g) ==
  CASE p.start = "uniform" -> [v \in V |-> Unit \div N]
    [] p.start = "degree"  -> [v \in V |-> IF g[v] # <<>> THEN Unit \div Len(g[v]) ELSE 0]
    [] OTHER               -> Identity

Init ==
  /\ \E c \in Cases : prog = c[1] /\ adj = c[2]
  /\ cur = First(prog, adj) /\ nxt = IF prog.kind = "label" THEN Identity ELSE Zero
  /\ slot = EmptySlots /\ overflow = {}
  /\ tally = [count |-> Zero, touched |-> <<>>]
  /\ todo = V /\ run = [w \in Workers |-> Idle]
  /\ iteration = 0 /\ phase = IF MaxIterations > 0 THEN "edges" ELSE "end"

Dst(w) == adj[run[w].v][run[w].i]
NextEdge(w) == IF run[w].i < Degree(run[w].v)
               THEN [at |-> "edge", v |-> run[w].v, i |-> run[w].i + 1] ELSE Idle
Goto(w, at, p) == run' = [run EXCEPT ![w] = [at |-> at, v |-> @.v, i |-> @.i, p |-> p]]

(* bw_edge_map_no_output over the full frontier, bw_edge_scan without bitmap *)
Take(w) ==
  /\ phase = "edges" /\ run[w] = Idle /\ prog.task \in {"add", "write_add", "vote"}
  /\ \E v \in todo :
       /\ todo' = todo \ {v}
       /\ run' = [run EXCEPT ![w] = IF adj[v] # <<>> THEN [at |-> "edge", v |-> v, i |-> 1] ELSE Idle]
  /\ UNCHANGED <<prog, adj, cur, nxt, slot, overflow, tally, iteration, phase>>

(* pagerank_edge_functor_t: one atomic addition. *)
rank_update(w) ==
  /\ run[w].at = "edge" /\ prog.task = "add"
  /\ nxt' = [nxt EXCEPT ![Dst(w)] = @ + cur[run[w].v] \div Degree(run[w].v)]
  /\ run' = [run EXCEPT ![w] = NextEdge(w)]
  /\ UNCHANGED <<prog, adj, cur, slot, overflow, tally, todo, iteration, phase>>

(* write_add: read the sum, then swap in the new one unless it has moved.    *)
SumNotCompared(w) == TRUE
SumUnmoved(w) == nxt[Dst(w)] = run[w].p
write_add(w) ==
  /\ prog.task = "write_add"
  /\ \/ run[w].at = "edge" /\ Goto(w, "cas", nxt[Dst(w)]) /\ UNCHANGED nxt
     \/ /\ run[w].at = "cas" /\ SumUnmoved(w)
        /\ nxt' = [nxt EXCEPT ![Dst(w)] = run[w].p + cur[run[w].v]]
        /\ run' = [run EXCEPT ![w] = NextEdge(w)]
     \/ run[w].at = "cas" /\ ~SumUnmoved(w) /\ Goto(w, "edge", 0) /\ UNCHANGED nxt
  /\ UNCHANGED <<prog, adj, cur, slot, overflow, tally, todo, iteration, phase>>

(* cdlp_vote_functor_t: find or claim a slot for the label, then count it.   *)
vote_update(w) ==
  /\ prog.task = "vote"
  /\ LET d == Dst(w)  label == cur[run[w].v]  key == slot[d][run[w].p].key IN
     \/ /\ run[w].at = "edge" /\ UNCHANGED <<slot, overflow>>
        /\ IF d \in overflow THEN run' = [run EXCEPT ![w] = NextEdge(w)] ELSE Goto(w, "probe", 1)
     \/ /\ run[w].at = "probe" /\ UNCHANGED slot
        /\ \/ key = label /\ Goto(w, "count", run[w].p) /\ UNCHANGED overflow
           \/ key = kEmptyVoteKey /\ Goto(w, "claim", run[w].p) /\ UNCHANGED overflow
           \/ /\ key \notin {label, kEmptyVoteKey} /\ run[w].p < Slots
              /\ Goto(w, "probe", run[w].p + 1) /\ UNCHANGED overflow
           \/ /\ key \notin {label, kEmptyVoteKey} /\ run[w].p = Slots
              /\ overflow' = overflow \cup {d} /\ run' = [run EXCEPT ![w] = NextEdge(w)]
     \/ /\ run[w].at = "claim" /\ UNCHANGED overflow
        /\ IF key = kEmptyVoteKey
           THEN slot' = [slot EXCEPT ![d][run[w].p].key = label] /\ Goto(w, "count", run[w].p)
           ELSE UNCHANGED slot /\ Goto(w, "probe", run[w].p)
     \/ /\ run[w].at = "count" /\ UNCHANGED overflow
        /\ slot' = [slot EXCEPT ![d][run[w].p].count = @ + 1]
        /\ run' = [run EXCEPT ![w] = NextEdge(w)]
  /\ UNCHANGED <<prog, adj, cur, nxt, tally, todo, iteration, phase>>

(* The choice of a label: most votes, lowest label on ties, in scan order.   *)
Best(votes, own) ==
  FoldLeft(LAMBDA b, s : IF s.key # kEmptyVoteKey /\ (s.count > b.count \/ (s.count = b.count /\ s.key < b.key))
                         THEN s ELSE b,
           [key |-> own, count |-> 0], votes).key

(* cdlp_voting_map: a worker counts the labels around its vertex in a map of  *)
(* its own, whose iteration order is arbitrary.                               *)
PullVote ==
  /\ phase = "edges" /\ prog.task = "pull"
  /\ \E v \in todo : \E order \in SetToSeqs(ToSet(LabelsOf(v))) :
       /\ todo' = todo \ {v}
       /\ nxt' = [nxt EXCEPT ![v] = Best([i \in DOMAIN order |->
                     [key |-> order[i], count |-> Count(LabelsOf(v))[order[i]]]], cur[v])]
  /\ UNCHANGED <<prog, adj, cur, slot, overflow, tally, run, iteration, phase>>

(* The loop body of cdlp: the counters are shared by all vertices and only    *)
(* those touched by the previous vertex with neighbours are reset.            *)
TallyVertex ==
  /\ phase = "edges" /\ prog.task \in {"tally", "shuffled"}
  /\ \E v \in todo :
       /\ prog.task = "tally" => v = Min(todo)
       /\ todo' = todo \ {v}
       /\ IF adj[v] = <<>> THEN nxt' = [nxt EXCEPT ![v] = cur[v]] /\ UNCHANGED tally
          ELSE LET clean == [l \in V |-> IF l \in ToSet(tally.touched) THEN 0 ELSE tally.count[l]]
                   count == [l \in V |-> clean[l] + Count(LabelsOf(v))[l]]
                   touched == FoldLeft(LAMBDA t, l : IF clean[l] = 0 /\ l \notin ToSet(t)
                                                     THEN Append(t, l) ELSE t, <<>>, LabelsOf(v))
               IN /\ tally' = [count |-> count, touched |-> touched]
                  /\ nxt' = [nxt EXCEPT ![v] = Best([i \in DOMAIN touched |->
                                 [key |-> touched[i], count |-> count[touched[i]]]], cur[v])]
  /\ UNCHANGED <<prog, adj, cur, slot, overflow, run, iteration, phase>>

(* The pull loop of the sequential pagerank, with the dangling mass spread.   *)
Gather ==
  /\ phase = "edges" /\ prog.task = "gather" /\ todo # {}
  /\ LET dangling == SumOver({v \in V : Degree(v) = 0}, cur)
     IN nxt' = [v \in V |-> Unit \div (2 * N) + dangling \div (2 * N)
                            + MapThenSumSet(LAMBDA i : cur[adj[v][i]] \div Degree(adj[v][i]), DOMAIN adj[v]) \div 2]
  /\ todo' = {}
  /\ UNCHANGED <<prog, adj, cur, slot, overflow, tally, run, iteration, phase>>

EdgesDone == phase = "edges" /\ todo = {} /\ \A w \in Workers : run[w] = Idle
Again(stop) == /\ phase' = IF stop \/ iteration + 1 >= MaxIterations THEN "end" ELSE "edges"
               /\ todo' = V /\ iteration' = iteration + 1

(* pagerank_vertex_functor_t, the norm, the reset and the swap.               *)
EndRankRound ==
  /\ EdgesDone /\ prog.kind \in {"rank", "dangling"}
  /\ LET new == IF prog.kind = "rank" THEN [v \in V |-> nxt[v] \div 2 + Unit \div (2 * N)] ELSE nxt
     IN Again(Norm(cur, new) < ConvergenceThreshold) /\ cur' = new /\ nxt' = Zero
  /\ UNCHANGED <<prog, adj, slot, overflow, tally, run>>

(* The update loops of the scan: the last round is not divided by the degree. *)
EndScanRound ==
  /\ EdgesDone /\ prog.kind = "scan"
  /\ LET full == [v \in V |-> Unit \div 2 + nxt[v] \div 2]
         old  == [v \in V |-> cur[v] * Degree(v)]
     IN IF iteration = MaxIterations - 1
        THEN cur' = full /\ UNCHANGED nxt /\ Again(TRUE)
        ELSE /\ cur' = [v \in V |-> IF Degree(v) > 0 THEN full[v] \div Degree(v) ELSE cur[v]]
             /\ nxt' = Zero
             /\ Again(Norm([v \in V |-> IF Degree(v) > 0 THEN full[v] ELSE 0],
                           [v \in V |-> IF Degree(v) > 0 THEN old[v] ELSE 0]) < ConvergenceThreshold)
  /\ UNCHANGED <<prog, adj, slot, overflow, tally, run>>

(* cdlp_commit_functor_t, the change count, cdlp_reset_functor_t and the swap. *)
commit(v) == IF v \in overflow THEN cur[v] ELSE Best(slot[v], cur[v])
EndLabelRound ==
  /\ EdgesDone /\ prog.kind = "label"
  /\ LET new == IF prog.task = "vote" THEN [v \in V |-> commit(v)] ELSE nxt
     IN cur' = new /\ nxt' = cur /\ Again(new = cur)
  /\ slot' = EmptySlots /\ overflow' = {}
  /\ UNCHANGED <<prog, adj, tally, run>>

WorkerStep(w) == Take(w) \/ rank_update(w) \/ write_add(w) \/ vote_update(w)
Next == PullVote \/ TallyVertex \/ Gather \/ EndRankRound \/ EndScanRound \/ EndLabelRound
        \/ \E w \in Workers : WorkerStep(w)
Spec == Init /\ [][Next]_vars

-----------------------------------------------------------------------------
(* Reference: ranks and labels after k rounds, computed vertex by vertex.    *)
find_most_frequent_label(count) == Min({l \in V : count[l] > 0 /\ \A o \in V : count[o] <= count[l]})
RefLabels ==
  LET R[k \in 0 .. MaxIterations] ==
        IF k = 0 THEN Identity
        ELSE [v \in V |-> LET c == Count([i \in DOMAIN adj[v] |-> R[k - 1][adj[v][i]]])
                          IN IF adj[v] = <<>> \/ (prog.task = "vote" /\ Cardinality({l \in V : c[l] > 0}) > Slots)
                             THEN R[k - 1][v] ELSE find_most_frequent_label(c)]
  IN R
RefRanks ==
  LET R[k \in 0 .. MaxIterations] ==
        IF k = 0 THEN First(prog, adj)
        ELSE [v \in V |-> Unit \div (2 * N) +
                MapThenSumSet(LAMBDA i : R[k - 1][adj[v][i]] \div Degree(adj[v][i]), DOMAIN adj[v]) \div 2]
  IN R

(* No interleaving loses or repeats a vote or a contribution: after every     *)
(* round the labels are the reference labels (a vertex with more different    *)
(* labels around it than slots keeps its own), the edge-map ranks the         *)
(* reference ranks, and a round of the scan has summed every neighbour once.  *)
RoundExact ==
  /\ prog.kind = "label" /\ todo = V => cur = RefLabels[iteration]
  /\ prog.kind = "rank" /\ todo = V => cur = RefRanks[iteration]
  /\ prog.kind = "scan" /\ EdgesDone =>
       \A v \in V : nxt[v] = MapThenSumSet(LAMBDA i : cur[adj[v][i]], DOMAIN adj[v])

(* The sequential pagerank redistributes rank and never creates or loses any. *)
MassKept == prog.kind = "dangling" => SumOver(V, cur) = Unit
=============================================================================
