------------------------------ MODULE EdgeMap ------------------------------
(***************************************************************************)
(* The frontier algorithms: BFS and connected components over bw_edge_map, *)
(* bw_vertex_map and bw_edge_scan.  A round hands vertices to workers in   *)
(* any order; every atomic load and compare-and-swap of the edge functors  *)
(* is a step of its own.  Dense rounds pull (the task is the destination   *)
(* and stops at its first successful update), sparse rounds and scans push *)
(* (the task is the source, or in a page-local scan a page of sources).    *)
(***************************************************************************)
EXTENDS Integers, Sequences, SequencesExt, FiniteSets, FiniteSetsExt

CONSTANTS N,          \* number of vertices
          Graphs,     \* symmetric graphs: functions from vertices to ascending neighbour lists
          Giants,     \* vertices stored outside the pages
          PageOf,     \* the page of each vertex
          Workers,    \* threads of the scheduler
          Divisors,   \* threshold_divisor arguments
          MaxIterations,
          Starts      \* start vertices of the searches

VARIABLES prog, adj, threshold,
          val,        \* parent, IDs or label array
          prev,       \* prevIDs
          front,      \* the frontier, a vertex_subset_t
          todo,       \* bag of tasks not yet taken in this round
          out,        \* bag of vertices reported by the functor in this round
          run,        \* what each worker is doing
          changed, moved, iteration, phase

vars == <<prog, adj, threshold, val, prev, front, todo, out, run, changed, moved, iteration, phase>>
V == 0 .. N - 1
None == N             \* INVALID_VID
Absent == <<>>        \* a representation vertex_subset_t has not built; <<x>> when built
NoBag == [v \in V |-> 0]
BagSize(b) == MapThenSumSet(LAMBDA v : b[v], V)
Support(b) == {v \in V : b[v] > 0}

(* vertex_subset_t *)
SparseSubset(b) == [s |-> <<b>>, d |-> Absent, m |-> BagSize(b), dense |-> FALSE]
DenseSubset(set) == [s |-> Absent, d |-> <<set>>, m |-> Cardinality(set), dense |-> TRUE]
to_dense(f) == [f EXCEPT !.d = IF @ = Absent THEN <<Support(f.s[1])>> ELSE @, !.dense = TRUE]
to_sparse(f) == [f EXCEPT !.s = IF @ = Absent /\ f.m > 0
                                THEN <<[v \in V |-> IF v \in f.d[1] THEN 1 ELSE 0]>> ELSE @,
                          !.dense = FALSE]
BadCount(f) == f.s = Absent /\ f.m > 0 /\ Cardinality(f.d[1]) # f.m
is_in(f, v) == IF f.dense THEN v \in f.d[1] ELSE f.s[1][v] > 0
make_full_frontier == DenseSubset(V)
Identity == [v \in V |-> v]
Single(s) == SparseSubset([v \in V |-> IF v = s THEN 1 ELSE 0])

(* The functions: initial arrays, functor, engine and number of rounds. *)
parallel_bfs_map(s) ==
  [functor |-> "bfs", scan |-> FALSE, paged |-> FALSE, val |-> [v \in V |-> IF v = s THEN s ELSE None],
   front |-> Single(s), rounds |-> "empty", result |-> "distance"]
benchmark_parallel_bfs_map(s) == [parallel_bfs_map(s) EXCEPT !.result = "time"]
wcc_sv == [functor |-> "hook", scan |-> FALSE, paged |-> FALSE, val |-> Identity,
           front |-> make_full_frontier, rounds |-> "hook", result |-> "root"]
benchmark_wcc_sv == [wcc_sv EXCEPT !.result = "time"]
wcc_map == [functor |-> "min", scan |-> FALSE, paged |-> FALSE, val |-> Identity,
            front |-> make_full_frontier, rounds |-> "empty", result |-> "label"]
benchmark_wcc_map == [wcc_map EXCEPT !.result = "time"]
parallel_bfs(s) == [parallel_bfs_map(s) EXCEPT !.scan = TRUE]
benchmark_parallel_bfs_scan(s) == [parallel_bfs(s) EXCEPT !.result = "time"]
parallel_wcc == [wcc_map EXCEPT !.functor = "relabel", !.scan = TRUE]
benchmark_parallel_wcc_scan == [parallel_wcc EXCEPT !.result = "time"]
parallel_cdlp == [parallel_wcc EXCEPT !.rounds = "bounded"]
benchmark_parallel_cdlp_scan == [parallel_cdlp EXCEPT !.result = "time"]
(* bw_should_use_page_local_edge_scan: more pages than the buffer pool holds. *)
page_local(p) == [p EXCEPT !.paged = TRUE]
(* The timed forms run the same steps. *)
Programs ==
  UNION {{benchmark_parallel_bfs_map(s), benchmark_parallel_bfs_scan(s), page_local(parallel_bfs(s))} : s \in Starts}
  \cup {benchmark_wcc_sv, benchmark_wcc_map, benchmark_parallel_wcc_scan, benchmark_parallel_cdlp_scan}

TotalEdges(g) == MapThenSumSet(LAMBDA v : Len(g[v]), V)
(* The threshold of bw_edge_map; the edge count is 0 until init_edge_count. *)
Threshold(total, divisor) == IF total > 0 THEN total \div divisor ELSE N \div divisor

Idle == [at |-> "idle"]
AllIdle == \A w \in Workers : run[w] = Idle
RoundOver == AllIdle /\ BagSize(todo) = 0
Set(b) == [v \in V |-> IF b[v] > 0 THEN 1 ELSE 0]

(* wcc_find_root: while hooks run only roots get a new parent, so the walk  *)
(* returns the root at the time of its last load.                           *)
ParentWalk(v) == LET P[k \in 0 .. N] == IF k = 0 THEN v ELSE val[P[k - 1]] IN P
wcc_find_root(v) == ParentWalk(v)[N]

Dense == front.dense /\ ~prog.scan
Neighbour(w) == adj[run[w].v][run[w].i]
Src(w) == IF Dense THEN Neighbour(w) ELSE run[w].v
Dst(w) == IF Dense THEN run[w].v ELSE Neighbour(w)
cond(v) == prog.functor # "bfs" \/ val[v] = None

(* A worker begins a list of vertices, or leaves an edge: to the next         *)
(* neighbour, the next vertex, or done.                                       *)
Begin(vs) == LET s == SelectSeq(vs, LAMBDA v : adj[v] # <<>>)
             IN IF s = <<>> THEN Idle ELSE [at |-> "edge", v |-> Head(s), i |-> 1, rest |-> Tail(s)]
NextEdge(w) == IF run[w].i < Len(adj[run[w].v])
               THEN [at |-> "edge", v |-> run[w].v, i |-> run[w].i + 1, rest |-> run[w].rest]
               ELSE Begin(run[w].rest)
Goto(w, at, x, y, o) ==
  run' = [run EXCEPT ![w] = [at |-> at, v |-> @.v, i |-> @.i, rest |-> @.rest, x |-> x, y |-> y, orig |-> o]]
(* The functor returned ok: a pull reports its vertex and breaks, a push    *)
(* appends to the output and goes on.                                       *)
Report(w, ok) ==
  /\ out' = IF ok THEN [out EXCEPT ![Dst(w)] = @ + 1] ELSE out
  /\ run' = [run EXCEPT ![w] = IF ok /\ Dense THEN Idle ELSE NextEdge(w)]

Init ==
  /\ prog \in Programs /\ adj \in Graphs
  /\ threshold \in {Threshold(t, d) : t \in {0, TotalEdges(adj)}, d \in Divisors}
  /\ val = prog.val /\ prev = prog.val /\ front = prog.front
  /\ todo = NoBag /\ out = NoBag /\ run = [w \in Workers |-> Idle]
  /\ changed = FALSE /\ moved = FALSE /\ iteration = 0 /\ phase = "round"

(* The head of the loops: stop, or choose the traversal and fill the tasks. *)
bw_edge_map ==
  /\ phase = "round" /\ front.m > 0
  /\ prog.rounds = "bounded" => iteration < MaxIterations
  /\ LET f == IF ~prog.scan /\ front.m > threshold THEN to_dense(front) ELSE to_sparse(front)
     IN IF ~f.dense /\ BadCount(front)
        THEN phase' = "abort" /\ UNCHANGED <<front, todo>>
        ELSE /\ front' = f /\ phase' = "edges"
             /\ todo' = IF f.dense THEN [v \in V |-> 1] ELSE f.s[1]
  (* wcc_map first copies the labels of its frontier *)
  /\ prev' = IF prog.functor = "min"
             THEN [v \in V |-> IF is_in(front, v) THEN val[v] ELSE prev[v]] ELSE prev
  /\ out' = NoBag /\ changed' = FALSE /\ iteration' = iteration + IF prog.rounds = "bounded" THEN 1 ELSE 0
  /\ UNCHANGED <<prog, adj, threshold, val, run, moved>>

Finish ==
  /\ phase = "round"
  /\ front.m = 0 \/ (prog.rounds = "bounded" /\ iteration >= MaxIterations)
  /\ phase' = "end"
  /\ UNCHANGED <<prog, adj, threshold, val, prev, front, todo, out, run, changed, moved, iteration>>

(* A worker takes the tasks vs. *)
Take(w, vs, ok) ==
  /\ todo' = [v \in V |-> IF v \in ToSet(vs) THEN todo[v] - 1 ELSE todo[v]]
  /\ run' = [run EXCEPT ![w] = IF ok THEN Begin(vs) ELSE Idle]
  /\ UNCHANGED <<prog, adj, threshold, val, prev, front, out, changed, moved, iteration, phase>>
Free(w) == phase = "edges" /\ run[w] = Idle

(* A dense round: the vertices that pass cond; the giants alone, after the pages. *)
bw_edge_map_dense(w) ==
  /\ Free(w) /\ Dense
  /\ \E v \in Support(todo) :
       /\ v \in Giants => AllIdle /\ Support(todo) \subseteq Giants
       /\ \A u \in Workers : run[u] # Idle => run[u].v \notin Giants
       /\ Take(w, <<v>>, cond(v))

(* A sparse round: one frontier entry at a time, a repeated entry again. *)
bw_edge_map_sparse(w) ==
  /\ Free(w) /\ ~Dense /\ ~prog.scan
  /\ \E v \in Support(todo) : Take(w, <<v>>, TRUE)

(* A scan of the active bitmap: by vertex, or all active vertices of a page.   *)
bw_edge_scan(w) ==
  /\ Free(w) /\ prog.scan /\ ~prog.paged
  /\ \E v \in Support(todo) : Take(w, <<v>>, TRUE)
bw_page_local_edge_scan(w) ==
  /\ Free(w) /\ prog.scan /\ prog.paged
  /\ \E v \in Support(todo) :
       Take(w, SetToSortSeq({u \in Support(todo) : PageOf[u] = PageOf[v]}, <), TRUE)

(* The first load of the functor, after is_in (pull) or cond (push). *)
Edge(w) ==
  /\ phase = "edges" /\ run[w].at = "edge"
  /\ IF IF Dense THEN ~is_in(front, Src(w)) ELSE ~cond(Dst(w))
     THEN run' = [run EXCEPT ![w] = NextEdge(w)]
     ELSE CASE prog.functor = "bfs"  -> Goto(w, "cas", Src(w), None, None)
            [] prog.functor = "hook" -> Goto(w, "load", wcc_find_root(Src(w)), None, None)
            [] OTHER                 -> Goto(w, "load", val[Src(w)], None, None)
  /\ UNCHANGED <<prog, adj, threshold, val, prev, front, todo, out, changed, moved, iteration, phase>>

(* The load of the destination: its root, or its label if that is larger. *)
Load(w) ==
  /\ phase = "edges" /\ run[w].at = "load"
  /\ LET y == IF prog.functor = "hook" THEN wcc_find_root(Dst(w)) ELSE val[Dst(w)]
         x == run[w].x
     IN IF IF prog.functor = "hook" THEN x = y ELSE x >= y
        THEN Report(w, FALSE)
        ELSE Goto(w, IF prog.functor = "relabel" THEN "check" ELSE "cas", x, y, y) /\ UNCHANGED out
  /\ UNCHANGED <<prog, adj, threshold, val, prev, front, todo, changed, moved, iteration, phase>>

(* bfs_functor_t: claim the vertex if it still has no parent. *)
bfs_update(w) ==
  /\ phase = "edges" /\ run[w].at = "cas" /\ prog.functor = "bfs"
  /\ LET ok == val[Dst(w)] = None
     IN Report(w, ok) /\ val' = IF ok THEN [val EXCEPT ![Dst(w)] = Src(w)] ELSE val
  /\ UNCHANGED <<prog, adj, threshold, prev, front, todo, changed, moved, iteration, phase>>

(* wcc_hook_functor_t: hang the higher root under the lower one. *)
HighAsFound(w) == run[w].x
High(w) == Max({run[w].x, run[w].y})
hook_update(w) ==
  /\ phase = "edges" /\ run[w].at = "cas" /\ prog.functor = "hook"
  /\ LET hi == High(w)  lo == CHOOSE r \in {run[w].x, run[w].y} : r # hi  ok == val[hi] = hi
     IN /\ Report(w, ok) /\ changed' = (changed \/ ok)
        /\ val' = IF ok THEN [val EXCEPT ![hi] = lo] ELSE val
  /\ UNCHANGED <<prog, adj, threshold, prev, front, todo, moved, iteration, phase>>

(* wcc_min_functor_t: lower the label, again while it is lower than the label   *)
(* found; report only the first change of the round.                            *)
GiveUp(w) == FALSE
Retry(w) == run[w].x < val[Dst(w)]
min_update(w) ==
  /\ phase = "edges" /\ run[w].at = "cas" /\ prog.functor = "min"
  /\ LET d == Dst(w)  x == run[w].x
     IN IF val[d] = run[w].y
        THEN val' = [val EXCEPT ![d] = x] /\ Report(w, run[w].orig = prev[d])
        ELSE /\ UNCHANGED val
             /\ IF Retry(w) THEN Goto(w, "cas", x, val[d], run[w].orig) /\ UNCHANGED out
                            ELSE Report(w, FALSE)
  /\ UNCHANGED <<prog, adj, threshold, prev, front, todo, changed, moved, iteration, phase>>

(* The lambda of parallel_wcc and parallel_cdlp: compare, read the source    *)
(* again for the new value, swap; reload and retry when the swap fails.      *)
relabel_update(w) ==
  /\ phase = "edges" /\ prog.functor = "relabel"
  /\ \/ /\ run[w].at = "check"
        /\ IF val[Src(w)] < run[w].y THEN Goto(w, "arg", None, run[w].y, None) /\ UNCHANGED out
                                     ELSE Report(w, FALSE)
        /\ UNCHANGED val
     \/ /\ run[w].at = "arg" /\ Goto(w, "cas", val[Src(w)], run[w].y, None)
        /\ UNCHANGED <<val, out>>
     \/ /\ run[w].at = "cas" /\ val[Dst(w)] = run[w].y
        /\ val' = [val EXCEPT ![Dst(w)] = run[w].x] /\ Report(w, TRUE)
     \/ /\ run[w].at = "cas" /\ val[Dst(w)] # run[w].y
        /\ Goto(w, "check", None, val[Dst(w)], None) /\ UNCHANGED <<val, out>>
  /\ UNCHANGED <<prog, adj, threshold, prev, front, todo, changed, moved, iteration, phase>>

(* The end of a round: the output becomes the frontier; wcc_sv compresses.   *)
EndRound ==
  /\ phase = "edges" /\ RoundOver
  /\ IF prog.functor = "hook"
     THEN phase' = "compress" /\ todo' = [v \in V |-> 1] /\ UNCHANGED front
     ELSE /\ phase' = "round" /\ UNCHANGED todo
          /\ front' = IF prog.scan THEN SparseSubset(Set(out))
                      ELSE IF Dense THEN DenseSubset(Support(out)) ELSE SparseSubset(out)
  /\ moved' = FALSE
  /\ UNCHANGED <<prog, adj, threshold, val, prev, out, run, changed, iteration>>

(* wcc_compress_functor_t: load the grandparent, then store it if it is another. *)
AlwaysMoves(v) == TRUE
Moves(v) == val[v] # val[val[v]]
CompressLoad(w) ==
  /\ phase = "compress" /\ run[w] = Idle
  /\ \E v \in Support(todo) :
       /\ todo' = [todo EXCEPT ![v] = @ - 1]
       /\ run' = [run EXCEPT ![w] = IF Moves(v)
                                    THEN [at |-> "store", v |-> v, x |-> val[val[v]]] ELSE Idle]
  /\ UNCHANGED <<prog, adj, threshold, val, prev, front, out, changed, moved, iteration, phase>>

CompressStore(w) ==
  /\ phase = "compress" /\ run[w].at = "store"
  /\ val' = [val EXCEPT ![run[w].v] = run[w].x] /\ moved' = TRUE
  /\ run' = [run EXCEPT ![w] = Idle]
  /\ UNCHANGED <<prog, adj, threshold, prev, front, todo, out, changed, iteration, phase>>

(* Repeat the compression until nothing moves; stop after a round without hooks. *)
EndCompress ==
  /\ phase = "compress" /\ RoundOver
  /\ IF moved THEN moved' = FALSE /\ todo' = [v \in V |-> 1] /\ UNCHANGED phase
     ELSE phase' = (IF changed THEN "round" ELSE "end") /\ UNCHANGED <<moved, todo>>
  /\ UNCHANGED <<prog, adj, threshold, val, prev, front, out, run, changed, iteration>>

WorkerStep(w) ==
  \/ bw_edge_map_dense(w) \/ bw_edge_map_sparse(w) \/ bw_edge_scan(w) \/ bw_page_local_edge_scan(w)
  \/ Edge(w) \/ Load(w) \/ bfs_update(w) \/ hook_update(w) \/ min_update(w)
  \/ relabel_update(w) \/ CompressLoad(w) \/ CompressStore(w)
RoundStep == bw_edge_map \/ Finish \/ EndRound \/ EndCompress
Next == RoundStep \/ \E w \in Workers : WorkerStep(w)
Fairness == WF_vars(RoundStep) /\ \A w \in Workers : WF_vars(WorkerStep(w))
Spec == Init /\ [][Next]_vars /\ Fairness

(* Reference: hop distances and the smallest vertex of each component. *)
Within(s) == LET L[k \in 0 .. N] == IF k = 0 THEN {s}
                                    ELSE L[k - 1] \cup UNION {{adj[u][i] : i \in DOMAIN adj[u]} : u \in L[k - 1]}
             IN L
Component(v) == Within(v)[N]
RefDistance(s) == [v \in V |-> IF v \in Component(s) THEN Min({k \in 0 .. N : v \in Within(s)[k]}) ELSE None]

(* Results: distances by walking the parents, roots, or the labels. *)
Result == CASE prog.functor = "bfs" ->
                 [v \in V |-> IF val[v] = None THEN None
                              ELSE Min({k \in 0 .. N : val[ParentWalk(v)[k]] = ParentWalk(v)[k]})]
            [] prog.functor = "hook" -> [v \in V |-> wcc_find_root(v)]
            [] OTHER -> val

-----------------------------------------------------------------------------
(* Whatever the schedule, a finished function holds the reference result:     *)
(* hop distances for BFS, the smallest vertex of its component for every      *)
(* vertex otherwise.  Two cases make no such claim: label propagation cut off *)
(* by max_iterations, and wcc_map once a round may run dense (see             *)
(* MapComponentsExact).                                                       *)
ResultExact ==
  phase = "end" =>
    \/ prog.rounds = "bounded" /\ iteration >= MaxIterations
    \/ prog.functor = "min" /\ threshold < TotalEdges(adj)
    \/ Result = IF prog.functor = "bfs"
                THEN RefDistance(CHOOSE s \in V : prog.val[s] = s)
                ELSE [v \in V |-> Min(Component(v))]

(* At every step of every interleaving: a BFS parent is a neighbour one hop   *)
(* nearer to the start; a root or label is a vertex of the same component, no *)
(* larger than the vertex; and the frontier never trips the check on its      *)
(* stored count, although a sparse output may list a vertex twice.            *)
ArraysSound ==
  /\ phase # "abort"
  /\ \A v \in V : val[v] # prog.val[v] =>
       IF prog.functor = "bfs"
       THEN LET D == RefDistance(CHOOSE s \in V : prog.val[s] = s)
            IN D[v] = D[val[v]] + 1 /\ \E i \in DOMAIN adj[v] : adj[v][i] = val[v]
       ELSE val[v] < v /\ val[v] \in Component(v)

(* What every function must come to: rounds stop once nothing changes. *)
Ended == phase = "end"

(* db.h:783: "Propagates minimum vertex-ID labels across edges until no label *)
(* changes", so wcc_map must leave no edge between different labels.          *)
MapComponentsExact ==
  phase = "end" /\ prog.functor = "min" =>
    \A v \in V : \A i \in DOMAIN adj[v] : val[v] = val[adj[v][i]]
=============================================================================
