------------------------------ MODULE Traverse ------------------------------
(***************************************************************************)
(* The traversals of db_algorithm.cc that are not rounds over a frontier:  *)
(* sequential BFS and connected components, BFS block by block (alone and  *)
(* with a pool of workers), the random walk sample and the degree          *)
(* histogram.  A page is read with its latch held; pins counts the page    *)
(* latches a call has taken and not released.                              *)
(***************************************************************************)
EXTENDS Integers, Sequences, SequencesExt, FiniteSets, FiniteSetsExt

CONSTANTS N, Graphs, PageOf,     \* PageOf: the page of each vertex
          Workers, SampleSize, MaxWalk, Step, Calls

VARIABLES call, adj, start, queue, visited, level, order,
          pages,                 \* visited_pages
          worker, active, go,    \* the pool of bfs_block_parallel: active_workers, should_continue
          walk,                  \* walked_edges
          pins, phase

vars == <<call, adj, start, queue, visited, level, order, pages, worker, active, go, walk, pins, phase>>
V == 0 .. N - 1
Nbrs(v) == ToSet(adj[v])
Unset == N * N

Init ==
  /\ call \in Calls /\ adj \in Graphs /\ start \in V
  /\ queue = CASE call = "wcc" -> <<>>
               [] call \in {"bfs_block", "bfs_block_parallel"} -> <<[v |-> start, page |-> PageOf[start]]>>
               [] OTHER -> <<start>>
  /\ visited = IF call \in {"bfs", "walk"} THEN {start} ELSE {}
  /\ level = [v \in V |-> IF call = "wcc" THEN Unset ELSE 0]
  /\ order = IF call = "walk" THEN <<start>> ELSE <<>>
  /\ pages = {} /\ walk = {} /\ active = 0 /\ go = TRUE
  (* read_page_vertex latches the start page for both block searches *)
  /\ pins = IF call \in {"bfs_block", "bfs_block_parallel"} THEN 1 ELSE 0
  /\ worker = [w \in Workers |-> [at |-> "new"]]
  /\ phase = "run"

(* bfs: one dequeued vertex. *)
bfs ==
  /\ phase = "run" /\ call = "bfs" /\ queue # <<>>
  /\ LET v == Head(queue)  new == SelectSeq(adj[v], LAMBDA u : u \notin visited)
     IN /\ order' = Append(order, <<v, level[v]>>)
        /\ queue' = Tail(queue) \o new /\ visited' = visited \cup ToSet(new)
        /\ level' = [u \in V |-> IF u \in ToSet(new) THEN level[v] + 1 ELSE level[u]]
  /\ UNCHANGED <<call, adj, start, pages, worker, active, go, walk, pins, phase>>

(* wcc: level holds component_id; the next unlabelled vertex opens a component. *)
wcc ==
  /\ phase = "run" /\ call = "wcc"
  /\ \/ /\ queue = <<>> /\ \E v \in V : level[v] = Unset
        /\ LET s == Min({v \in V : level[v] = Unset})
           IN /\ queue' = <<s>>
              /\ level' = [level EXCEPT ![s] = Cardinality({level[u] : u \in V} \ {Unset})]
     \/ /\ queue # <<>>
        /\ LET v == Head(queue)  new == SelectSeq(adj[v], LAMBDA u : level[u] = Unset)
           IN /\ queue' = Tail(queue) \o new
              /\ level' = [u \in V |-> IF u \in ToSet(new) THEN level[v] ELSE level[u]]
  /\ UNCHANGED <<call, adj, start, visited, order, pages, worker, active, go, walk, pins, phase>>

(* bfs_block_inner: the vertices of the block reachable inside it, level by    *)
(* level, and the neighbours outside in the order they are met.                *)
InBlock(s, seen) ==
  LET p == PageOf[s]
      L[k \in 0 .. N] ==
        IF k = 0 THEN <<s>>
        ELSE LET old == UNION {ToSet(L[j]) : j \in 0 .. k - 1}
                 all == FlattenSeq([i \in DOMAIN L[k - 1] |-> adj[L[k - 1][i]]])
             IN FoldLeft(LAMBDA t, u : IF PageOf[u] = p /\ u \notin seen \cup old \cup ToSet(t)
                                       THEN Append(t, u) ELSE t, <<>>, all)
  IN L
bfs_block_inner(s, seen) ==
  LET L == InBlock(s, seen)
  IN FlattenSeq([k \in 1 .. N + 1 |-> [i \in DOMAIN L[k - 1] |-> <<L[k - 1][i], k - 1>>]])
Outside(s, seen) ==
  LET found == bfs_block_inner(s, seen)
  IN FlattenSeq([i \in DOMAIN found |->
       SelectSeq(adj[found[i][1]], LAMBDA u : PageOf[u] # PageOf[s])])

(* bfs_block: one block of the queue; the map keeps the last vertex met per    *)
(* page, and the page latch is never released.                                 *)
bfs_block ==
  /\ phase = "run" /\ call = "bfs_block" /\ queue # <<>>
  /\ LET b == Head(queue)
         found == bfs_block_inner(b.v, visited)
         seen == visited \cup {found[i][1] : i \in DOMAIN found}
         done == pages \cup {b.page}
         o == SelectSeq(Outside(b.v, visited), LAMBDA u : u \notin seen /\ PageOf[u] \notin done)
     IN \E q \in SetToSeqs({PageOf[o[i]] : i \in DOMAIN o}) :
          /\ queue' = Tail(queue) \o [j \in DOMAIN q |->
                         [v |-> o[Max({i \in DOMAIN o : PageOf[o[i]] = q[j]})], page |-> q[j]]]
          /\ order' = order \o found /\ visited' = seen /\ pages' = done
  /\ pins' = pins + 1
  /\ UNCHANGED <<call, adj, start, level, worker, active, go, walk, phase>>

(* A worker of bfs_block_parallel. *)
Worker(w, at) == call = "bfs_block_parallel" /\ phase = "run" /\ worker[w].at = at
Goto(w, r) == worker' = [worker EXCEPT ![w] = r]
At(s) == [at |-> s]

WorkerStart(w) ==
  /\ Worker(w, "new") /\ active' = active + 1 /\ Goto(w, At("loop"))
  /\ UNCHANGED <<call, adj, start, queue, visited, level, order, pages, go, walk, pins, phase>>

(* try_pop; on an empty queue a worker that is alone tries once more and stops  *)
(* the pool, the others sleep and come back.                                    *)
WorkerPop(w) ==
  /\ \/ /\ Worker(w, "loop") /\ ~go
        /\ Goto(w, At("gone")) /\ active' = active - 1 /\ UNCHANGED <<queue, go>>
     \/ /\ Worker(w, "loop") \/ Worker(w, "last")
        /\ go /\ queue # <<>>
        /\ Goto(w, [at |-> "page", v |-> Head(queue).v, page |-> Head(queue).page])
        /\ queue' = Tail(queue) /\ UNCHANGED <<active, go>>
     \/ /\ Worker(w, "loop") /\ go /\ queue = <<>> /\ active = 1
        /\ Goto(w, At("last")) /\ UNCHANGED <<queue, active, go>>
     \/ /\ Worker(w, "last") /\ go /\ queue = <<>>
        /\ go' = FALSE /\ Goto(w, At("gone")) /\ active' = active - 1 /\ UNCHANGED queue
  /\ UNCHANGED <<call, adj, start, visited, level, order, pages, walk, pins, phase>>

(* Claim the page, search it (no other worker touches its vertices), append.    *)
NeverSearched(page) == FALSE
Searched(page) == page \in pages
bfs_block_inner_parallel(w) ==
  /\ Worker(w, "page")
  /\ LET b == worker[w]  found == bfs_block_inner(b.v, visited)
     IN IF Searched(b.page)
        THEN Goto(w, At("loop")) /\ UNCHANGED <<pages, order, visited, pins>>
        ELSE /\ pages' = pages \cup {b.page} /\ pins' = pins + 1
             /\ IF b.v \in visited
                THEN UNCHANGED <<order, visited>> /\ Goto(w, At("loop"))
                ELSE /\ order' = order \o found
                     /\ visited' = visited \cup {found[i][1] : i \in DOMAIN found}
                     /\ Goto(w, [at |-> "out", todo |-> Outside(b.v, visited), keep |-> <<>>])
  /\ UNCHANGED <<call, adj, start, queue, level, active, go, walk, phase>>

(* Outside vertices: keep the first per page that is neither visited nor on a   *)
(* visited page, then push them all.                                            *)
WorkerOutside(w) ==
  /\ Worker(w, "out")
  /\ LET t == worker[w].todo  k == worker[w].keep IN
     IF t # <<>>
     THEN /\ Goto(w, [at |-> "out", todo |-> Tail(t), keep |->
                IF Head(t) \in visited \/ PageOf[Head(t)] \in pages \/ \E i \in DOMAIN k : k[i].page = PageOf[Head(t)]
                THEN k ELSE Append(k, [v |-> Head(t), page |-> PageOf[Head(t)]])])
          /\ UNCHANGED queue
     ELSE queue' = queue \o k /\ Goto(w, At("loop"))
  /\ UNCHANGED <<call, adj, start, visited, level, order, pages, active, go, walk, pins, phase>>

(* graph_sample_walk: follow a neighbour, restart from a sampled vertex, or give *)
(* up when the only sampled vertex is isolated.                                  *)
graph_sample_walk ==
  /\ phase = "run" /\ call = "walk" /\ Len(order) < SampleSize /\ Cardinality(walk) < MaxWalk
  /\ LET v == Head(queue) IN
     IF adj[v] = <<>>
     THEN /\ Len(order) > 1 /\ \E u \in ToSet(order) : queue' = <<u>>
          /\ UNCHANGED <<order, visited, walk>>
     ELSE \E u \in Nbrs(v) :
          /\ walk' = walk \cup {<<v, u>>}
          /\ order' = IF u \in visited THEN order ELSE Append(order, u)
          /\ visited' = visited \cup {u}
          /\ \E c \in {u} \cup (IF Len(order') > 1 THEN ToSet(order') ELSE {}) : queue' = <<c>>
  /\ UNCHANGED <<call, adj, start, level, pages, worker, active, go, pins, phase>>

(* compute_degree_distribution: vertices per bucket of Step degrees, empty       *)
(* buckets dropped.                                                              *)
compute_degree_distribution ==
  LET buckets == 0 .. Max({Len(adj[v]) : v \in V}) \div Step
      in(b) == {v \in V : Len(adj[v]) \div Step = b}
  IN [b \in {c \in buckets : in(c) # {}} |-> Cardinality(in(b))]

Finish ==
  /\ phase = "run"
  /\ CASE call = "bfs" \/ call = "bfs_block" -> queue = <<>>
       [] call = "wcc" -> queue = <<>> /\ \A v \in V : level[v] # Unset
       [] call = "walk" -> \/ Len(order) >= SampleSize
                           \/ adj[Head(queue)] = <<>> /\ Len(order) = 1
       [] call = "bfs_block_parallel" -> \A w \in Workers : worker[w].at = "gone"
       [] OTHER -> TRUE
  /\ phase' = "end"
  /\ UNCHANGED <<call, adj, start, queue, visited, level, order, pages, worker, active, go, walk, pins>>

Next == bfs \/ wcc \/ bfs_block \/ graph_sample_walk \/ Finish
        \/ \E w \in Workers : \/ WorkerStart(w) \/ WorkerPop(w) \/ bfs_block_inner_parallel(w)
                              \/ WorkerOutside(w)
Spec == Init /\ [][Next]_vars

-----------------------------------------------------------------------------
Within(s) == LET L[k \in 0 .. N] == IF k = 0 THEN {s} ELSE L[k - 1] \cup UNION {Nbrs(u) : u \in L[k - 1]} IN L
Distance(s, v) == Min({k \in 0 .. N : v \in Within(s)[k]})

(* bfs lists exactly the reachable vertices with their hop distances in       *)
(* ascending order; wcc numbers two vertices alike exactly when they are      *)
(* connected; a sampled walk uses edges of the graph and is connected to its  *)
(* start; the histogram counts every vertex once.                             *)
TraversalExact ==
  phase = "end" =>
    CASE call = "bfs" ->
           /\ {order[i][1] : i \in DOMAIN order} = Within(start)[N]
           /\ \A i \in DOMAIN order : order[i][2] = Distance(start, order[i][1])
           /\ \A i \in 1 .. Len(order) - 1 : order[i][2] <= order[i + 1][2]
      [] call = "wcc" -> \A u, v \in V : level[u] = level[v] <=> v \in Within(u)[N]
      [] call = "walk" -> /\ \A e \in walk : e[2] \in Nbrs(e[1])
                          /\ Cardinality(ToSet(order)) = Len(order) /\ Len(order) <= SampleSize
                          /\ ToSet(order) \subseteq Within(start)[N]
      [] call = "histogram" ->
           MapThenSumSet(LAMBDA b : compute_degree_distribution[b], DOMAIN compute_degree_distribution) = N
      [] OTHER -> TRUE

(* Block by block, in any schedule of the workers: only reachable vertices    *)
(* are listed; the workers list none twice (the sequential search may repeat  *)
(* the entry vertex of a block queued twice) and search no page twice; and    *)
(* the pool never stops while a block is queued or being searched.            *)
BlocksOnce ==
  call \in {"bfs_block", "bfs_block_parallel"} =>
    /\ \A i \in DOMAIN order : order[i][1] \in Within(start)[N]
    /\ \A i, j \in DOMAIN order : order[i][1] = order[j][1] =>
         i = j \/ (call = "bfs_block" /\ 0 \in {order[i][2], order[j][2]})
    /\ call = "bfs_block_parallel" => pins = Cardinality(pages) + 1
    /\ ~go => queue = <<>> /\ \A w \in Workers : worker[w].at \in {"new", "loop", "gone"}
=============================================================================
