----------------------------- MODULE GiantStore -----------------------------
(***************************************************************************)
(* external.cc: neighbour lists of giant vertices in a RocksDB store       *)
(* (external: an atomic, durable key-value map with ordered iteration).    *)
(* A list is stored sorted, as differences in groups of four (folly's      *)
(* GroupVarint, external) and a tail of variable-length integers.  Changes *)
(* may be appended as delta records and merged into the list later.  One   *)
(* caller at a time uses a vertex, and two of its records never fall into  *)
(* the same microsecond.                                                   *)
(***************************************************************************)
EXTENDS Integers, Sequences, SequencesExt, FiniteSets, FiniteSetsExt

CONSTANTS Giants, Lists, Neighbours, MaxClock

VARIABLES base,      \* "v:" records: serialized lists
          recs,      \* "d:" records
          cache,     \* neighbor_cache
          clock,     \* get_current_timestamp
          job,       \* a consolidate_vertex_deltas call under way
          truth      \* reference: the neighbours each vertex should have

vars == <<base, recs, cache, clock, job, truth>>

(* compress_neighbors: differences of the sorted list; seven bits a byte in the tail. *)
Varint(n) == LET B[k \in Nat] == IF k < 128 THEN <<k>> ELSE <<(k % 128) + 128>> \o B[k \div 128] IN B[n]
compress_neighbors(s) ==
  LET d == [i \in DOMAIN s |-> IF i = 1 THEN s[1] ELSE s[i] - s[i - 1]]
      g == Len(s) \div 4
  IN [groups |-> [k \in 1 .. g |-> SubSeq(d, 4 * k - 3, 4 * k)],
      tail |-> FlattenSeq([i \in 1 .. Len(s) - 4 * g |-> Varint(d[4 * g + i])])]

(* decompress_neighbors: undo the groups, read the tail byte by byte, add up. *)
DecodeTail(bytes) ==
  FoldLeft(LAMBDA a, b : IF b >= 128 THEN [a EXCEPT !.v = @ + (b - 128) * a.m, !.m = @ * 128]
                         ELSE [out |-> Append(a.out, a.v + b * a.m), v |-> 0, m |-> 1],
           [out |-> <<>>, v |-> 0, m |-> 1], bytes).out
decompress_neighbors(c, degree) ==
  LET d == SubSeq(FlattenSeq(c.groups) \o DecodeTail(c.tail), 1, degree)
      S[i \in 0 .. Len(d)] == IF i = 0 THEN 0 ELSE S[i - 1] + d[i]
  IN [i \in DOMAIN d |-> S[i]]

Sorted(ns) == SetToSortSeq(ns, LAMBDA x, y : x < y)
serialize_neighbors(ns) == [degree |-> Cardinality(ns), data |-> compress_neighbors(Sorted(ns))]
deserialize_neighbors(value) == Range(decompress_neighbors(value.data, value.degree))
read_neighbor_clone(v) == deserialize_neighbors(base[v])

Idle == [at |-> "idle"]
Init ==
  /\ truth \in [Giants -> Lists] /\ base = [v \in Giants |-> serialize_neighbors(truth[v])]
  /\ recs = {} /\ cache = [v \in Giants |-> <<>>] /\ clock = 0 /\ job = Idle

insert_vertex(v, ns) == base' = [base EXCEPT ![v] = serialize_neighbors(ns)]
Cached(v, ns) == cache' = [cache EXCEPT ![v] = <<ns>>]

(* read_neighbor fills the cache on a miss; nothing takes an entry out again. *)
read_neighbor(v) ==
  /\ job = Idle /\ cache[v] = <<>> /\ Cached(v, read_neighbor_clone(v))
  /\ UNCHANGED <<base, recs, clock, job, truth>>

(* The direct interface, for lists without pending delta records. *)
Direct(v) == job = Idle /\ ~\E r \in recs : r.v = v
add_neighbor(v, n) ==
  /\ Direct(v) /\ n \notin read_neighbor_clone(v) /\ Cached(v, read_neighbor_clone(v))
  /\ insert_vertex(v, read_neighbor_clone(v) \cup {n}) /\ truth' = [truth EXCEPT ![v] = @ \cup {n}]
  /\ UNCHANGED <<recs, clock, job>>
remove_neighbor(v, n) ==
  /\ Direct(v) /\ n \in read_neighbor_clone(v) /\ Cached(v, read_neighbor_clone(v))
  /\ insert_vertex(v, read_neighbor_clone(v) \ {n}) /\ truth' = [truth EXCEPT ![v] = @ \ {n}]
  /\ UNCHANGED <<recs, clock, job>>

(* Delta records, keyed by vertex and time. *)
AppendRec(v, op, n) ==
  /\ job = Idle /\ clock < MaxClock /\ clock' = clock + 1
  /\ recs' = recs \cup {[v |-> v, ts |-> clock, op |-> op, n |-> n]}
  /\ UNCHANGED <<base, cache, job>>
add_neighbor_delta(v, n) == AppendRec(v, "ADD", n) /\ truth' = [truth EXCEPT ![v] = @ \cup {n}]
remove_neighbor_delta(v, n) == AppendRec(v, "REMOVE", n) /\ truth' = [truth EXCEPT ![v] = @ \ {n}]
batch_apply_deltas(v, n, m) ==
  /\ job = Idle /\ clock + 1 < MaxClock /\ clock' = clock + 2
  /\ recs' = recs \cup {[v |-> v, ts |-> clock, op |-> "ADD", n |-> n], [v |-> v, ts |-> clock + 1, op |-> "REMOVE", n |-> m]}
  /\ truth' = [truth EXCEPT ![v] = (@ \cup {n}) \ {m}]
  /\ UNCHANGED <<base, cache, job>>

(* The list with the records of the vertex applied in time order. *)
read_neighbors_with_deltas_applied(v) ==
  FoldLeft(LAMBDA ns, r : IF r.op = "ADD" THEN ns \cup {r.n} ELSE ns \ {r.n},
           read_neighbor_clone(v), SetToSortSeq({r \in recs : r.v = v}, LAMBDA x, y : x.ts < y.ts))

(* consolidate_vertex_deltas: merge, store the list, then delete the records in one batch. *)
MergeRead(v) ==
  /\ job = Idle /\ (\E r \in recs : r.v = v) /\ Cached(v, read_neighbor_clone(v))
  /\ job' = [at |-> "put", v |-> v, ns |-> read_neighbors_with_deltas_applied(v)]
  /\ UNCHANGED <<base, recs, clock, truth>>
DeleteBeforePut ==
  \/ /\ job.at = "put" /\ recs' = {r \in recs : r.v # job.v} /\ job' = [job EXCEPT !.at = "delete"]
     /\ UNCHANGED <<base, cache, clock, truth>>
  \/ /\ job.at = "delete" /\ insert_vertex(job.v, job.ns) /\ job' = Idle
     /\ UNCHANGED <<recs, cache, clock, truth>>
consolidate_vertex_deltas ==
  \/ /\ job.at = "put" /\ insert_vertex(job.v, job.ns) /\ job' = [job EXCEPT !.at = "delete"]
     /\ UNCHANGED <<recs, cache, clock, truth>>
  \/ /\ job.at = "delete" /\ recs' = {r \in recs : r.v # job.v} /\ job' = Idle
     /\ UNCHANGED <<base, cache, clock, truth>>

(* The process stops and starts again; the clock goes on. *)
Restart == /\ job' = Idle /\ cache' = [v \in Giants |-> <<>>]
           /\ UNCHANGED <<base, recs, clock, truth>>

Next == \/ consolidate_vertex_deltas \/ Restart
        \/ \E v \in Giants : \/ MergeRead(v) \/ read_neighbor(v)
                             \/ \E n \in Neighbours :
                                  \/ add_neighbor(v, n) \/ remove_neighbor(v, n)
                                  \/ add_neighbor_delta(v, n) \/ remove_neighbor_delta(v, n)
                                  \/ \E m \in Neighbours : batch_apply_deltas(v, n, m)
Spec == Init /\ [][Next]_vars

-----------------------------------------------------------------------------
(* At every point, also between the two writes of a consolidation and after a  *)
(* restart there, the stored list with the pending records applied is exactly  *)
(* the vertex's neighbours: merging twice is harmless, and every stored list   *)
(* is read back as it was written.                                             *)
GiantReadExact == \A v \in Giants : read_neighbors_with_deltas_applied(v) = truth[v]
=============================================================================
