------------------------------- MODULE Build -------------------------------
(***************************************************************************)
(* db_build.cc: the four ways a database is built.  Vertices are packed    *)
(* into CSR pages by csr_page_builder_t (or page constructors), numbered,  *)
(* located in the vertex index, giants sent to the external store, pages   *)
(* written and the index saved.  A page is the sequence of its vertices;   *)
(* sizes are counted in 4-byte words.                                      *)
(***************************************************************************)
EXTENDS Integers, Sequences, SequencesExt, FiniteSets, FiniteSetsExt

CONSTANTS N, Graphs,               \* functions from vertices to neighbour sequences
          GiantBound, PageWords, FixedWords, VertexWords, Slots,
          Threads,                 \* hardware_concurrency
          Partitions,              \* results the partitioner may give (module Partition)
          Builds                   \* subset of the four functions' names

VARIABLES build, adj,
          file,       \* the partition file: absent, short, of another graph, or whole
          part,       \* partition in use, a sequence of vertex sequences
          cursor,     \* per thread: next vertex of its segment
          batch,      \* per thread: vertices of the page builder
          seg,        \* per thread: finished pages and giant vertices
          pages,      \* page number -> vertices, finished and numbered
          loc,        \* vertex index: page, slot and type
          giants,     \* the giant vertex store
          disk, saved, phase

vars == <<build, adj, file, part, cursor, batch, seg, pages, loc, giants, disk, saved, phase>>
V == 0 .. N - 1
NoLoc == [page |-> 0, slot |-> 0, type |-> "NORMAL"]
Giant(v) == Len(adj[v]) >= GiantBound
Flatten(p) == FlattenSeq(p)

(* csr_page_builder_t: bytes of the vertices added so far, and whether one more fits. *)
VertexSize(v, slots) == VertexWords + IF Giant(v) THEN 0 ELSE Len(adj[v]) + slots
SizeOf(b, slots) == FoldLeft(LAMBDA a, v : a + VertexSize(v, slots), FixedWords, b)
FitsOnePage(b, slots) == SizeOf(b, slots) <= PageWords
add_vertex(b, v) == b = <<>> \/ FitsOnePage(Append(b, v), Slots)

(* The index entries of the vertices of a page. *)
Located(index, no, b) ==
  [v \in V |-> IF v \in ToSet(b)
               THEN [index[v] EXCEPT !.page = no, !.slot = CHOOSE i \in DOMAIN b : b[i] = v] ELSE index[v]]

Init ==
  /\ build \in Builds /\ adj \in Graphs
  /\ file \in {[is |-> k, p |-> <<>>] : k \in {"absent", "short", "other"}}
             \cup {[is |-> "whole", p |-> p] : p \in Partitions}
  /\ build \in {"build_seq_db", "build_compressed_db"} => file.is = "absent"
  /\ build = "build_standard_db" => file.is # "other"
  /\ part = <<>> /\ pages = <<>> /\ loc = [v \in V |-> NoLoc] /\ giants = {} /\ disk = <<>> /\ saved = <<>>
  /\ batch = [t \in 1 .. Threads |-> <<>>]
  /\ cursor = [t \in 1 .. Threads |-> (t - 1) * ((N + Threads - 1) \div Threads)]
  /\ seg = [t \in 1 .. Threads |-> [pages |-> <<>>, giants |-> <<>>]]
  /\ phase = CASE build = "build_seq_db" -> "segments" [] build = "build_compressed_db" -> "stream"
               [] OTHER -> "partition"

-----------------------------------------------------------------------------
(* build_seq_db: a segment of the vertex numbers per thread. *)
SegmentEnd(t) == Min({t * ((N + Threads - 1) \div Threads), N})
(* csr_page_builder_t::build: an empty builder takes any vertex, so a page of  *)
(* one vertex may be too large; the exception ends the whole build.            *)
BuildPage(t) ==
  IF FitsOnePage(batch[t], Slots) THEN seg' = [seg EXCEPT ![t].pages = Append(@, batch[t])] /\ UNCHANGED phase
  ELSE phase' = "threw" /\ UNCHANGED seg
PackVertex(t) ==
  /\ phase = "segments" /\ cursor[t] < SegmentEnd(t)
  /\ LET v == cursor[t] IN
     IF Giant(v)
     THEN seg' = [seg EXCEPT ![t].giants = Append(@, v)] /\ UNCHANGED <<batch, phase>>
     ELSE IF add_vertex(batch[t], v)
          THEN batch' = [batch EXCEPT ![t] = Append(@, v)] /\ UNCHANGED <<seg, phase>>
          ELSE BuildPage(t) /\ batch' = [batch EXCEPT ![t] = <<v>>]
  /\ cursor' = [cursor EXCEPT ![t] = @ + 1]
  /\ UNCHANGED <<build, adj, file, part, pages, loc, giants, disk, saved>>

PackLast(t) ==
  /\ phase = "segments" /\ cursor[t] >= SegmentEnd(t) /\ batch[t] # <<>>
  /\ BuildPage(t) /\ batch' = [batch EXCEPT ![t] = <<>>]
  /\ UNCHANGED <<build, adj, file, part, cursor, pages, loc, giants, disk, saved>>

(* Steps 4 to 7: first page number of each segment, index entries, giants. *)
SegmentStartByIndex(t) == t - 1
SegmentStart(t) == MapThenSumSet(LAMBDA u : Len(seg[u].pages), 1 .. t - 1)
NumberSegments ==
  /\ phase = "segments" /\ \A t \in 1 .. Threads : cursor[t] >= SegmentEnd(t) /\ batch[t] = <<>>
  /\ LET at(t, i) == SegmentStart(t) + i - 1
         all == {<<t, i>> \in (1 .. Threads) \X (1 .. N) : i \in DOMAIN seg[t].pages}
         big == UNION {ToSet(seg[t].giants) : t \in 1 .. Threads}
     IN /\ pages' = [n \in {at(x[1], x[2]) : x \in all} |->
                       LET x == CHOOSE x \in all : at(x[1], x[2]) = n IN seg[x[1]].pages[x[2]]]
        /\ loc' = [v \in V |->
             IF v \in big THEN [page |-> 0, slot |-> 0, type |-> "GIANT"]
             ELSE LET x == CHOOSE x \in all : v \in ToSet(seg[x[1]].pages[x[2]])  b == seg[x[1]].pages[x[2]]
                  IN [page |-> at(x[1], x[2]), slot |-> CHOOSE i \in DOMAIN b : b[i] = v, type |-> "NORMAL"]]
        /\ giants' = giants \cup big
  /\ phase' = "write"
  /\ UNCHANGED <<build, adj, file, part, cursor, batch, seg, disk, saved>>

(* Step 8: pages are written in parallel, in any order. *)
WritePage ==
  /\ phase = "write"
  /\ \E n \in DOMAIN pages \ DOMAIN disk :
       disk' = [m \in DOMAIN disk \cup {n} |-> IF m = n THEN pages[n] ELSE disk[m]]
  /\ UNCHANGED <<build, adj, file, part, cursor, batch, seg, pages, loc, giants, saved, phase>>

SaveIndex ==
  /\ phase = "write" /\ DOMAIN disk = DOMAIN pages
  /\ saved' = loc /\ phase' = "end"
  /\ UNCHANGED <<build, adj, file, part, cursor, batch, seg, pages, loc, giants, disk>>

-----------------------------------------------------------------------------
(* build_compressed_db: one stream; a full batch becomes a page, laid out in  *)
(* hash order, written and located at once.                                   *)
Flush(b, index) ==
  IF FitsOnePage(b, 0)
  THEN \E order \in SetToSeqs(ToSet(b)) :
         LET n == Cardinality(DOMAIN disk)
         IN /\ disk' = [m \in DOMAIN disk \cup {n} |-> IF m = n THEN order ELSE disk[m]]
            /\ loc' = Located(index, n, order)
            /\ UNCHANGED phase
  ELSE phase' = "threw" /\ UNCHANGED <<disk, loc>>
CompressedVertex ==
  /\ phase = "stream" /\ cursor[1] < N
  /\ LET v == cursor[1]  b == batch[1] IN
     IF Giant(v)
     THEN /\ giants' = giants \cup {v} /\ loc' = [loc EXCEPT ![v].type = "GIANT"]
          /\ UNCHANGED <<batch, disk, phase>>
     ELSE /\ UNCHANGED giants
          /\ IF b # <<>> /\ ~FitsOnePage(Append(b, v), 0)
             THEN Flush(b, loc) /\ batch' = [batch EXCEPT ![1] = <<v>>]
             ELSE batch' = [batch EXCEPT ![1] = Append(b, v)] /\ UNCHANGED <<disk, loc, phase>>
  /\ cursor' = [cursor EXCEPT ![1] = @ + 1]
  /\ UNCHANGED <<build, adj, file, part, seg, pages, saved>>
CompressedEnd ==
  /\ phase = "stream" /\ cursor[1] = N
  /\ IF batch[1] # <<>>
     THEN Flush(batch[1], loc) /\ batch' = [batch EXCEPT ![1] = <<>>] /\ UNCHANGED saved
     ELSE saved' = loc /\ phase' = "end" /\ UNCHANGED <<batch, disk, loc>>
  /\ UNCHANGED <<build, adj, file, part, cursor, seg, pages, giants>>

-----------------------------------------------------------------------------
(* load_or_compute_partition and its counterpart in build_reorder_tat_db: a   *)
(* file that cannot be read to its end, or (reorder only) that counts another *)
(* number of vertices, is replaced by a new partition, and so is any file     *)
(* when the caller asks to partition again (build_standard_db then keeps the  *)
(* old file).                                                                 *)
load_partition_from_stream(redo) == ~redo /\ file.is = "whole"
load_or_compute_partition ==
  /\ phase = "partition"
  /\ \E p \in Partitions, redo \in BOOLEAN :
       IF load_partition_from_stream(redo) THEN part' = file.p /\ UNCHANGED file
       ELSE /\ part' = p
            /\ file' = IF redo /\ build = "build_standard_db" THEN file ELSE [is |-> "whole", p |-> p]
  /\ phase' = IF build = "build_reorder_tat_db" THEN "reorder" ELSE "blocks"
  /\ UNCHANGED <<build, adj, cursor, batch, seg, pages, loc, giants, disk, saved>>

(* build_reorder_tat_db: each part is reordered (any permutation, or none),   *)
(* then packed; a part starts on a new page, giants keep an entry without edges. *)
PackParts(p) ==
  FoldLeft(LAMBDA done, q :
             LET packed == FoldLeft(LAMBDA s, v : IF add_vertex(s.b, v) THEN [s EXCEPT !.b = Append(@, v)]
                                                  ELSE [ps |-> Append(s.ps, s.b), b |-> <<v>>],
                                    [ps |-> <<>>, b |-> <<>>], q)
             IN done \o packed.ps \o IF packed.b = <<>> THEN <<>> ELSE <<packed.b>>,
           <<>>, p)
Reordered(p) ==
  {q \in [DOMAIN p -> UNION {SetToSeqs(ToSet(p[i])) : i \in DOMAIN p}] :
     \A i \in DOMAIN p : ToSet(q[i]) = ToSet(p[i])}
(* Pages that all fit are written, located and saved; one that does not ends  *)
(* the build before anything is written.                                      *)
Store(ps) ==
  IF \A i \in DOMAIN ps : FitsOnePage(ps[i], Slots)
  THEN LET index == FoldLeft(LAMBDA l, n : Located(l, n - 1, ps[n]), loc, [i \in DOMAIN ps |-> i])
       IN /\ disk' = [n \in 0 .. Len(ps) - 1 |-> ps[n + 1]] /\ pages' = disk'
          /\ giants' = {v \in ToSet(Flatten(ps)) : Giant(v)}
          /\ loc' = [v \in V |-> IF v \in giants' THEN [index[v] EXCEPT !.type = "GIANT"] ELSE index[v]]
          /\ saved' = loc' /\ phase' = "end"
  ELSE phase' = "threw" /\ UNCHANGED <<disk, pages, giants, loc, saved>>
build_reorder_tat_db ==
  /\ phase = "reorder"
  /\ \E p \in Reordered(part) : Store(PackParts(p))
  /\ UNCHANGED <<build, adj, file, part, cursor, batch, seg>>

(* build_standard_db: the vertex index constructor makes one page per part,   *)
(* with an entry for each giant; then giants, page writes and the index.      *)
build_standard_db ==
  /\ phase = "blocks"
  /\ \E p \in Reordered(part) : Store(p)
  /\ UNCHANGED <<build, adj, file, part, cursor, batch, seg>>

Next == \/ \E t \in 1 .. Threads : PackVertex(t) \/ PackLast(t)
        \/ NumberSegments \/ WritePage \/ SaveIndex \/ CompressedVertex \/ CompressedEnd
        \/ load_or_compute_partition \/ build_reorder_tat_db \/ build_standard_db
Spec == Init /\ [][Next]_vars

-----------------------------------------------------------------------------
(* A finished build can be read back: every vertex below the giant bound is   *)
(* found on disk at the page and slot the saved index names, every other one  *)
(* is marked giant and in the external store; pages are numbered without gaps *)
(* or reuse, none is over the page size, no vertex is on two pages.  A build  *)
(* stops for an overflow only where no packing could have helped: a block of  *)
(* the partition that is not one page (build_standard_db makes no second one), *)
(* or a single vertex larger than a page (the others).                        *)
BuildReadable ==
  /\ phase = "threw" =>
       IF build = "build_standard_db" THEN \E i \in DOMAIN part : ~FitsOnePage(part[i], Slots)
       ELSE \E v \in V : ~FitsOnePage(<<v>>, IF build = "build_compressed_db" THEN 0 ELSE Slots)
  /\ phase = "end" =>
       /\ DOMAIN disk = 0 .. Cardinality(DOMAIN disk) - 1
       /\ \A v \in V : IF Giant(v) THEN saved[v].type = "GIANT" /\ v \in giants
                       ELSE /\ saved[v].type = "NORMAL" /\ saved[v].page \in DOMAIN disk
                            /\ disk[saved[v].page][saved[v].slot] = v
       /\ \A n \in DOMAIN disk : SizeOf(disk[n], IF build = "build_compressed_db" THEN 0 ELSE Slots) <= PageWords
       /\ MapThenSumSet(LAMBDA n : Len(disk[n]), DOMAIN disk) = Cardinality(UNION {ToSet(disk[n]) : n \in DOMAIN disk})
=============================================================================
