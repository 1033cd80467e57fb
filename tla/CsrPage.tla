------------------------------ MODULE CsrPage ------------------------------
(***************************************************************************)
(* io_csr.cc: a CSR page as its 4-byte words and the members parsed from   *)
(* them.  Layout: 4 header words (counts, used, parent, neighbour count),  *)
(* a block of neighbour page numbers, 3 words per vertex (id, degree,      *)
(* offset), the neighbour array with free slots.  Sizes and offsets are in *)
(* words.  (The timestamp array of transaction builds is left out.)        *)
(***************************************************************************)
EXTENDS Integers, Sequences, SequencesExt, FiniteSets, FiniteSetsExt

CONSTANTS Lists,        \* graphs to build from: sequences of <<vertex, neighbours>>
          Dests, GiantBound, PageWords, SlotChoices, Block,
          Deltas,       \* delta records
          Links,        \* sequences of neighbour pages that are added together
          MaxOps        \* bound on operations

VARIABLES mem,          \* the words of the frame
          obj,          \* members: nv, ne, used, parent, ncount, nspan (first word of the span)
          disk,         \* the flushed image, <<>> before the first flush
          ref,          \* reference: neighbours of each vertex, by order on the page
          ops,
          lost          \* the words say nothing any more: a rebuild or a parse that threw,
                        \* or neighbour pages written over the first vertices

vars == <<mem, obj, disk, ref, ops, lost>>
Header == 4
VertexBase == Header + Block
NeighbourBase(nv) == VertexBase + 3 * nv
IsGiant(ns) == Len(ns) >= GiantBound
Zero == [w \in 0 .. PageWords - 1 |-> 0]
Write(m, at, words) == [w \in DOMAIN m |-> IF w \in at .. at + Len(words) - 1 THEN words[w - at + 1] ELSE m[w]]
Pack(nv, ne) == nv + 1000 * ne

(* Array entries of a list: a giant keeps none, another vertex its neighbours and free slots. *)
Entries(list, slots) ==
  [i \in DOMAIN list |-> IF IsGiant(list[i][2]) THEN <<>> ELSE list[i][2] \o [k \in 1 .. slots |-> 0]]
TotalWords(list, slots) ==
  NeighbourBase(Len(list)) + Len(FlattenSeq(Entries(list, slots)))
EdgeCount(list) == FoldLeft(LAMBDA a, x : a + IF IsGiant(x[2]) THEN 0 ELSE Len(x[2]), 0, list)

(* build_from_adjacency_map: page words and members; the caller checks that they fit. *)
build_from_adjacency_map(o, list, slots) ==
  LET e == Entries(list, slots)
      off(i) == IF IsGiant(list[i][2]) THEN 0 ELSE Len(FlattenSeq(SubSeq(e, 1, i - 1)))
      verts == FlattenSeq([i \in DOMAIN list |-> <<list[i][1], Len(list[i][2]), off(i)>>])
      head == <<Pack(Len(list), EdgeCount(list)), TotalWords(list, slots), o.parent, o.ncount>>
  IN [mem |-> Write(Write(Write(Zero, 0, head), VertexBase, verts), NeighbourBase(Len(list)), FlattenSeq(e)),
      obj |-> [nv |-> Len(list), ne |-> EdgeCount(list), used |-> TotalWords(list, slots),
               parent |-> o.parent, ncount |-> o.ncount, nspan |-> Header]]
EmptyObj == [nv |-> 0, ne |-> 0, used |-> 0, parent |-> 0, ncount |-> 0, nspan |-> Header]

(* parse_from_page_data; <<>> when it throws. *)
parse_from_page_data(m) ==
  LET nv == m[0] % 1000  ne == m[0] \div 1000
      o == [nv |-> nv, ne |-> ne, used |-> m[1], parent |-> m[2], ncount |-> m[3], nspan |-> Header]
  IN IF nv = 0 /\ ne = 0 THEN <<EmptyObj>>
     ELSE IF nv = 0 \/ m[3] > Block \/ m[1] < NeighbourBase(nv) \/ m[1] > PageWords THEN <<>>
     ELSE <<o>>

(* Reading through the members. *)
Id(i) == mem[VertexBase + 3 * (i - 1)]
get_vertex_degree(i) == mem[VertexBase + 3 * (i - 1) + 1]
Offset(i) == mem[VertexBase + 3 * (i - 1) + 2]
get_neighbors(i) ==
  IF get_vertex_degree(i) >= GiantBound THEN <<>>
  ELSE [k \in 1 .. get_vertex_degree(i) |-> mem[NeighbourBase(obj.nv) + Offset(i) + k - 1]]
read_neighbor_block_clone == [k \in 1 .. obj.ncount |-> mem[obj.nspan + k - 1]]

Init ==
  /\ \E list \in Lists, slots \in SlotChoices :
       /\ TotalWords(list, slots) <= PageWords
       /\ LET b == build_from_adjacency_map(EmptyObj, list, slots) IN mem = b.mem /\ obj = b.obj
       /\ ref = list
  /\ disk = <<>> /\ ops = 0 /\ lost = FALSE

Op == ops < MaxOps /\ ~lost /\ ops' = ops + 1

(* insert_edge: into a free slot; the last vertex owns the array up to used_bytes_. *)
CapacityOfLastIgnored(i) == IF i < obj.nv THEN Offset(i + 1) + 1 ELSE obj.used - NeighbourBase(obj.nv)
Capacity(i) == IF i < obj.nv THEN Offset(i + 1) ELSE obj.used - NeighbourBase(obj.nv)
insert_edge(i, dest) ==
  /\ Op
  /\ LET d == get_vertex_degree(i)
         ok == /\ d < GiantBound /\ dest \notin Range(get_neighbors(i))
               /\ Offset(i) + d < Capacity(i)
         used == Max({obj.used, NeighbourBase(obj.nv) + Offset(i) + d + 1})
     IN IF ok
        THEN /\ mem' = Write(Write(Write(Write(mem, NeighbourBase(obj.nv) + Offset(i) + d, <<dest>>),
                                         VertexBase + 3 * (i - 1) + 1, <<d + 1>>), 1, <<used>>),
                             0, <<Pack(obj.nv, obj.ne + 1)>>)
             /\ obj' = [obj EXCEPT !.ne = @ + 1, !.used = used]
             /\ ref' = [ref EXCEPT ![i][2] = Append(@, dest)]
        ELSE UNCHANGED <<mem, obj, ref>>
  /\ UNCHANGED <<disk, lost>>

(* apply_deltas: read the page, apply the records, rebuild with two slots per  *)
(* vertex in hash order.  The size check leaves the slots out, and the frame   *)
(* is cleared before the rebuild that may then throw.                          *)
Old == [i \in 1 .. obj.nv |-> <<Id(i), get_neighbors(i)>>]
ApplyDelta(list, r) ==
  CASE r.target = "VERTEX" /\ r.type = "INSERT" ->
         IF \E i \in DOMAIN list : list[i][1] = r.first THEN list ELSE Append(list, <<r.first, <<>>>>)
    [] r.target = "VERTEX" -> SelectSeq(list, LAMBDA x : x[1] # r.first)
    [] r.type = "INSERT" -> [i \in DOMAIN list |->
                               IF list[i][1] # r.first \/ r.second \in Range(list[i][2]) THEN list[i]
                               ELSE <<r.first, Append(list[i][2], r.second)>>]
    [] OTHER -> [i \in DOMAIN list |-> IF list[i][1] # r.first THEN list[i]
                               ELSE <<r.first, SelectSeq(list[i][2], LAMBDA y : y # r.second)>>]
NetWords(list) == NeighbourBase(Len(list)) + EdgeCount(list)
apply_deltas(r) ==
  /\ Op
  /\ LET list == ApplyDelta(Old, r)
         kept == SelectSeq(list, LAMBDA x : ~IsGiant(x[2]))
     IN IF NetWords(list) > PageWords THEN UNCHANGED <<mem, obj, ref, lost>>
        ELSE \E order \in SetToSeqs(Range(kept)) :
               IF TotalWords(order, 2) > PageWords
               THEN mem' = Zero /\ lost' = TRUE /\ UNCHANGED <<obj, ref>>
               ELSE LET b == build_from_adjacency_map(obj, order, 2)
                        o == parse_from_page_data(b.mem)
                    IN /\ mem' = b.mem /\ obj' = o[1]
                       (* giants of the old page come back without neighbours *)
                       /\ ref' = order
                       /\ UNCHANGED lost
  /\ UNCHANGED disk

(* The header setters still use the offsets of a 48-byte header: the parent    *)
(* goes to word 4, neighbour pages from word 12 on, their count to words 10-11.*)
set_parent_page_no(p) ==
  /\ Op /\ mem' = Write(mem, 4, <<p>>) /\ obj' = [obj EXCEPT !.parent = p]
  /\ UNCHANGED <<disk, ref, lost>>

(* Block numbers fit the block of the layout, but Block - 8 of them only from   *)
(* word 12: the ninth page added goes over the first vertex.                    *)
add_neighbor_page_no(m, o, p) ==
  IF o.ncount >= Block \/ p \in {m[o.nspan + k] : k \in 0 .. o.ncount - 1} THEN [mem |-> m, obj |-> o]
  ELSE [mem |-> Write(Write(m, 12 + o.ncount, <<p>>), 10, <<o.ncount + 1, 0>>),
        obj |-> [o EXCEPT !.ncount = @ + 1, !.nspan = 12]]
AddSampled(ps) ==
  /\ Op
  /\ LET b == FoldLeft(LAMBDA x, p : add_neighbor_page_no(x.mem, x.obj, p), [mem |-> mem, obj |-> obj], ps)
     IN /\ mem' = b.mem /\ obj' = b.obj
        /\ lost' = (b.obj.ncount > obj.ncount /\ 12 + b.obj.ncount > VertexBase)
  /\ UNCHANGED <<disk, ref>>

(* The page is written out, and read back into a frame and parsed. *)
Flush == ~lost /\ disk # <<mem, ref>> /\ disk' = <<mem, ref>> /\ UNCHANGED <<mem, obj, ref, ops, lost>>
self_parse ==
  /\ disk # <<>> /\ Op
  /\ LET o == parse_from_page_data(disk[1])
     IN IF o = <<>> THEN lost' = TRUE /\ UNCHANGED <<mem, obj, ref>>
        ELSE mem' = disk[1] /\ obj' = o[1] /\ ref' = disk[2] /\ UNCHANGED lost
  /\ UNCHANGED disk

Next == \/ \E i \in 1 .. obj.nv, d \in Dests : insert_edge(i, d)
        \/ \E r \in Deltas : apply_deltas(r)
        \/ set_parent_page_no(7) \/ \E ps \in Links : AddSampled(ps)
        \/ Flush \/ self_parse
Spec == Init /\ [][Next]_vars

-----------------------------------------------------------------------------
(* Whatever mix of slot inserts, rebuilds, header changes, flushes and reloads, *)
(* reading the page gives every vertex its own neighbours (a giant, or a vertex *)
(* that became one, none): no insert runs into the next vertex's array, and     *)
(* header changes stay out of the vertex array as long as no more than eight    *)
(* neighbour pages are added (beyond, the page is `lost`).                      *)
PageExact ==
  ~lost => /\ obj.nv = Len(ref)
           /\ \A i \in DOMAIN ref : /\ Id(i) = ref[i][1]
                                    /\ get_neighbors(i) = IF IsGiant(ref[i][2]) THEN <<>> ELSE ref[i][2]
           /\ obj.used <= PageWords
=============================================================================
