------------------------------ MODULE DeltaPages ------------------------------
(***************************************************************************)
(* Delta pages in the frames of their buffer pool (io_delta.cc, the insert *)
(* and fetch of page_map.cc, buf_page_new).  The chain of a CSR page links *)
(* frames by raw pointers and its writer, alone under the entry latch,     *)
(* stores records without a page latch, while the pool hands frames to     *)
(* other pages and the flusher writes them.                                *)
(*                                                                         *)
(* The replacement policy is left open (BufPool has it): any frame that    *)
(* nobody latches may be taken.  A delta page is unpinned when it is       *)
(* allocated and once more when it is fetched, so pins never keep one.     *)
(***************************************************************************)
EXTENDS Naturals, Sequences, SequencesExt, FiniteSets

CONSTANTS
  Chains,     \* CSR pages with a chain of delta pages
  Frames,     \* frames of the delta pool
  NoFrame,
  Slots,      \* records a page holds
  MaxRecs,    \* bound on records inserted
  MaxPages,   \* bound on page numbers allocated
  MaxLoads    \* bound on calls of the reader

Reader == "reader"
\* What the constants are: the reader is no chain, no frame is no frame.
DeltaParameters ==
  /\ Reader \notin Chains
  /\ NoFrame \notin Frames
  /\ Slots \in Nat /\ MaxRecs \in Nat /\ MaxPages \in Nat /\ MaxLoads \in Nat
Owners == Chains \cup {Reader}
DeltaNumbers == 1 .. MaxPages

VARIABLES
  head,    \* chain -> page_map_entry_t::delta_page
  frame,   \* frame -> page (0: on the free list), recs, next, dirty, latch
  map,     \* page -> frame (page_map)
  disk,    \* page -> records in the file
  op,      \* owner -> its call in progress
  flush,   \* flush_to_disk in progress
  npages,  \* pages allocated
  nrecs,   \* inserts started
  loads,   \* calls of the reader
  made,    \* chain -> records inserted since the last fetch
  loc,     \* record -> the location its insert returned
  cut,     \* records whose link was cleared
  taken,   \* history: chains that share a frame with another page
  doubtful \* history: records of such chains, and pages a flush or a load overtook

deltaVars == <<head, frame, map, disk, op, flush, npages, nrecs, loads, made, loc, cut, taken, doubtful>>

Idle == [at |-> "idle"]

Init ==
  /\ head = [c \in Chains |-> NoFrame]
  /\ frame = [f \in Frames |-> [page |-> 0, recs |-> <<>>, next |-> NoFrame, dirty |-> FALSE, latch |-> "none"]]
  /\ map = [p \in DeltaNumbers |-> NoFrame] /\ disk = [p \in DeltaNumbers |-> <<>>]
  /\ op = [o \in Owners |-> Idle] /\ flush = Idle
  /\ npages = 0 /\ nrecs = 0 /\ loads = 0
  /\ made = [c \in Chains |-> <<>>] /\ loc = [r \in {} |-> <<>>] /\ cut = {}
  /\ taken = {} /\ doubtful = [recs |-> {}, pages |-> {}]

\* The frames a chain leads to, newest first; a chain that lost a frame may
\* run in a circle.
Follow(f) ==
  LET walk[n \in 0 .. Cardinality(Frames) + 1] ==
        IF n = 0 THEN <<f>>
        ELSE LET w == walk[n - 1]
             IN  IF Last(w) = NoFrame THEN w ELSE Append(w, frame[Last(w)].next)
  IN  walk[Cardinality(Frames) + 1]
Circular(c) == Last(Follow(head[c])) # NoFrame
\* The frames a chain can write to: its head, and the one its call has at hand.
InHand(c) == {head[c]} \cup (IF op[c].at \in {"link", "store", "mark", "return"} THEN {op[c].f} ELSE {})
Links(c) == (InHand(c) \cup ToSet(Follow(head[c]))) \ {NoFrame}

\* Call o goes on at step at, for page p in frame f.
Goto(o, at, f) == op' = [op EXCEPT ![o] = [@ EXCEPT !.at = at, !.f = f]]

-----------------------------------------------------------------------------
(* insert_delta_and_get_loc, under the entry latch of its chain *)

insert_delta_and_get_loc(c) ==
  /\ op[c] = Idle /\ nrecs < MaxRecs
  /\ nrecs' = nrecs + 1
  /\ op' = [op EXCEPT ![c] = [at |-> IF head[c] = NoFrame THEN "claim" ELSE "store", f |-> head[c],
                              r |-> nrecs + 1, i |-> 0, page |-> 0, old |-> 0, write |-> FALSE]]
  /\ UNCHANGED <<head, frame, map, disk, flush, npages, loads, made, loc, cut, taken, doubtful>>

\* The record is stored behind the others; a full head asks for a new page.
Store(c) ==
  /\ op[c].at = "store"
  /\ LET f == op[c].f  n == Len(frame[f].recs) IN
     IF n < Slots
     THEN /\ frame' = [frame EXCEPT ![f].recs = Append(@, [r |-> op[c].r, cut |-> FALSE])]
          /\ op' = [op EXCEPT ![c] = [@ EXCEPT !.at = "mark", !.i = n + 1]]
     ELSE UNCHANGED frame /\ Goto(c, "claim", NoFrame)
  /\ UNCHANGED <<head, map, disk, flush, npages, nrecs, loads, made, loc, cut, taken, doubtful>>

Mark(c) ==
  /\ op[c].at = "mark"
  /\ frame' = [frame EXCEPT ![op[c].f].dirty = TRUE]
  /\ Goto(c, "return", op[c].f)
  /\ UNCHANGED <<head, map, disk, flush, npages, nrecs, loads, made, loc, cut, taken, doubtful>>

\* The location is the page the frame holds by now.
Return(c) ==
  /\ op[c].at = "return"
  /\ LET r == op[c].r IN
       /\ loc' = [x \in DOMAIN loc \cup {r} |->
                    IF x = r THEN [page |-> frame[op[c].f].page, i |-> op[c].i] ELSE loc[x]]
       /\ made' = [made EXCEPT ![c] = Append(@, r)]
       /\ doubtful' = IF c \in taken THEN [doubtful EXCEPT !.recs = @ \cup {r}] ELSE doubtful
  /\ op' = [op EXCEPT ![c] = Idle]
  /\ UNCHANGED <<head, frame, map, disk, flush, npages, nrecs, loads, cut, taken>>

-----------------------------------------------------------------------------
(* claim_frame_for_reuse, for a new page of a chain or for the reader *)

Claimable(f) == frame[f].latch = "none" /\ (frame[f].page # 0 => \A g \in Frames : frame[g].page # 0)

\* A chain allocates its page number first.
Numbered(o) == IF o = Reader THEN op[o].page ELSE npages + 1

claim_frame_for_reuse(o, f) ==
  /\ op[o].at = "claim" /\ Numbered(o) \in DeltaNumbers /\ Claimable(f)
  /\ LET old == frame[f].page  losers == {c \in Chains : f \in Links(c)} IN
       /\ map' = IF old = 0 THEN map ELSE [map EXCEPT ![old] = NoFrame]
       /\ frame' = [frame EXCEPT ![f].latch = "write"]
       /\ op' = [op EXCEPT ![o] = [@ EXCEPT !.at = "write", !.f = f, !.page = Numbered(o), !.old = old,
                                            !.write = old # 0 /\ frame[f].dirty]]
       /\ npages' = IF o = Reader THEN npages ELSE npages + 1
       /\ taken' = IF losers = {} THEN taken ELSE taken \cup losers \cup ({o} \ {Reader})
  /\ UNCHANGED <<head, disk, flush, nrecs, loads, made, loc, cut, doubtful>>

\* Every frame is latched: the call throws, the record is not inserted.
ClaimThrows(o) ==
  /\ op[o].at = "claim" /\ Numbered(o) \in DeltaNumbers /\ \A f \in Frames : ~Claimable(f)
  /\ op' = [op EXCEPT ![o] = Idle]
  /\ npages' = IF o = Reader THEN npages ELSE npages + 1
  /\ UNCHANGED <<head, frame, map, disk, flush, nrecs, loads, made, loc, cut, taken, doubtful>>

WriteBack(o) ==
  /\ op[o].at = "write"
  /\ IF op[o].write
     THEN /\ disk' = [disk EXCEPT ![op[o].old] = frame[op[o].f].recs]
          /\ frame' = [frame EXCEPT ![op[o].f].dirty = FALSE]
     ELSE UNCHANGED <<disk, frame>>
  /\ Goto(o, IF o = Reader THEN "fill" ELSE "reinit", op[o].f)
  /\ UNCHANGED <<head, map, flush, npages, nrecs, loads, made, loc, cut, taken, doubtful>>

\* buf_page_new: an empty page, dirty; then the latch and the pin are dropped.
reinit(c) ==
  /\ op[c].at = "reinit"
  /\ frame' = [frame EXCEPT ![op[c].f] =
                 [page |-> op[c].page, recs |-> <<>>, next |-> NoFrame, dirty |-> TRUE, latch |-> "none"]]
  /\ map' = [map EXCEPT ![op[c].page] = op[c].f]
  /\ Goto(c, "link", op[c].f)
  /\ UNCHANGED <<head, disk, flush, npages, nrecs, loads, made, loc, cut, taken, doubtful>>

\* set_next_ptr and set_delta_page_ptr.
Link(c) ==
  /\ op[c].at = "link"
  /\ frame' = [frame EXCEPT ![op[c].f].next = head[c]]
  /\ head' = [head EXCEPT ![c] = op[c].f]
  /\ Goto(c, "store", op[c].f)
  /\ UNCHANGED <<map, disk, flush, npages, nrecs, loads, made, loc, cut, taken, doubtful>>

-----------------------------------------------------------------------------
(* Reading by location: the walk of a vertex's records and truncate_chain_at *)

buf_page_read(r) ==
  /\ op[Reader] = Idle /\ loads < MaxLoads /\ r \in DOMAIN loc
  /\ LET p == loc[r].page  f == map[p]
         call(at) == [at |-> at, f |-> f, r |-> r, i |-> loc[r].i, page |-> p, old |-> 0, write |-> FALSE]
     IN IF f = NoFrame
        THEN op' = [op EXCEPT ![Reader] = call("claim")] /\ UNCHANGED frame
        ELSE /\ frame[f].latch = "none"
             /\ frame' = [frame EXCEPT ![f].latch = "read"] /\ op' = [op EXCEPT ![Reader] = call("hold")]
  /\ loads' = loads + 1
  /\ UNCHANGED <<head, map, disk, flush, npages, nrecs, made, loc, cut, taken, doubtful>>

\* A load while the page is still being written back reads the old image.
Fill ==
  /\ op[Reader].at = "fill"
  /\ LET p == op[Reader].page  f == op[Reader].f IN
       /\ frame' = [frame EXCEPT ![f] = [@ EXCEPT !.page = p, !.recs = disk[p], !.latch = "read"]]
       /\ map' = [map EXCEPT ![p] = f]
       /\ doubtful' = IF \E c \in Chains : op[c].at = "write" /\ op[c].write /\ op[c].old = p
                      THEN [doubtful EXCEPT !.pages = @ \cup {p}] ELSE doubtful
       /\ Goto(Reader, "hold", f)
  /\ UNCHANGED <<head, disk, flush, npages, nrecs, loads, made, loc, cut, taken>>

CutClean(x) == [x EXCEPT !.recs[op[Reader].i].cut = TRUE]
Cut(x) == [x EXCEPT !.recs[op[Reader].i].cut = TRUE, !.dirty = TRUE]

clear_record_next ==
  /\ op[Reader].at = "hold" /\ op[Reader].i <= Len(frame[op[Reader].f].recs)
  /\ frame' = [frame EXCEPT ![op[Reader].f] = Cut(@)]
  /\ cut' = cut \cup {frame[op[Reader].f].recs[op[Reader].i].r}
  /\ Goto(Reader, "release", op[Reader].f)
  /\ UNCHANGED <<head, map, disk, flush, npages, nrecs, loads, made, loc, taken, doubtful>>

r_unlatch ==
  /\ op[Reader].at \in {"hold", "release"}
  /\ frame' = [frame EXCEPT ![op[Reader].f].latch = "none"]
  /\ op' = [op EXCEPT ![Reader] = Idle]
  /\ UNCHANGED <<head, map, disk, flush, npages, nrecs, loads, made, loc, cut, taken, doubtful>>

-----------------------------------------------------------------------------
(* flush_to_disk and fetch_deltas_with_mark *)

FlushLatch(f) ==
  /\ flush = Idle /\ frame[f].dirty /\ frame[f].latch = "none"
  /\ frame' = [frame EXCEPT ![f].latch = "write"] /\ flush' = [at |-> "write", f |-> f]
  /\ UNCHANGED <<head, map, disk, op, npages, nrecs, loads, made, loc, cut, taken, doubtful>>

FlushWrite ==
  /\ flush.at = "write"
  /\ disk' = [disk EXCEPT ![frame[flush.f].page] = frame[flush.f].recs]
  /\ flush' = [flush EXCEPT !.at = "clean"]
  /\ UNCHANGED <<head, frame, map, op, npages, nrecs, loads, made, loc, cut, taken, doubtful>>

\* The records of frame f that the file does not have, but for those whose writer
\* has yet to mark the page.
Unsaved(f) ==
  {j \in DOMAIN frame[f].recs :
     /\ ~(j \in DOMAIN disk[frame[f].page] /\ disk[frame[f].page][j] = frame[f].recs[j])
     /\ ~\E c \in Chains : op[c].at = "mark" /\ op[c].r = frame[f].recs[j].r}

\* The flag is cleared although a record may have been stored and marked since
\* the write.
FlushClean ==
  /\ flush.at = "clean"
  /\ LET f == flush.f  p == frame[f].page IN
       /\ frame' = [frame EXCEPT ![f].dirty = FALSE, ![f].latch = "none"]
       /\ doubtful' = IF Unsaved(f) # {} THEN [doubtful EXCEPT !.pages = @ \cup {p}] ELSE doubtful
  /\ flush' = Idle
  /\ UNCHANGED <<head, map, disk, op, npages, nrecs, loads, made, loc, cut, taken>>

\* What a fetch returns: the records of the chain's pages, oldest page first.
Records(c) ==
  LET fs == SelectSeq(Reverse(Follow(head[c])), LAMBDA f : f # NoFrame)
  IN  FlattenSeq([k \in DOMAIN fs |-> [j \in DOMAIN frame[fs[k]].recs |-> frame[fs[k]].recs[j].r]])

fetch_deltas_with_mark(c) ==
  /\ op[c] = Idle /\ head[c] # NoFrame /\ ~Circular(c)
  /\ head' = [head EXCEPT ![c] = NoFrame] /\ made' = [made EXCEPT ![c] = <<>>]
  /\ taken' = taken \ {c}
  /\ UNCHANGED <<frame, map, disk, op, flush, npages, nrecs, loads, loc, cut, doubtful>>

-----------------------------------------------------------------------------
Next ==
  \/ \E c \in Chains : \/ insert_delta_and_get_loc(c) \/ Store(c) \/ Mark(c) \/ Return(c) \/ reinit(c)
                       \/ Link(c) \/ fetch_deltas_with_mark(c)
  \/ \E o \in Owners : ClaimThrows(o) \/ WriteBack(o) \/ \E f \in Frames : claim_frame_for_reuse(o, f)
  \/ \E r \in DOMAIN loc : buf_page_read(r)
  \/ Fill \/ clear_record_next \/ r_unlatch
  \/ \E f \in Frames : FlushLatch(f)
  \/ FlushWrite \/ FlushClean

Spec == Init /\ [][Next]_deltaVars

-----------------------------------------------------------------------------
(* Properties *)

\* What a read of page p finds: its frame, the frame that is about to be
\* written back, or the file.
Content(p) ==
  LET leaving == {o \in Owners : op[o].at = "write" /\ op[o].write /\ op[o].old = p}
  IN  IF map[p] # NoFrame THEN frame[map[p]].recs
      ELSE IF leaving # {} THEN frame[op[CHOOSE o \in leaving : TRUE].f].recs
      ELSE disk[p]

\* Eviction, reloading, flushing and truncation lose no record: each one can
\* be read at the location its insert returned, and its link is cleared exactly
\* if it was truncated.
RecordsReadable ==
  \A r \in DOMAIN loc \ doubtful.recs :
    loc[r].page \notin doubtful.pages =>
      /\ loc[r].i <= Len(Content(loc[r].page))
      /\ Content(loc[r].page)[loc[r].i] = [r |-> r, cut |-> r \in cut]

\* A fetch returns exactly what was inserted into the chain since the last one,
\* in that order, whatever other chains, readers and the flusher do to the pool.
FetchExact == \A c \in Chains \ taken : op[c] = Idle => Records(c) = made[c]
==============================================================================
