--------------------------- MODULE DeltaPagesProof ---------------------------
(***************************************************************************)
(* No record of a delta page is lost, for any number of chains, frames,    *)
(* pages and records (DeltaPages.tla).  A record that an insert returned   *)
(* is in the frame of its page, dirty unless the file has it too, or in    *)
(* the frame that a claim is about to write back, or in the file: KeptAt.  *)
(* This is inductive only with an account of who holds which frame (the    *)
(* calls, the latches, the page map, the frames at hand of each chain), of *)
(* page numbers, each of them made by one call, and of the one place a     *)
(* record has in all images of its page.                                   *)
(***************************************************************************)
EXTENDS DeltaPages, SequenceTheorems, TLAPS

-----------------------------------------------------------------------------
(* The inductive invariant *)

Record == [r : Nat, cut : BOOLEAN]
FrameType ==
  [page : 0 .. MaxPages, recs : Seq(Record), next : Frames \cup {NoFrame}, dirty : BOOLEAN,
   latch : {"none", "read", "write"}]
Writing == {"store", "mark", "return", "link"}
Claiming == {"write", "reinit", "fill"}
Call ==
  [at : Writing \cup Claiming \cup {"claim", "hold", "release"}, f : Frames \cup {NoFrame}, r : Nat, i : Nat,
   page : 0 .. MaxPages, old : 0 .. MaxPages, write : BOOLEAN]

DeltaTypeOK ==
  /\ head \in [Chains -> Frames \cup {NoFrame}]
  /\ frame \in [Frames -> FrameType]
  /\ map \in [DeltaNumbers -> Frames \cup {NoFrame}]
  /\ disk \in [DeltaNumbers -> Seq(Record)]
  /\ op \in [Owners -> Call \cup {Idle}]
  /\ flush \in [at : {"write", "clean"}, f : Frames] \cup {Idle}
  /\ npages \in Nat /\ nrecs \in Nat /\ loads \in Nat
  /\ made \in [Chains -> Seq(Nat)]
  /\ DOMAIN loc \subseteq 1 .. nrecs
  /\ \A r \in DOMAIN loc : loc[r] \in [page : DeltaNumbers, i : Nat \ {0}]
  /\ cut \in SUBSET (1 .. nrecs) /\ taken \in SUBSET Chains
  /\ doubtful \in [recs : SUBSET Nat, pages : SUBSET Nat]

\* Where a call can be, and the frame and the record it then has.
CallsPlaced ==
  /\ \A c \in Chains : op[c].at \notin {"fill", "hold", "release"}
  /\ op[Reader].at \notin Writing \cup {"reinit"}
CallsFramed == \A o \in Owners : op[o].at \in Writing \cup Claiming \cup {"hold", "release"} => op[o].f \in Frames
ClaimsOld ==
  \A o \in Owners : op[o].at = "write" => op[o].old = frame[op[o].f].page /\ (op[o].write => op[o].old # 0)
RecordsNew ==
  /\ \A c \in Chains : op[c].at # "idle" => op[c].r \in 1 .. nrecs /\ op[c].r \notin DOMAIN loc
  /\ \A b, c \in Chains : b # c /\ op[b].at # "idle" /\ op[c].at # "idle" => op[b].r # op[c].r
CallsIndexed ==
  /\ op[Reader].at # "idle" => op[Reader].i # 0
  /\ \A c \in Chains : op[c].at \in {"mark", "return"} => op[c].i # 0
CallsSound == CallsPlaced /\ CallsFramed /\ ClaimsOld /\ RecordsNew /\ CallsIndexed

\* A latch has one holder.
HoldsFrame(o) == op[o].at \in Claiming \cup {"hold", "release"}
ClaimsLatched == \A o \in Owners : op[o].at \in Claiming => frame[op[o].f].latch = "write"
ReadLatched == op[Reader].at \in {"hold", "release"} => frame[op[Reader].f].latch = "read"
FlushLatched == flush.at # "idle" => frame[flush.f].latch = "write"
HoldersApart == \A a, b \in Owners : a # b /\ HoldsFrame(a) /\ HoldsFrame(b) => op[a].f # op[b].f
FlushApart == \A o \in Owners : flush.at # "idle" /\ HoldsFrame(o) => op[o].f # flush.f
OneHolder == ClaimsLatched /\ ReadLatched /\ FlushLatched /\ HoldersApart /\ FlushApart

\* The map has exactly the pages in frames that no call is replacing.
Replaced(f) == \E o \in Owners : op[o].at \in Claiming /\ op[o].f = f
MapHolds == \A p \in DeltaNumbers : map[p] # NoFrame => frame[map[p]].page = p /\ ~Replaced(map[p])
FramesMapped == \A f \in Frames : frame[f].page # 0 /\ ~Replaced(f) => map[frame[f].page] = f
DirtyPaged == \A f \in Frames : frame[f].dirty => frame[f].page # 0
HeldPaged ==
  /\ flush.at # "idle" => frame[flush.f].page # 0
  /\ op[Reader].at \in {"hold", "release"} => frame[op[Reader].f].page # 0
HandsPaged == \A c \in Chains : \A f \in InHand(c) \ {NoFrame} : frame[f].page # 0
ReaderMisses == op[Reader].at \in Claiming \cup {"claim"} => op[Reader].page # 0 /\ map[op[Reader].page] = NoFrame
MapExact == MapHolds /\ FramesMapped /\ DirtyPaged /\ HeldPaged /\ HandsPaged /\ ReaderMisses

\* The number of a page that is being made is nobody else's.
NumbersCounted ==
  /\ \A f \in Frames : frame[f].page <= npages
  /\ \A r \in DOMAIN loc : loc[r].page <= npages
  /\ op[Reader].at # "idle" => op[Reader].page <= npages
  /\ \A c \in Chains : op[c].at \in {"write", "reinit"} => op[c].page \in 1 .. npages
MapCounted == \A p \in DeltaNumbers : map[p] # NoFrame => p <= npages
NumbersNew ==
  \A c \in Chains : op[c].at \in {"write", "reinit"} =>
    /\ map[op[c].page] = NoFrame
    /\ \A f \in Frames : frame[f].page # op[c].page
    /\ \A r \in DOMAIN loc : loc[r].page # op[c].page
    /\ op[Reader].at # "idle" => op[Reader].page # op[c].page
NumbersApart ==
  \A b, c \in Chains : b # c /\ op[b].at \in {"write", "reinit"} /\ op[c].at \in {"write", "reinit"} =>
    op[b].page # op[c].page
NumbersFresh == NumbersCounted /\ MapCounted /\ NumbersNew /\ NumbersApart

\* A chain that lost no frame shares none.
HandsApart ==
  \A c \in Chains \ taken : \A f \in InHand(c) \ {NoFrame} : ~Replaced(f) /\ \A b \in Chains \ {c} : f \notin InHand(b)
ClaimsApart ==
  \A c \in Chains \ taken : op[c].at \in {"write", "reinit"} => \A b \in Chains : op[c].f \notin InHand(b)
FramesApart == HandsApart /\ ClaimsApart

\* A record is in one place of one page, in the file as in the frames.
Unstored(c) == op[c].at \in {"claim", "write", "reinit", "link", "store"}
Stored(c) == op[c].at \in {"mark", "return"}
RecordInPlace(r, p, j) ==
  /\ r \in 1 .. nrecs
  /\ \A c \in Chains : Unstored(c) => r # op[c].r
  /\ r \in DOMAIN loc \ doubtful.recs => loc[r].page = p /\ loc[r].i = j
  /\ \A c \in Chains \ taken : Stored(c) /\ r = op[c].r => frame[op[c].f].page = p /\ op[c].i = j
FramesInPlace == \A f \in Frames : \A j \in DOMAIN frame[f].recs : RecordInPlace(frame[f].recs[j].r, frame[f].page, j)
DiskInPlace == \A p \in DeltaNumbers : \A j \in DOMAIN disk[p] : RecordInPlace(disk[p][j].r, p, j)
NewUncut == \A c \in Chains : Unstored(c) => op[c].r \notin cut
OnePlace == FramesInPlace /\ DiskInPlace /\ NewUncut

\* Record r is at place j of image x, with the link it should have.
Has(x, j, r) == j \in 1 .. Len(x) /\ x[j].r = r /\ x[j].cut = (r \in cut)
Leaving(o, p) == op[o].at = "write" /\ op[o].write /\ op[o].old = p
\* Record r of page p can be read at place j: in the frame of the page, which is
\* dirty unless the file has the record too, in the frame that a claim is about
\* to write back, or in the file.
KeptAt(r, p, j) ==
  /\ map[p] # NoFrame => Has(frame[map[p]].recs, j, r) /\ (frame[map[p]].dirty \/ Has(disk[p], j, r))
  /\ map[p] = NoFrame =>
       /\ \A o \in Owners : Leaving(o, p) => Has(frame[op[o].f].recs, j, r)
       /\ (\A o \in Owners : ~Leaving(o, p)) => Has(disk[p], j, r)

LeavingUnmapped == \A o \in Owners : \A p \in DeltaNumbers \ doubtful.pages : Leaving(o, p) => map[p] = NoFrame
ReturnedKept ==
  \A r \in DOMAIN loc \ doubtful.recs : loc[r].page \notin doubtful.pages => KeptAt(r, loc[r].page, loc[r].i)
ReturningKept ==
  \A c \in Chains \ taken :
    op[c].at = "return" /\ frame[op[c].f].page \notin doubtful.pages => KeptAt(op[c].r, frame[op[c].f].page, op[c].i)
StoredHeld == \A c \in Chains \ taken : Stored(c) => Has(frame[op[c].f].recs, op[c].i, op[c].r)
RecordsKept == LeavingUnmapped /\ ReturnedKept /\ ReturningKept /\ StoredHeld

\* The inductive invariant.
DeltaInv ==
  /\ DeltaParameters /\ DeltaTypeOK /\ CallsSound /\ OneHolder /\ MapExact /\ NumbersFresh /\ FramesApart /\ OnePlace
  /\ RecordsKept

-----------------------------------------------------------------------------
(* What each step does, element by element *)

CallOnly(o) == op' = [op EXCEPT ![o] = op'[o]]
SameCalls(o) == CallOnly(o) /\ \A x \in Owners \ {o} : op'[x] = op[x]
FrameOnly(f) == frame' = [frame EXCEPT ![f] = frame'[f]]
SameFrames(f) == FrameOnly(f) /\ \A g \in Frames \ {f} : frame'[g] = frame[g]

\* A call has all fields, an idle owner only where it is.
LEMMA CallFields ==
  ASSUME DeltaTypeOK, NEW o \in Owners
  PROVE  /\ op[o].at = "idle" <=> op[o] = Idle
         /\ op[o].at # "idle" => op[o] \in Call
BY DEF DeltaTypeOK, Call, Idle, Writing, Claiming

\* A frame has all fields.
LEMMA FrameFields ==
  ASSUME DeltaTypeOK, NEW f \in Frames
  PROVE  /\ frame[f] \in FrameType /\ frame[f].page \in 0 .. MaxPages /\ frame[f].recs \in Seq(Record)
         /\ frame[f].next \in Frames \cup {NoFrame} /\ frame[f].dirty \in BOOLEAN
         /\ frame[f].latch \in {"none", "read", "write"}
BY DEF DeltaTypeOK, FrameType

\* The owners of calls are the chains and the reader.
LEMMA OwnersAre ==
  ASSUME DeltaParameters
  PROVE  /\ Reader \in Owners /\ Reader \notin Chains /\ Chains \subseteq Owners
         /\ \A o \in Owners : o # Reader => o \in Chains
BY DEF DeltaParameters, Owners

\* A flush in progress has a frame.
LEMMA FlushFields ==
  ASSUME DeltaTypeOK
  PROVE  flush.at # "idle" => flush.f \in Frames
BY DEF DeltaTypeOK, Idle

\* A step of one call keeps the type of all ...
LEMMA CallsTyped ==
  ASSUME DeltaTypeOK, NEW o \in Owners, SameCalls(o), op'[o] \in Call \cup {Idle}
  PROVE  op' \in [Owners -> Call \cup {Idle}]
BY DEF DeltaTypeOK, SameCalls, CallOnly

\* ... as does a step on one frame the type of all frames.
LEMMA FramesTyped ==
  ASSUME DeltaTypeOK, NEW f \in Frames, SameFrames(f), frame'[f] \in FrameType
  PROVE  frame' \in [Frames -> FrameType]
BY DEF DeltaTypeOK, SameFrames, FrameOnly

\* insert_delta_and_get_loc starts a call
InsertEffect(c) ==
  /\ op[c].at = "idle" /\ SameCalls(c) /\ nrecs' = nrecs + 1 /\ op'[c] \in Call
  /\ op'[c].at = (IF head[c] = NoFrame THEN "claim" ELSE "store") /\ op'[c].f = head[c]
  /\ op'[c].r = nrecs + 1 /\ op'[c].page = 0 /\ op'[c].old = 0 /\ op'[c].write = FALSE
  /\ UNCHANGED <<head, frame, map, disk, flush, npages, loads, made, loc, cut, taken, doubtful>>

\* The action has this effect.
LEMMA InsertDoes ==
  ASSUME DeltaInv, NEW c \in Chains, insert_delta_and_get_loc(c)
  PROVE  InsertEffect(c)
BY DEF DeltaInv, DeltaTypeOK, DeltaParameters, insert_delta_and_get_loc, SameCalls, CallOnly, Call, Writing,
   Claiming, Owners, InsertEffect, Idle

\* the record is stored behind the others, or a page is asked for
Appended(c, f) ==
  op'[c].i = Len(frame[f].recs) + 1 /\ frame'[f].recs = Append(frame[f].recs, [r |-> op[c].r, cut |-> FALSE])
StoreEffect(c, f) ==
  /\ f = op[c].f
  /\ op[c].at = "store" /\ op[c] \in Call /\ f \in Frames /\ SameCalls(c) /\ SameFrames(f) /\ op'[c] \in Call
  /\ op'[c].r = op[c].r
  /\ \/ /\ op'[c].at = "mark" /\ op'[c].i # 0 /\ op'[c].f = f
        /\ frame'[f] \in FrameType
        /\ frame'[f].page = frame[f].page /\ frame'[f].next = frame[f].next /\ frame'[f].dirty = frame[f].dirty
        /\ frame'[f].latch = frame[f].latch /\ Appended(c, f)
     \/ op'[c].at = "claim" /\ op'[c].f = NoFrame /\ frame' = frame
  /\ UNCHANGED <<head, map, disk, flush, npages, nrecs, loads, made, loc, cut, taken, doubtful>>

\* The action has this effect.
LEMMA StoreDoes ==
  ASSUME DeltaInv, NEW c \in Chains, Store(c), NEW f, f = op[c].f
  PROVE  StoreEffect(c, f)
<1>1. op[c].at = "store" /\ op[c] \in Call /\ f \in Frames /\ f = op[c].f /\ c \in Owners
  BY CallFields DEF DeltaInv, Store, CallsSound, CallsPlaced, CallsFramed, ClaimsOld, RecordsNew, CallsIndexed,
     Writing, Owners
<1>2. frame[f] \in FrameType /\ [r |-> op[c].r, cut |-> FALSE] \in Record
  BY <1>1, FrameFields DEF DeltaInv, Record, Call
<1>3. CASE Len(frame[f].recs) < Slots
  <2>1. /\ frame' = [frame EXCEPT ![f].recs = Append(@, [r |-> op[c].r, cut |-> FALSE])]
        /\ op' = [op EXCEPT ![c] = [@ EXCEPT !.at = "mark", !.i = Len(frame[f].recs) + 1]]
        /\ UNCHANGED <<head, map, disk, flush, npages, nrecs, loads, made, loc, cut, taken, doubtful>>
    BY <1>1, <1>3 DEF Store
  <2>2. Len(frame[f].recs) + 1 \in Nat /\ Append(frame[f].recs, [r |-> op[c].r, cut |-> FALSE]) \in Seq(Record)
    BY <1>2 DEF FrameType
  <2>3. /\ SameCalls(c) /\ op'[c] \in Call /\ op'[c].r = op[c].r
        /\ op'[c].at = "mark" /\ op'[c].i = Len(frame[f].recs) + 1 /\ op'[c].f = f
    BY <1>1, <2>1, <2>2 DEF SameCalls, CallOnly, DeltaInv, DeltaTypeOK, Call, Writing
  <2>4. /\ SameFrames(f) /\ frame'[f] \in FrameType
        /\ frame'[f].page = frame[f].page /\ frame'[f].next = frame[f].next /\ frame'[f].dirty = frame[f].dirty
        /\ frame'[f].latch = frame[f].latch
        /\ frame'[f].recs = Append(frame[f].recs, [r |-> op[c].r, cut |-> FALSE])
    BY <1>1, <1>2, <2>1, <2>2 DEF SameFrames, FrameOnly, DeltaInv, DeltaTypeOK, FrameType
  <2>5. Appended(c, f) /\ op'[c].i # 0
    BY <1>2, <2>3, <2>4 DEF Appended, FrameType
  <2> QED
    BY <1>1, <2>1, <2>3, <2>4, <2>5 DEF StoreEffect
<1>4. CASE ~(Len(frame[f].recs) < Slots)
  <2>1. /\ frame' = frame
        /\ op' = [op EXCEPT ![c] = [@ EXCEPT !.at = "claim", !.f = NoFrame]]
        /\ UNCHANGED <<head, map, disk, flush, npages, nrecs, loads, made, loc, cut, taken, doubtful>>
    BY <1>1, <1>4 DEF Store, Goto
  <2>2. /\ SameCalls(c) /\ op'[c] \in Call /\ op'[c].r = op[c].r
        /\ op'[c].at = "claim" /\ op'[c].f = NoFrame
    BY <1>1, <2>1 DEF SameCalls, CallOnly, DeltaInv, DeltaTypeOK, Call, Writing
  <2>3. SameFrames(f)
    BY <1>1, <2>1 DEF SameFrames, FrameOnly, DeltaInv, DeltaTypeOK
  <2> QED
    BY <1>1, <2>1, <2>2, <2>3 DEF StoreEffect
<1> QED
  BY <1>3, <1>4

\* the page is marked
MarkEffect(c, f) ==
  /\ f = op[c].f
  /\ op[c].at = "mark" /\ op[c] \in Call /\ f \in Frames /\ SameCalls(c) /\ SameFrames(f) /\ op'[c] \in Call
  /\ op'[c].r = op[c].r /\ op'[c].at = "return" /\ op'[c].i = op[c].i /\ op'[c].f = f
  /\ frame'[f] \in FrameType
  /\ frame'[f].page = frame[f].page /\ frame'[f].next = frame[f].next /\ frame'[f].dirty = TRUE
  /\ frame'[f].latch = frame[f].latch /\ frame'[f].recs = frame[f].recs
  /\ UNCHANGED <<head, map, disk, flush, npages, nrecs, loads, made, loc, cut, taken, doubtful>>

\* The action has this effect.
LEMMA MarkDoes ==
  ASSUME DeltaInv, NEW c \in Chains, Mark(c), NEW f, f = op[c].f
  PROVE  MarkEffect(c, f)
<1>1. op[c].at = "mark" /\ op[c] \in Call /\ f \in Frames /\ f = op[c].f /\ c \in Owners
  BY CallFields DEF DeltaInv, Mark, CallsSound, CallsPlaced, CallsFramed, ClaimsOld, RecordsNew, CallsIndexed,
     Writing, Owners
<1>2. frame[f] \in FrameType
  BY <1>1, FrameFields DEF DeltaInv
<1> QED
  BY <1>1, <1>2 DEF Mark, SameCalls, CallOnly, SameFrames, FrameOnly, DeltaInv, DeltaTypeOK, Call, Writing,
     FrameType, Goto, MarkEffect

\* the location is returned
ReturnEffect(c, f) ==
  /\ f = op[c].f
  /\ op[c].at = "return" /\ op[c] \in Call /\ f \in Frames /\ SameCalls(c) /\ op'[c] = Idle
  /\ DOMAIN loc' = DOMAIN loc \cup {op[c].r}
  /\ loc'[op[c].r] = [page |-> frame[f].page, i |-> op[c].i]
  /\ \A x \in DOMAIN loc : x # op[c].r => loc'[x] = loc[x]
  /\ made' = [made EXCEPT ![c] = Append(@, op[c].r)]
  /\ c \in taken => doubtful'.recs = doubtful.recs \cup {op[c].r} /\ doubtful'.pages = doubtful.pages
  /\ c \notin taken => doubtful' = doubtful
  /\ doubtful' \in [recs : SUBSET Nat, pages : SUBSET Nat]
  /\ UNCHANGED <<head, frame, map, disk, flush, npages, nrecs, loads, cut, taken>>

\* The action has this effect.
LEMMA ReturnDoes ==
  ASSUME DeltaInv, NEW c \in Chains, Return(c), NEW f, f = op[c].f
  PROVE  ReturnEffect(c, f)
<1>1. op[c].at = "return" /\ op[c] \in Call /\ f \in Frames /\ f = op[c].f /\ c \in Owners
  BY CallFields DEF DeltaInv, Return, CallsSound, CallsPlaced, CallsFramed, ClaimsOld, RecordsNew,
     CallsIndexed, Writing, Owners
<1>2. op[c].r \in Nat
  BY <1>1 DEF Call
<1> QED
  BY <1>1, <1>2 DEF Return, SameCalls, CallOnly, DeltaInv, DeltaTypeOK, ReturnEffect

\* the frame becomes an empty page
ReinitEffect(c, f) ==
  /\ f = op[c].f
  /\ op[c].at = "reinit" /\ op[c] \in Call /\ f \in Frames /\ SameCalls(c) /\ SameFrames(f) /\ op'[c] \in Call
  /\ op'[c].r = op[c].r /\ op'[c].at = "link" /\ op'[c].f = f
  /\ op[c].page \in DeltaNumbers
  /\ frame'[f] = [page |-> op[c].page, recs |-> <<>>, next |-> NoFrame, dirty |-> TRUE, latch |-> "none"]
  /\ map' = [map EXCEPT ![op[c].page] = f]
  /\ UNCHANGED <<head, disk, flush, npages, nrecs, loads, made, loc, cut, taken, doubtful>>

\* The action has this effect.
LEMMA ReinitDoes ==
  ASSUME DeltaInv, NEW c \in Chains, reinit(c), NEW f, f = op[c].f
  PROVE  ReinitEffect(c, f)
<1>1. op[c].at = "reinit" /\ op[c] \in Call /\ f \in Frames /\ f = op[c].f /\ c \in Owners
  BY CallFields DEF DeltaInv, reinit, CallsSound, CallsPlaced, CallsFramed, ClaimsOld, RecordsNew,
     CallsIndexed, Claiming, Owners
<1>2. op[c].page \in DeltaNumbers
  BY <1>1 DEF DeltaInv, NumbersFresh, NumbersCounted, Call, DeltaNumbers
<1> QED
  BY <1>1, <1>2 DEF reinit, SameCalls, CallOnly, SameFrames, FrameOnly, DeltaInv, DeltaTypeOK, Call, Writing,
     Goto, ReinitEffect

\* the new page becomes the head
LinkEffect(c, f) ==
  /\ f = op[c].f
  /\ op[c].at = "link" /\ op[c] \in Call /\ f \in Frames /\ SameCalls(c) /\ SameFrames(f) /\ op'[c] \in Call
  /\ op'[c].r = op[c].r /\ op'[c].at = "store" /\ op'[c].f = f
  /\ frame'[f] \in FrameType
  /\ frame'[f].page = frame[f].page /\ frame'[f].dirty = frame[f].dirty
  /\ frame'[f].latch = frame[f].latch /\ frame'[f].recs = frame[f].recs
  /\ head' = [head EXCEPT ![c] = f]
  /\ UNCHANGED <<map, disk, flush, npages, nrecs, loads, made, loc, cut, taken, doubtful>>

\* The action has this effect.
LEMMA LinkDoes ==
  ASSUME DeltaInv, NEW c \in Chains, Link(c), NEW f, f = op[c].f
  PROVE  LinkEffect(c, f)
<1>1. op[c].at = "link" /\ op[c] \in Call /\ f \in Frames /\ f = op[c].f /\ c \in Owners
  BY CallFields DEF DeltaInv, Link, CallsSound, CallsPlaced, CallsFramed, ClaimsOld, RecordsNew, CallsIndexed,
     Writing, Owners
<1>2. frame[f] \in FrameType /\ head[c] \in Frames \cup {NoFrame}
  BY <1>1, FrameFields DEF DeltaInv, DeltaTypeOK
<1> QED
  BY <1>1, <1>2 DEF Link, SameCalls, CallOnly, SameFrames, FrameOnly, DeltaInv, DeltaTypeOK, Call, Writing,
     FrameType, Goto, LinkEffect

\* the chain is emptied
FetchEffect(c) ==
  /\ op[c].at = "idle" /\ head' = [head EXCEPT ![c] = NoFrame] /\ made' = [made EXCEPT ![c] = <<>>]
  /\ taken' = taken \ {c}
  /\ UNCHANGED <<frame, map, disk, op, flush, npages, nrecs, loads, loc, cut, doubtful>>

\* The action has this effect.
LEMMA FetchDoes ==
  ASSUME DeltaInv, NEW c \in Chains, fetch_deltas_with_mark(c)
  PROVE  FetchEffect(c)
BY DEF fetch_deltas_with_mark, FetchEffect, Idle

\* a frame is taken from its page
ClaimEffect(o, f) ==
  /\ op[o].at = "claim" /\ op[o] \in Call /\ SameCalls(o) /\ SameFrames(f) /\ op'[o] \in Call
  /\ op'[o].r = op[o].r /\ op'[o].i = op[o].i /\ op'[o].at = "write" /\ op'[o].f = f
  /\ o = Reader => op'[o].page = op[o].page /\ npages' = npages
  /\ o # Reader => op'[o].page = npages + 1 /\ npages' = npages + 1
  /\ op'[o].page \in DeltaNumbers
  /\ op'[o].old = frame[f].page /\ op'[o].write = (frame[f].page # 0 /\ frame[f].dirty)
  /\ frame[f].latch = "none"
  /\ frame'[f] \in FrameType
  /\ frame'[f].page = frame[f].page /\ frame'[f].dirty = frame[f].dirty
  /\ frame'[f].latch = "write" /\ frame'[f].recs = frame[f].recs
  /\ map' = IF frame[f].page = 0 THEN map ELSE [map EXCEPT ![frame[f].page] = NoFrame]
  /\ taken' \in SUBSET Chains /\ taken \subseteq taken'
  /\ \A c \in Chains : f \in InHand(c) => c \in taken' /\ (o # Reader => o \in taken')
  /\ UNCHANGED <<head, disk, flush, nrecs, loads, made, loc, cut, doubtful>>

\* The action has this effect.
LEMMA ClaimDoes ==
  ASSUME DeltaInv, NEW o \in Owners, NEW f \in Frames, claim_frame_for_reuse(o, f)
  PROVE  ClaimEffect(o, f)
<1>1. op[o].at = "claim" /\ op[o] \in Call
  BY CallFields DEF DeltaInv, claim_frame_for_reuse
<1>2. frame[f] \in FrameType /\ NoFrame # f
  BY FrameFields DEF DeltaInv, DeltaParameters
<1>3. npages \in Nat /\ Numbered(o) \in DeltaNumbers /\ Numbered(o) \in 0 .. MaxPages
  BY DEF DeltaInv, DeltaTypeOK, DeltaNumbers, claim_frame_for_reuse
<1>4. /\ SameCalls(o) /\ op'[o] \in Call
      /\ op'[o].r = op[o].r /\ op'[o].i = op[o].i /\ op'[o].at = "write" /\ op'[o].f = f
      /\ op'[o].page = Numbered(o)
      /\ op'[o].old = frame[f].page /\ op'[o].write = (frame[f].page # 0 /\ frame[f].dirty)
  BY <1>1, <1>2, <1>3 DEF claim_frame_for_reuse, SameCalls, CallOnly, DeltaInv, DeltaTypeOK, Call, Claiming,
     FrameType
<1>5. o = Reader => op'[o].page = op[o].page /\ npages' = npages
  BY <1>4 DEF Numbered, claim_frame_for_reuse
<1>6. o # Reader => op'[o].page = npages + 1 /\ npages' = npages + 1
  BY <1>4 DEF Numbered, claim_frame_for_reuse
<1>7. /\ SameFrames(f) /\ frame[f].latch = "none"
      /\ frame'[f] \in FrameType
      /\ frame'[f].page = frame[f].page /\ frame'[f].dirty = frame[f].dirty
      /\ frame'[f].latch = "write" /\ frame'[f].recs = frame[f].recs
  BY <1>2 DEF claim_frame_for_reuse, SameFrames, FrameOnly, DeltaInv, DeltaTypeOK, FrameType, Claimable
<1>8. map' = IF frame[f].page = 0 THEN map ELSE [map EXCEPT ![frame[f].page] = NoFrame]
  BY DEF claim_frame_for_reuse
<1>9. /\ taken' \in SUBSET Chains /\ taken \subseteq taken'
      /\ \A c \in Chains : f \in InHand(c) => c \in taken' /\ (o # Reader => o \in taken')
  <2> DEFINE losers == {c \in Chains : f \in Links(c)}
  <2>1. taken' = IF losers = {} THEN taken ELSE taken \cup losers \cup ({o} \ {Reader})
    BY DEF claim_frame_for_reuse
  <2>2. \A c \in Chains : f \in InHand(c) => c \in losers
    BY <1>2 DEF Links
  <2>3. taken \in SUBSET Chains /\ losers \in SUBSET Chains /\ {o} \ {Reader} \in SUBSET Chains
    BY DEF DeltaInv, DeltaTypeOK, Owners
  <2> HIDE DEF losers
  <2> QED
    BY <2>1, <2>2, <2>3
<1> QED
  BY <1>1, <1>3, <1>4, <1>5, <1>6, <1>7, <1>8, <1>9 DEF claim_frame_for_reuse, ClaimEffect

\* no frame can be had
ThrowEffect(o) ==
  /\ op[o].at = "claim" /\ SameCalls(o) /\ op'[o] = Idle
  /\ npages' \in Nat /\ npages' >= npages
  /\ UNCHANGED <<head, frame, map, disk, flush, nrecs, loads, made, loc, cut, taken, doubtful>>

\* The action has this effect.
LEMMA ThrowDoes ==
  ASSUME DeltaInv, NEW o \in Owners, ClaimThrows(o)
  PROVE  ThrowEffect(o)
BY DEF ClaimThrows, SameCalls, CallOnly, DeltaInv, DeltaTypeOK, ThrowEffect

\* the old page is written if dirty
WriteBackEffect(o, f) ==
  /\ f = op[o].f
  /\ op[o].at = "write" /\ op[o] \in Call /\ f \in Frames /\ SameCalls(o) /\ SameFrames(f) /\ op'[o] \in Call
  /\ op'[o].r = op[o].r /\ op'[o].i = op[o].i /\ op'[o].at = (IF o = Reader THEN "fill" ELSE "reinit")
  /\ op'[o].f = f /\ op'[o].page = op[o].page
  /\ op[o].old = frame[f].page
  /\ frame'[f] \in FrameType
  /\ frame'[f].page = frame[f].page /\ frame'[f].latch = frame[f].latch /\ frame'[f].recs = frame[f].recs
  /\ op[o].write => op[o].old \in DeltaNumbers /\ disk' = [disk EXCEPT ![op[o].old] = frame[f].recs]
  /\ ~op[o].write => disk' = disk
  /\ frame'[f].dirty => frame[f].dirty
  /\ UNCHANGED <<head, map, flush, npages, nrecs, loads, made, loc, cut, taken, doubtful>>

\* The action has this effect.
LEMMA WriteBackDoes ==
  ASSUME DeltaInv, NEW o \in Owners, WriteBack(o), NEW f, f = op[o].f
  PROVE  WriteBackEffect(o, f)
<1> USE DEF WriteBackEffect
<1>1. op[o].at = "write" /\ op[o] \in Call /\ f \in Frames /\ f = op[o].f /\ op[o].old = frame[f].page
  BY CallFields DEF DeltaInv, WriteBack, CallsSound, CallsPlaced, CallsFramed, ClaimsOld, RecordsNew,
     CallsIndexed, Claiming
<1>2. frame[f] \in FrameType
  BY <1>1, FrameFields DEF DeltaInv
<1>3. op[o].write => op[o].old \in DeltaNumbers
  BY <1>1 DEF DeltaInv, CallsSound, CallsPlaced, CallsFramed, ClaimsOld, RecordsNew, CallsIndexed, Call,
     DeltaNumbers
<1>4. CASE op[o].write
  <2>1. /\ frame' = [frame EXCEPT ![f].dirty = FALSE] /\ disk' = [disk EXCEPT ![op[o].old] = frame[f].recs]
        /\ op' = [op EXCEPT ![o] = [@ EXCEPT !.at = IF o = Reader THEN "fill" ELSE "reinit", !.f = f]]
        /\ UNCHANGED <<head, map, flush, npages, nrecs, loads, made, loc, cut, taken, doubtful>>
    BY <1>1, <1>4 DEF WriteBack, Goto
  <2>2. /\ SameFrames(f) /\ frame'[f] \in FrameType
        /\ frame'[f].page = frame[f].page /\ frame'[f].latch = frame[f].latch /\ frame'[f].recs = frame[f].recs
        /\ frame'[f].dirty = FALSE
    BY <1>1, <1>2, <2>1 DEF SameFrames, FrameOnly, DeltaInv, DeltaTypeOK, FrameType
  <2>3. /\ SameCalls(o) /\ op'[o] \in Call
        /\ op'[o].r = op[o].r /\ op'[o].i = op[o].i /\ op'[o].at = (IF o = Reader THEN "fill" ELSE "reinit")
        /\ op'[o].f = f /\ op'[o].page = op[o].page
    BY <1>1, <2>1 DEF SameCalls, CallOnly, DeltaInv, DeltaTypeOK, Call, Claiming
  <2> QED
    BY <1>1, <1>3, <1>4, <2>1, <2>2, <2>3
<1>5. CASE ~op[o].write
  BY <1>1, <1>2, <1>5 DEF WriteBack, SameCalls, CallOnly, SameFrames, FrameOnly, DeltaInv, DeltaTypeOK, Call,
     Claiming, FrameType, Goto
<1> QED
  BY <1>4, <1>5 DEF WriteBackEffect

\* the reader looks its page up
ReadEffect(r, p) ==
  /\ p = loc[r].page
  /\ op[Reader].at = "idle" /\ p \in DeltaNumbers /\ SameCalls(Reader) /\ op'[Reader] \in Call
  /\ op'[Reader].page = p /\ op'[Reader].i = loc[r].i /\ op'[Reader].i # 0 /\ op'[Reader].f = map[p]
  /\ op'[Reader].write = FALSE
  /\ \/ op'[Reader].at = "claim" /\ map[p] = NoFrame /\ frame' = frame
     \/ /\ op'[Reader].at = "hold" /\ map[p] \in Frames /\ SameFrames(map[p])
        /\ frame[map[p]].latch = "none"
        /\ frame'[map[p]] \in FrameType
        /\ frame'[map[p]].page = frame[map[p]].page /\ frame'[map[p]].dirty = frame[map[p]].dirty
        /\ frame'[map[p]].latch = "read" /\ frame'[map[p]].recs = frame[map[p]].recs
  /\ loads' = loads + 1
  /\ UNCHANGED <<head, map, disk, flush, npages, nrecs, made, loc, cut, taken, doubtful>>

\* The action has this effect.
LEMMA ReadDoes ==
  ASSUME DeltaInv, NEW r \in DOMAIN loc, buf_page_read(r), NEW p, p = loc[r].page
  PROVE  ReadEffect(r, p)
<1> USE DEF ReadEffect
<1>1. /\ op[Reader] = Idle /\ op[Reader].at = "idle" /\ p \in DeltaNumbers
      /\ loc[r].i \in Nat \ {0} /\ r \in Nat /\ p \in 0 .. MaxPages
      /\ map[p] \in Frames \cup {NoFrame}
  BY DEF Idle, DeltaInv, DeltaTypeOK, buf_page_read, DeltaNumbers
<1> DEFINE call(at) == [at |-> at, f |-> map[p], r |-> r, i |-> loc[r].i, page |-> p, old |-> 0, write |-> FALSE]
<1>4. /\ 0 \in 0 .. MaxPages /\ Reader \in Owners /\ loads' = loads + 1
      /\ UNCHANGED <<head, map, disk, flush, npages, nrecs, made, loc, cut, taken, doubtful>>
  BY DEF DeltaInv, DeltaParameters, Owners, buf_page_read
<1>5. call("claim") \in Call /\ call("hold") \in Call
  BY <1>1, <1>4 DEF Call
<1>2. CASE map[p] = NoFrame
  <2>1. op' = [op EXCEPT ![Reader] = call("claim")] /\ frame' = frame
    BY <1>2 DEF buf_page_read
  <2>2. SameCalls(Reader) /\ op'[Reader] = call("claim")
    BY <1>4, <2>1 DEF SameCalls, CallOnly, DeltaInv, DeltaTypeOK
  <2> QED
    BY <1>1, <1>2, <1>4, <1>5, <2>1, <2>2 DEF Idle
<1>3. CASE map[p] # NoFrame
  <2>1. map[p] \in Frames /\ frame[map[p]] \in FrameType
    BY <1>1, <1>3, FrameFields DEF DeltaInv
  <2>2. /\ op' = [op EXCEPT ![Reader] = call("hold")] /\ frame' = [frame EXCEPT ![map[p]].latch = "read"]
        /\ frame[map[p]].latch = "none"
    BY <1>3 DEF buf_page_read
  <2>3. SameCalls(Reader) /\ op'[Reader] = call("hold")
    BY <1>4, <2>2 DEF SameCalls, CallOnly, DeltaInv, DeltaTypeOK
  <2>4. /\ SameFrames(map[p])
        /\ frame'[map[p]] \in FrameType
        /\ frame'[map[p]].page = frame[map[p]].page /\ frame'[map[p]].dirty = frame[map[p]].dirty
        /\ frame'[map[p]].latch = "read" /\ frame'[map[p]].recs = frame[map[p]].recs
    BY <2>1, <2>2 DEF SameFrames, FrameOnly, DeltaInv, DeltaTypeOK, FrameType
  <2> QED
    BY <1>1, <1>4, <1>5, <2>1, <2>2, <2>3, <2>4 DEF Idle
<1> QED
  BY <1>2, <1>3 DEF ReadEffect

\* the reader's page is read from the file
FillEffect(f, p) ==
  /\ f = op[Reader].f
  /\ p = op[Reader].page
  /\ op[Reader].at = "fill" /\ op[Reader] \in Call /\ f \in Frames /\ p \in DeltaNumbers
  /\ SameCalls(Reader) /\ SameFrames(f) /\ op'[Reader] \in Call
  /\ op'[Reader].at = "hold" /\ op'[Reader].f = f /\ op'[Reader].page = p /\ op'[Reader].i = op[Reader].i
  /\ frame'[f] \in FrameType
  /\ frame'[f].page = p /\ frame'[f].recs = disk[p] /\ frame'[f].latch = "read"
  /\ frame'[f].dirty = frame[f].dirty
  /\ map' = [map EXCEPT ![p] = f]
  /\ doubtful' \in [recs : SUBSET Nat, pages : SUBSET Nat] /\ doubtful'.recs = doubtful.recs
  /\ doubtful.pages \subseteq doubtful'.pages
  /\ \A c \in Chains : Leaving(c, p) => p \in doubtful'.pages
  /\ UNCHANGED <<head, disk, flush, npages, nrecs, loads, made, loc, cut, taken>>

\* The action has this effect.
LEMMA FillDoes ==
  ASSUME DeltaInv, Fill, NEW f, f = op[Reader].f, NEW p, p = op[Reader].page
  PROVE  FillEffect(f, p)
<1>1. /\ op[Reader].at = "fill" /\ op[Reader] \in Call /\ f \in Frames
      /\ f = op[Reader].f /\ p = op[Reader].page /\ Reader \in Owners
  BY CallFields DEF DeltaInv, Fill, CallsSound, CallsPlaced, CallsFramed, ClaimsOld, RecordsNew, CallsIndexed,
     Claiming, Owners
<1>2. frame[f] \in FrameType
  BY <1>1, FrameFields DEF DeltaInv
<1>3. p \in DeltaNumbers /\ p \in 0 .. MaxPages /\ p \in Nat
  BY <1>1 DEF DeltaInv, DeltaTypeOK, MapExact, HeldPaged, ReaderMisses, Call, DeltaNumbers, Claiming,
     DeltaParameters
<1>4. disk[p] \in Seq(Record)
  BY <1>3 DEF DeltaInv, DeltaTypeOK
<1>5. /\ doubtful' \in [recs : SUBSET Nat, pages : SUBSET Nat] /\ doubtful'.recs = doubtful.recs
      /\ doubtful.pages \subseteq doubtful'.pages
      /\ \A c \in Chains : Leaving(c, p) => p \in doubtful'.pages
  BY <1>1, <1>3 DEF Fill, Leaving, DeltaInv, DeltaTypeOK
<1> QED
  BY <1>1, <1>2, <1>3, <1>4, <1>5 DEF Fill, SameCalls, CallOnly, SameFrames, FrameOnly, DeltaInv, DeltaTypeOK,
     Call, FrameType, Goto, FillEffect

\* the link of a record is cleared
CutAt(f, i) ==
  /\ i \in 1 .. Len(frame[f].recs)
  /\ Len(frame'[f].recs) = Len(frame[f].recs) /\ DOMAIN frame'[f].recs = DOMAIN frame[f].recs
  /\ \A j \in 1 .. Len(frame[f].recs) :
       frame'[f].recs[j].r = frame[f].recs[j].r
       /\ frame'[f].recs[j].cut = (j = i \/ frame[f].recs[j].cut)
  /\ cut' = cut \cup {frame[f].recs[i].r} /\ frame[f].recs[i].r \in Nat
ClearEffect(f, i) ==
  /\ f = op[Reader].f
  /\ i = op[Reader].i
  /\ op[Reader].at = "hold" /\ op[Reader] \in Call /\ f \in Frames /\ i \in Nat \ {0}
  /\ SameCalls(Reader) /\ SameFrames(f) /\ op'[Reader] \in Call
  /\ op'[Reader].at = "release" /\ op'[Reader].f = f /\ op'[Reader].page = op[Reader].page /\ op'[Reader].i = i
  /\ frame'[f] \in FrameType
  /\ frame'[f].page = frame[f].page /\ frame'[f].latch = frame[f].latch /\ frame'[f].dirty = TRUE
  /\ CutAt(f, i)
  /\ UNCHANGED <<head, map, disk, flush, npages, nrecs, loads, made, loc, taken, doubtful>>

\* The action has this effect.
LEMMA ClearDoes ==
  ASSUME DeltaInv, clear_record_next, NEW f, f = op[Reader].f, NEW i, i = op[Reader].i
  PROVE  ClearEffect(f, i)
<1>1. /\ op[Reader].at = "hold" /\ op[Reader] \in Call /\ f \in Frames
      /\ f = op[Reader].f /\ Reader \in Owners /\ i = op[Reader].i
  BY CallFields DEF DeltaInv, clear_record_next, CallsSound, CallsPlaced, CallsFramed, ClaimsOld, RecordsNew,
     CallsIndexed, Claiming, Owners
<1>2. frame[f] \in FrameType /\ frame[f].recs \in Seq(Record)
  BY <1>1, FrameFields DEF DeltaInv
<1>3. i \in 1 .. Len(frame[f].recs)
  BY <1>1, <1>2 DEF clear_record_next, DeltaInv, CallsSound, CallsPlaced, CallsFramed, ClaimsOld, RecordsNew,
     CallsIndexed, Call, Idle
<1>4. PICK x : x = frame[f].recs
  OBVIOUS
<1>5. x \in Seq(Record) /\ i \in 1 .. Len(x) /\ x[i] \in Record
  BY <1>2, <1>3, <1>4
<1>6. PICK y : y = [x EXCEPT ![i].cut = TRUE]
  OBVIOUS
<1>7. /\ y \in Seq(Record) /\ Len(y) = Len(x) /\ DOMAIN y = DOMAIN x
      /\ \A j \in 1 .. Len(x) : y[j].r = x[j].r /\ y[j].cut = (j = i \/ x[j].cut)
  <2>1. x \in [1 .. Len(x) -> Record] /\ Len(x) \in Nat
    BY <1>5
  <2>2. PICK z : z = [x[i] EXCEPT !.cut = TRUE]
    OBVIOUS
  <2>3. z \in Record /\ z.r = x[i].r /\ z.cut = TRUE
    BY <1>5, <2>2 DEF Record
  <2>4. y = [x EXCEPT ![i] = z]
    BY <1>6, <2>2
  <2>5. y \in [1 .. Len(x) -> Record] /\ y[i] = z /\ \A j \in 1 .. Len(x) : j # i => y[j] = x[j]
    BY <1>5, <2>1, <2>3, <2>4
  <2>6. y \in Seq(Record) /\ Len(y) = Len(x) /\ DOMAIN y = DOMAIN x
    BY <2>1, <2>5, SeqDef, LenProperties
  <2>7. \A j \in 1 .. Len(x) : x[j].cut \in BOOLEAN
    BY <2>1 DEF Record
  <2> QED
    BY <2>3, <2>5, <2>6, <2>7
<1>8. /\ SameFrames(f) /\ frame'[f] \in FrameType /\ frame'[f].recs = y
      /\ frame'[f].page = frame[f].page /\ frame'[f].latch = frame[f].latch /\ frame'[f].dirty = TRUE
  BY <1>1, <1>2, <1>4, <1>6, <1>7 DEF clear_record_next, Cut, SameFrames, FrameOnly, DeltaInv, DeltaTypeOK,
     FrameType
<1>9. /\ SameCalls(Reader) /\ op'[Reader] \in Call
      /\ op'[Reader].at = "release" /\ op'[Reader].f = f /\ op'[Reader].page = op[Reader].page /\ op'[Reader].i = i
  BY <1>1 DEF clear_record_next, SameCalls, CallOnly, DeltaInv, DeltaTypeOK, Call, Goto
<1>10. cut' = cut \cup {frame[f].recs[i].r} /\ frame[f].recs[i].r \in Nat
  BY <1>1, <1>4, <1>5 DEF clear_record_next, Record
<1> QED
  <2>1. UNCHANGED <<head, map, disk, flush, npages, nrecs, loads, made, loc, taken, doubtful>>
    BY DEF clear_record_next
  <2>2. \A j \in 1 .. Len(frame[f].recs) :
          frame'[f].recs[j].r = frame[f].recs[j].r /\ frame'[f].recs[j].cut = (j = i \/ frame[f].recs[j].cut)
    BY <1>4, <1>7, <1>8
  <2>3. CutAt(f, i)
    BY <1>3, <1>4, <1>7, <1>8, <1>10, <2>2 DEF CutAt
  <2>4. i \in Nat \ {0}
    BY <1>2, <1>3
  <2> QED
    BY <1>1, <1>8, <1>9, <2>1, <2>3, <2>4 DEF ClearEffect

\* the reader leaves
UnlatchEffect(f) ==
  /\ f = op[Reader].f
  /\ op[Reader].at \in {"hold", "release"} /\ f \in Frames /\ SameCalls(Reader) /\ SameFrames(f)
  /\ op'[Reader] = Idle
  /\ frame'[f] \in FrameType
  /\ frame'[f].page = frame[f].page /\ frame'[f].dirty = frame[f].dirty
  /\ frame'[f].latch = "none" /\ frame'[f].recs = frame[f].recs
  /\ UNCHANGED <<head, map, disk, flush, npages, nrecs, loads, made, loc, cut, taken, doubtful>>

\* The action has this effect.
LEMMA UnlatchDoes ==
  ASSUME DeltaInv, r_unlatch, NEW f, f = op[Reader].f
  PROVE  UnlatchEffect(f)
<1>1. op[Reader].at \in {"hold", "release"} /\ f \in Frames /\ f = op[Reader].f /\ Reader \in Owners
  BY DEF DeltaInv, r_unlatch, CallsSound, CallsPlaced, CallsFramed, ClaimsOld, RecordsNew, CallsIndexed, Owners
<1>2. frame[f] \in FrameType
  BY <1>1, FrameFields DEF DeltaInv
<1> QED
  BY <1>1, <1>2 DEF r_unlatch, SameCalls, CallOnly, SameFrames, FrameOnly, DeltaInv, DeltaTypeOK, FrameType,
     UnlatchEffect

\* a dirty page is latched
FlushLatchEffect(f) ==
  /\ flush.at = "idle" /\ frame[f].dirty /\ frame[f].latch = "none" /\ SameFrames(f)
  /\ flush' = [at |-> "write", f |-> f]
  /\ frame'[f] \in FrameType
  /\ frame'[f].page = frame[f].page /\ frame'[f].dirty = frame[f].dirty
  /\ frame'[f].latch = "write" /\ frame'[f].recs = frame[f].recs
  /\ UNCHANGED <<head, map, disk, op, npages, nrecs, loads, made, loc, cut, taken, doubtful>>

\* The action has this effect.
LEMMA FlushLatchDoes ==
  ASSUME DeltaInv, NEW f \in Frames, FlushLatch(f)
  PROVE  FlushLatchEffect(f)
<1>2. frame[f] \in FrameType
  BY FrameFields DEF DeltaInv
<1> QED
  BY <1>2 DEF FlushLatch, SameFrames, FrameOnly, DeltaInv, DeltaTypeOK, FrameType, FlushLatchEffect, Idle

\* its image is written
FlushWriteEffect(f, p) ==
  /\ f = flush.f
  /\ p = frame[f].page
  /\ flush.at # "idle" /\ f \in Frames /\ p \in DeltaNumbers
  /\ flush' = [at |-> "clean", f |-> f]
  /\ disk' = [disk EXCEPT ![p] = frame[f].recs]
  /\ UNCHANGED <<head, frame, map, op, npages, nrecs, loads, made, loc, cut, taken, doubtful>>

\* The action has this effect.
LEMMA FlushWriteDoes ==
  ASSUME DeltaInv, FlushWrite, NEW f, f = flush.f, NEW p, p = frame[f].page
  PROVE  FlushWriteEffect(f, p)
<1>1. flush.at # "idle" /\ flush \in [at : {"write", "clean"}, f : Frames] /\ f \in Frames /\ f = flush.f
  BY DEF DeltaInv, FlushWrite, DeltaTypeOK, Idle
<1>2. p \in DeltaNumbers
  BY <1>1, FrameFields DEF DeltaInv, MapExact, HeldPaged, ReaderMisses, DeltaNumbers
<1> QED
  BY <1>1, <1>2 DEF FlushWrite, FlushWriteEffect

\* its flag is cleared
FlushCleanEffect(f, p) ==
  /\ f = flush.f
  /\ p = frame[f].page
  /\ flush.at # "idle" /\ f \in Frames /\ p \in DeltaNumbers /\ flush' = Idle /\ SameFrames(f)
  /\ frame'[f] \in FrameType
  /\ frame'[f].page = p /\ frame'[f].dirty = FALSE
  /\ frame'[f].latch = "none" /\ frame'[f].recs = frame[f].recs
  /\ doubtful' \in [recs : SUBSET Nat, pages : SUBSET Nat] /\ doubtful'.recs = doubtful.recs
  /\ doubtful.pages \subseteq doubtful'.pages
  /\ Unsaved(f) # {} => p \in doubtful'.pages
  /\ UNCHANGED <<head, map, disk, op, npages, nrecs, loads, made, loc, cut, taken>>

\* The action has this effect.
LEMMA FlushCleanDoes ==
  ASSUME DeltaInv, FlushClean, NEW f, f = flush.f, NEW p, p = frame[f].page
  PROVE  FlushCleanEffect(f, p)
<1>1. flush.at # "idle" /\ flush \in [at : {"write", "clean"}, f : Frames] /\ f \in Frames /\ f = flush.f
  BY DEF DeltaInv, FlushClean, DeltaTypeOK, Idle
<1>2. p \in DeltaNumbers /\ p \in Nat
  BY <1>1, FrameFields DEF DeltaInv, MapExact, HeldPaged, ReaderMisses, DeltaNumbers, DeltaParameters
<1>3. frame[f] \in FrameType
  BY <1>1, FrameFields DEF DeltaInv
<1>4. /\ doubtful' \in [recs : SUBSET Nat, pages : SUBSET Nat] /\ doubtful'.recs = doubtful.recs
      /\ doubtful.pages \subseteq doubtful'.pages
      /\ Unsaved(f) # {} => p \in doubtful'.pages
  BY <1>1, <1>2 DEF FlushClean, DeltaInv, DeltaTypeOK
<1>5. /\ SameFrames(f) /\ frame'[f] \in FrameType
      /\ frame'[f].page = p /\ frame'[f].dirty = FALSE
      /\ frame'[f].latch = "none" /\ frame'[f].recs = frame[f].recs
  BY <1>1, <1>3 DEF FlushClean, SameFrames, FrameOnly, DeltaInv, DeltaTypeOK, FrameType
<1> QED
  BY <1>1, <1>2, <1>4, <1>5 DEF FlushClean, FlushCleanEffect
\* Every step has one of these effects.
Effects ==
  \/ \E c \in Chains : InsertEffect(c) \/ FetchEffect(c)
  \/ \E c \in Chains : \E f \in Frames : \/ StoreEffect(c, f) \/ MarkEffect(c, f) \/ ReturnEffect(c, f)
                                         \/ ReinitEffect(c, f) \/ LinkEffect(c, f)
  \/ \E o \in Owners : ThrowEffect(o)
  \/ \E o \in Owners : \E f \in Frames : ClaimEffect(o, f) \/ WriteBackEffect(o, f)
  \/ \E r \in DOMAIN loc : \E p \in DeltaNumbers : ReadEffect(r, p)
  \/ \E f \in Frames : \E p \in DeltaNumbers : FillEffect(f, p) \/ FlushWriteEffect(f, p) \/ FlushCleanEffect(f, p)
  \/ \E f \in Frames : \E i \in Nat : ClearEffect(f, i)
  \/ \E f \in Frames : UnlatchEffect(f) \/ FlushLatchEffect(f)
  \/ UNCHANGED deltaVars

\* ... whatever action of Next it is.
LEMMA StepEffects ==
  ASSUME DeltaInv, [Next]_deltaVars
  PROVE  Effects
<1>1. ASSUME NEW c \in Chains, insert_delta_and_get_loc(c) PROVE Effects
  <2>1. InsertEffect(c)
    BY <1>1, InsertDoes
  <2> QED
    BY <2>1 DEF Effects
<1>2. ASSUME NEW c \in Chains, Store(c) PROVE Effects
  <2>1. PICK f : f = op[c].f
    OBVIOUS
  <2>2. StoreEffect(c, f)
    BY <1>2, <2>1, StoreDoes
  <2>3. f \in Frames
    BY <2>2 DEF StoreEffect
  <2> QED
    BY <2>2, <2>3 DEF Effects
<1>3. ASSUME NEW c \in Chains, Mark(c) PROVE Effects
  <2>1. PICK f : f = op[c].f
    OBVIOUS
  <2>2. MarkEffect(c, f)
    BY <1>3, <2>1, MarkDoes
  <2>3. f \in Frames
    BY <2>2 DEF MarkEffect
  <2> QED
    BY <2>2, <2>3 DEF Effects
<1>4. ASSUME NEW c \in Chains, Return(c) PROVE Effects
  <2>1. PICK f : f = op[c].f
    OBVIOUS
  <2>2. ReturnEffect(c, f)
    BY <1>4, <2>1, ReturnDoes
  <2>3. f \in Frames
    BY <2>2 DEF ReturnEffect
  <2> QED
    BY <2>2, <2>3 DEF Effects
<1>5. ASSUME NEW c \in Chains, reinit(c) PROVE Effects
  <2>1. PICK f : f = op[c].f
    OBVIOUS
  <2>2. ReinitEffect(c, f)
    BY <1>5, <2>1, ReinitDoes
  <2>3. f \in Frames
    BY <2>2 DEF ReinitEffect
  <2> QED
    BY <2>2, <2>3 DEF Effects
<1>6. ASSUME NEW c \in Chains, Link(c) PROVE Effects
  <2>1. PICK f : f = op[c].f
    OBVIOUS
  <2>2. LinkEffect(c, f)
    BY <1>6, <2>1, LinkDoes
  <2>3. f \in Frames
    BY <2>2 DEF LinkEffect
  <2> QED
    BY <2>2, <2>3 DEF Effects
<1>7. ASSUME NEW c \in Chains, fetch_deltas_with_mark(c) PROVE Effects
  <2>1. FetchEffect(c)
    BY <1>7, FetchDoes
  <2> QED
    BY <2>1 DEF Effects
<1>8. ASSUME NEW o \in Owners, NEW f \in Frames, claim_frame_for_reuse(o, f) PROVE Effects
  <2>1. ClaimEffect(o, f)
    BY <1>8, ClaimDoes
  <2> QED
    BY <2>1 DEF Effects
<1>9. ASSUME NEW o \in Owners, ClaimThrows(o) PROVE Effects
  <2>1. ThrowEffect(o)
    BY <1>9, ThrowDoes
  <2> QED
    BY <2>1 DEF Effects
<1>10. ASSUME NEW o \in Owners, WriteBack(o) PROVE Effects
  <2>1. PICK f : f = op[o].f
    OBVIOUS
  <2>2. WriteBackEffect(o, f)
    BY <1>10, <2>1, WriteBackDoes
  <2>3. f \in Frames
    BY <2>2 DEF WriteBackEffect
  <2> QED
    BY <2>2, <2>3 DEF Effects
<1>11. ASSUME NEW r \in DOMAIN loc, buf_page_read(r) PROVE Effects
  <2>1. PICK p : p = loc[r].page
    OBVIOUS
  <2>2. ReadEffect(r, p)
    BY <1>11, <2>1, ReadDoes
  <2>3. p \in DeltaNumbers
    BY <2>2 DEF ReadEffect
  <2> QED
    BY <2>2, <2>3 DEF Effects
<1>12. CASE Fill
  <2>1. PICK f : f = op[Reader].f
    OBVIOUS
  <2>2. PICK p : p = op[Reader].page
    OBVIOUS
  <2>3. FillEffect(f, p)
    BY <1>12, <2>1, <2>2, FillDoes
  <2>4. f \in Frames /\ p \in DeltaNumbers
    BY <2>3 DEF FillEffect
  <2> QED
    BY <2>3, <2>4 DEF Effects
<1>13. CASE clear_record_next
  <2>1. PICK f : f = op[Reader].f
    OBVIOUS
  <2>2. PICK i : i = op[Reader].i
    OBVIOUS
  <2>3. ClearEffect(f, i)
    BY <1>13, <2>1, <2>2, ClearDoes
  <2>4. f \in Frames /\ i \in Nat
    BY <2>3 DEF ClearEffect
  <2> QED
    BY <2>3, <2>4 DEF Effects
<1>14. CASE r_unlatch
  <2>1. PICK f : f = op[Reader].f
    OBVIOUS
  <2>2. UnlatchEffect(f)
    BY <1>14, <2>1, UnlatchDoes
  <2>3. f \in Frames
    BY <2>2 DEF UnlatchEffect
  <2> QED
    BY <2>2, <2>3 DEF Effects
<1>15. ASSUME NEW f \in Frames, FlushLatch(f) PROVE Effects
  <2>1. FlushLatchEffect(f)
    BY <1>15, FlushLatchDoes
  <2> QED
    BY <2>1 DEF Effects
<1>16. CASE FlushWrite
  <2>1. PICK f : f = flush.f
    OBVIOUS
  <2>2. PICK p : p = frame[f].page
    OBVIOUS
  <2>3. FlushWriteEffect(f, p)
    BY <1>16, <2>1, <2>2, FlushWriteDoes
  <2>4. f \in Frames /\ p \in DeltaNumbers
    BY <2>3 DEF FlushWriteEffect
  <2> QED
    BY <2>3, <2>4 DEF Effects
<1>17. CASE FlushClean
  <2>1. PICK f : f = flush.f
    OBVIOUS
  <2>2. PICK p : p = frame[f].page
    OBVIOUS
  <2>3. FlushCleanEffect(f, p)
    BY <1>17, <2>1, <2>2, FlushCleanDoes
  <2>4. f \in Frames /\ p \in DeltaNumbers
    BY <2>3 DEF FlushCleanEffect
  <2> QED
    BY <2>3, <2>4 DEF Effects
<1> QED
  BY <1>1, <1>2, <1>3, <1>4, <1>5, <1>6, <1>7, <1>8, <1>9, <1>10, <1>11, <1>12, <1>13, <1>14, <1>15, <1>16,
     <1>17 DEF Next, Effects

-----------------------------------------------------------------------------
(* The types *)

\* Types are kept.
LEMMA TypesKept ==
  ASSUME DeltaInv, [Next]_deltaVars
  PROVE  DeltaTypeOK'
<1>0. DeltaParameters /\ DeltaTypeOK /\ CallsSound /\ MapExact /\ OnePlace
  BY DEF DeltaInv
<1>1. ASSUME NEW c \in Chains, InsertEffect(c) PROVE DeltaTypeOK'
  <2>1. op' \in [Owners -> Call \cup {Idle}]
    BY <1>0, <1>1, CallsTyped DEF InsertEffect, Owners
  <2> QED
    BY <1>0, <1>1, <2>1 DEF InsertEffect, DeltaTypeOK
<1>2. ASSUME NEW c \in Chains, NEW f \in Frames, StoreEffect(c, f) PROVE DeltaTypeOK'
  <2>1. op' \in [Owners -> Call \cup {Idle}]
    BY <1>0, <1>2, CallsTyped DEF StoreEffect, Owners
  <2>2. frame' \in [Frames -> FrameType]
    BY <1>0, <1>2, FramesTyped DEF StoreEffect, DeltaTypeOK
  <2> QED
    BY <1>0, <1>2, <2>1, <2>2 DEF StoreEffect, DeltaTypeOK
<1>3. ASSUME NEW c \in Chains, NEW f \in Frames, MarkEffect(c, f) PROVE DeltaTypeOK'
  <2>1. op' \in [Owners -> Call \cup {Idle}]
    BY <1>0, <1>3, CallsTyped DEF MarkEffect, Owners
  <2>2. frame' \in [Frames -> FrameType]
    BY <1>0, <1>3, FramesTyped DEF MarkEffect
  <2> QED
    BY <1>0, <1>3, <2>1, <2>2 DEF MarkEffect, DeltaTypeOK
<1>4. ASSUME NEW c \in Chains, NEW f \in Frames, ReturnEffect(c, f) PROVE DeltaTypeOK'
  <2>1. op' \in [Owners -> Call \cup {Idle}]
    BY <1>0, <1>4, CallsTyped DEF ReturnEffect, Owners
  <2>2. op[c].r \in 1 .. nrecs /\ op[c].r \in Nat /\ op[c].i \in Nat \ {0} /\ f \in InHand(c)
    BY <1>0, <1>4, <2>1, SMT DEF ReturnEffect, CallsSound, RecordsNew, CallsIndexed, Idle, DeltaTypeOK, Call,
       InHand
  <2>3. frame[f].page \in DeltaNumbers
    BY <1>0, <1>4, <2>1, <2>2, FrameFields DEF MapExact, HandsPaged, DeltaParameters, DeltaNumbers
  <2>4. made' \in [Chains -> Seq(Nat)]
    BY <1>0, <1>4, <2>1, <2>2, <2>3, SMT DEF ReturnEffect, DeltaTypeOK
  <2>5. DOMAIN loc' \subseteq 1 .. nrecs /\ \A x \in DOMAIN loc' : loc'[x] \in [page : DeltaNumbers, i : Nat \ {0}]
    BY <1>0, <1>4, <2>1, <2>2, <2>3, <2>4, SMT DEF ReturnEffect, DeltaTypeOK
  <2> QED
    BY <1>0, <1>4, <2>1, <2>2, <2>3, <2>4, <2>5 DEF ReturnEffect, DeltaTypeOK
<1>5. ASSUME NEW c \in Chains, NEW f \in Frames, ReinitEffect(c, f) PROVE DeltaTypeOK'
  <2>1. op' \in [Owners -> Call \cup {Idle}]
    BY <1>0, <1>5, CallsTyped DEF ReinitEffect, Owners
  <2>2. frame'[f] \in FrameType
    <3>1. op[c].page \in 0 .. MaxPages /\ <<>> \in Seq(Record)
      BY <1>0, <1>5 DEF ReinitEffect, DeltaNumbers, DeltaParameters
    <3> QED
      BY <1>5, <3>1 DEF ReinitEffect, FrameType
  <2>3. frame' \in [Frames -> FrameType]
    BY <1>0, <1>5, <2>2, FramesTyped DEF ReinitEffect
  <2>4. map' \in [DeltaNumbers -> Frames \cup {NoFrame}]
    BY <1>0, <1>5 DEF ReinitEffect, DeltaTypeOK
  <2> QED
    BY <1>0, <1>5, <2>1, <2>3, <2>4 DEF ReinitEffect, DeltaTypeOK
<1>6. ASSUME NEW c \in Chains, NEW f \in Frames, LinkEffect(c, f) PROVE DeltaTypeOK'
  <2>1. op' \in [Owners -> Call \cup {Idle}]
    BY <1>0, <1>6, CallsTyped DEF LinkEffect, Owners
  <2>2. frame' \in [Frames -> FrameType]
    BY <1>0, <1>6, FramesTyped DEF LinkEffect
  <2>3. head' \in [Chains -> Frames \cup {NoFrame}]
    BY <1>0, <1>6, <2>1, <2>2, SMT DEF LinkEffect, DeltaTypeOK
  <2> QED
    BY <1>0, <1>6, <2>1, <2>2, <2>3 DEF LinkEffect, DeltaTypeOK
<1>7. ASSUME NEW c \in Chains, FetchEffect(c) PROVE DeltaTypeOK'
  <2>1. made' \in [Chains -> Seq(Nat)] /\ head' \in [Chains -> Frames \cup {NoFrame}] /\ taken' \in SUBSET Chains
    BY <1>0, <1>7 DEF FetchEffect, DeltaTypeOK
  <2> QED
    BY <1>0, <1>7, <2>1 DEF FetchEffect, DeltaTypeOK
<1>8. ASSUME NEW o \in Owners, NEW f \in Frames, ClaimEffect(o, f) PROVE DeltaTypeOK'
  <2>1. op' \in [Owners -> Call \cup {Idle}]
    BY <1>0, <1>8, CallsTyped DEF ClaimEffect
  <2>2. frame' \in [Frames -> FrameType]
    BY <1>0, <1>8, FramesTyped DEF ClaimEffect
  <2>3. map' \in [DeltaNumbers -> Frames \cup {NoFrame}]
    <3>1. PICK q : q = frame[f].page
      OBVIOUS
    <3>2. map' = IF q = 0 THEN map ELSE [map EXCEPT ![q] = NoFrame]
      BY <1>8, <3>1 DEF ClaimEffect
    <3>3. map \in [DeltaNumbers -> Frames \cup {NoFrame}]
      BY <1>0 DEF DeltaTypeOK
    <3> QED
      BY <3>2, <3>3
  <2>4. npages' \in Nat
    BY <1>0, <1>8 DEF ClaimEffect, DeltaTypeOK
  <2> QED
    BY <1>0, <1>8, <2>1, <2>2, <2>3, <2>4 DEF ClaimEffect, DeltaTypeOK
<1>9. ASSUME NEW o \in Owners, ThrowEffect(o) PROVE DeltaTypeOK'
  <2>1. op' \in [Owners -> Call \cup {Idle}]
    BY <1>0, <1>9, CallsTyped DEF ThrowEffect, Owners
  <2> QED
    BY <1>0, <1>9, <2>1 DEF ThrowEffect, DeltaTypeOK
<1>10. ASSUME NEW o \in Owners, NEW f \in Frames, WriteBackEffect(o, f) PROVE DeltaTypeOK'
  <2>1. op' \in [Owners -> Call \cup {Idle}]
    BY <1>0, <1>10, CallsTyped DEF WriteBackEffect, Owners
  <2>2. frame' \in [Frames -> FrameType]
    BY <1>0, <1>10, FramesTyped DEF WriteBackEffect
  <2>3. disk' \in [DeltaNumbers -> Seq(Record)]
    BY <1>0, <1>10, <2>1, <2>2, FrameFields DEF WriteBackEffect, DeltaTypeOK
  <2> QED
    BY <1>0, <1>10, <2>1, <2>2, <2>3 DEF WriteBackEffect, DeltaTypeOK
<1>11. ASSUME NEW r \in DOMAIN loc, NEW p \in DeltaNumbers, ReadEffect(r, p) PROVE DeltaTypeOK'
  <2>1. op' \in [Owners -> Call \cup {Idle}]
    BY <1>0, <1>11, CallsTyped DEF ReadEffect, Owners
  <2>2. CASE frame' = frame
    BY <1>0, <1>11, <2>1, <2>2 DEF ReadEffect, DeltaTypeOK
  <2>3. CASE frame' # frame
    <3>1. frame' \in [Frames -> FrameType]
      BY <1>0, <1>11, <2>3, FramesTyped DEF ReadEffect
    <3> QED
      BY <1>0, <1>11, <2>1, <3>1 DEF ReadEffect, DeltaTypeOK
  <2> QED
    BY <2>2, <2>3
<1>12. ASSUME NEW f \in Frames, NEW p \in DeltaNumbers, FillEffect(f, p) PROVE DeltaTypeOK'
  <2>1. op' \in [Owners -> Call \cup {Idle}]
    BY <1>0, <1>12, CallsTyped DEF FillEffect, Owners
  <2>2. frame' \in [Frames -> FrameType]
    BY <1>0, <1>12, FramesTyped DEF FillEffect
  <2>3. map' \in [DeltaNumbers -> Frames \cup {NoFrame}]
    BY <1>0, <1>12, <2>1, <2>2, SMT DEF FillEffect, DeltaTypeOK
  <2> QED
    BY <1>0, <1>12, <2>1, <2>2, <2>3 DEF FillEffect, DeltaTypeOK
<1>13. ASSUME NEW f \in Frames, NEW i \in Nat, ClearEffect(f, i) PROVE DeltaTypeOK'
  <2>1. op' \in [Owners -> Call \cup {Idle}]
    BY <1>0, <1>13, CallsTyped DEF ClearEffect, Owners
  <2>2. frame' \in [Frames -> FrameType]
    BY <1>0, <1>13, FramesTyped DEF ClearEffect
  <2>3. cut' \in SUBSET (1 .. nrecs)
    <3>1. PICK x : x = frame[f].recs[i].r
      OBVIOUS
    <3>2. i \in DOMAIN frame[f].recs
      <4>1. i \in 1 .. Len(frame[f].recs)
        BY <1>13 DEF ClearEffect, CutAt
      <4>2. frame[f].recs \in Seq(Record)
        BY <1>0, FrameFields
      <4> QED
        BY <4>1, <4>2
    <3>3. x \in 1 .. nrecs
      BY <1>0, <3>1, <3>2 DEF OnePlace, FramesInPlace, RecordInPlace
    <3>4. cut' = cut \cup {x} /\ cut \in SUBSET (1 .. nrecs)
      BY <1>0, <1>13, <3>1 DEF ClearEffect, CutAt, DeltaTypeOK
    <3> QED
      BY <3>3, <3>4
  <2> QED
    BY <1>0, <1>13, <2>1, <2>2, <2>3 DEF ClearEffect, DeltaTypeOK
<1>14. ASSUME NEW f \in Frames, UnlatchEffect(f) PROVE DeltaTypeOK'
  <2>1. op' \in [Owners -> Call \cup {Idle}]
    BY <1>0, <1>14, CallsTyped DEF UnlatchEffect, Owners
  <2>2. frame' \in [Frames -> FrameType]
    BY <1>0, <1>14, FramesTyped DEF UnlatchEffect
  <2> QED
    BY <1>0, <1>14, <2>1, <2>2 DEF UnlatchEffect, DeltaTypeOK
<1>15. ASSUME NEW f \in Frames, FlushLatchEffect(f) PROVE DeltaTypeOK'
  <2>1. frame' \in [Frames -> FrameType]
    BY <1>0, <1>15, FramesTyped DEF FlushLatchEffect
  <2>2. flush' \in [at : {"write", "clean"}, f : Frames]
    BY <1>0, <1>15, <2>1, SMT DEF FlushLatchEffect
  <2> QED
    BY <1>0, <1>15, <2>1, <2>2 DEF FlushLatchEffect, DeltaTypeOK
<1>16. ASSUME NEW f \in Frames, NEW p \in DeltaNumbers, FlushWriteEffect(f, p) PROVE DeltaTypeOK'
  <2>1. flush' \in [at : {"write", "clean"}, f : Frames]
    BY <1>0, <1>16, SMT DEF FlushWriteEffect
  <2>2. disk' \in [DeltaNumbers -> Seq(Record)]
    BY <1>0, <1>16, <2>1, FrameFields DEF FlushWriteEffect, DeltaTypeOK
  <2> QED
    BY <1>0, <1>16, <2>1, <2>2 DEF FlushWriteEffect, DeltaTypeOK
<1>17. ASSUME NEW f \in Frames, NEW p \in DeltaNumbers, FlushCleanEffect(f, p) PROVE DeltaTypeOK'
  <2>1. frame' \in [Frames -> FrameType]
    BY <1>0, <1>17, FramesTyped DEF FlushCleanEffect
  <2> QED
    BY <1>0, <1>17, <2>1 DEF FlushCleanEffect, DeltaTypeOK
<1>18. CASE UNCHANGED deltaVars
  BY <1>0, <1>18 DEF DeltaTypeOK, deltaVars
<1> QED
  BY StepEffects, <1>1, <1>2, <1>3, <1>4, <1>5, <1>6, <1>7, <1>8, <1>9, <1>10, <1>11, <1>12, <1>13, <1>14,
     <1>15, <1>16, <1>17, <1>18 DEF Effects

-----------------------------------------------------------------------------
(* Calls, their frames and records *)

\* A call stays where calls of its kind can be, with a frame and a record of its own.
LEMMA CallsKept ==
  ASSUME DeltaInv, [Next]_deltaVars
  PROVE  CallsSound'
<1>0. /\ Reader \in Owners /\ Reader \notin Chains /\ Chains \subseteq Owners
      /\ \A o \in Owners : o # Reader => o \in Chains
      /\ (flush.at # "idle" => flush.f \in Frames)
      /\ CallsPlaced /\ CallsFramed /\ ClaimsOld /\ RecordsNew /\ CallsIndexed /\ HoldersApart /\ ReaderMisses
      /\ NoFrame \notin Frames /\ nrecs \in Nat /\ DOMAIN loc \subseteq 1 .. nrecs /\ head \in [Chains -> Frames \cup {NoFrame}]
  BY OwnersAre, FlushFields DEF DeltaInv, CallsSound, OneHolder, MapExact, DeltaParameters, DeltaTypeOK
<1>1. ASSUME NEW c \in Chains, InsertEffect(c) PROVE CallsSound'
  <2>1. CallsPlaced'
    BY <1>0, <1>1 DEF InsertEffect, SameCalls, SameFrames, CallsPlaced, Idle, Claiming, Writing
  <2>2. CallsFramed'
    BY <1>0, <1>1 DEF InsertEffect, SameCalls, SameFrames, CallsFramed, Idle, Claiming, Writing
  <2>3. ClaimsOld'
    BY <1>0, <1>1 DEF InsertEffect, SameCalls, SameFrames, ClaimsOld, Idle, Claiming, Writing, HoldersApart,
       HoldsFrame, CallsFramed
  <2>4. RecordsNew'
    BY <1>0, <1>1 DEF InsertEffect, SameCalls, SameFrames, RecordsNew, Idle
  <2>5. CallsIndexed'
    BY <1>0, <1>1 DEF InsertEffect, SameCalls, SameFrames, CallsIndexed, Idle, CallsPlaced, Writing
  <2> QED
    BY <2>1, <2>2, <2>3, <2>4, <2>5 DEF CallsSound
<1>2. ASSUME NEW c \in Chains, NEW f \in Frames, StoreEffect(c, f) PROVE CallsSound'
  <2>1. CallsPlaced'
    BY <1>0, <1>2 DEF StoreEffect, SameCalls, SameFrames, CallsPlaced, Idle, Claiming, Writing
  <2>2. CallsFramed'
    BY <1>0, <1>2 DEF StoreEffect, SameCalls, SameFrames, CallsFramed, Idle, Claiming, Writing
  <2>3. ClaimsOld'
    BY <1>0, <1>2 DEF StoreEffect, SameCalls, SameFrames, ClaimsOld, Idle, Claiming, Writing, HoldersApart,
       HoldsFrame, CallsFramed
  <2>4. RecordsNew'
    BY <1>0, <1>2 DEF StoreEffect, SameCalls, SameFrames, RecordsNew, Idle
  <2>5. CallsIndexed'
    BY <1>0, <1>2 DEF StoreEffect, SameCalls, SameFrames, CallsIndexed, Idle, CallsPlaced, Writing
  <2> QED
    BY <2>1, <2>2, <2>3, <2>4, <2>5 DEF CallsSound
<1>3. ASSUME NEW c \in Chains, NEW f \in Frames, MarkEffect(c, f) PROVE CallsSound'
  <2>1. CallsPlaced'
    BY <1>0, <1>3 DEF MarkEffect, SameCalls, SameFrames, CallsPlaced, Idle, Claiming, Writing
  <2>2. CallsFramed'
    BY <1>0, <1>3 DEF MarkEffect, SameCalls, SameFrames, CallsFramed, Idle, Claiming, Writing
  <2>3. ClaimsOld'
    BY <1>0, <1>3 DEF MarkEffect, SameCalls, SameFrames, ClaimsOld, Idle, Claiming, Writing, HoldersApart,
       HoldsFrame, CallsFramed
  <2>4. RecordsNew'
    BY <1>0, <1>3 DEF MarkEffect, SameCalls, SameFrames, RecordsNew, Idle
  <2>5. CallsIndexed'
    BY <1>0, <1>3 DEF MarkEffect, SameCalls, SameFrames, CallsIndexed, Idle, CallsPlaced, Writing
  <2> QED
    BY <2>1, <2>2, <2>3, <2>4, <2>5 DEF CallsSound
<1>4. ASSUME NEW c \in Chains, NEW f \in Frames, ReturnEffect(c, f) PROVE CallsSound'
  <2>1. CallsPlaced'
    BY <1>0, <1>4 DEF ReturnEffect, SameCalls, SameFrames, CallsPlaced, Idle, Claiming, Writing
  <2>2. CallsFramed'
    BY <1>0, <1>4 DEF ReturnEffect, SameCalls, SameFrames, CallsFramed, Idle, Claiming, Writing
  <2>3. ClaimsOld'
    BY <1>0, <1>4 DEF ReturnEffect, SameCalls, SameFrames, ClaimsOld, Idle, Claiming, Writing, HoldersApart,
       HoldsFrame, CallsFramed
  <2>4. RecordsNew'
    BY <1>0, <1>4 DEF ReturnEffect, SameCalls, SameFrames, RecordsNew, Idle
  <2>5. CallsIndexed'
    BY <1>0, <1>4 DEF ReturnEffect, SameCalls, SameFrames, CallsIndexed, Idle, CallsPlaced, Writing
  <2> QED
    BY <2>1, <2>2, <2>3, <2>4, <2>5 DEF CallsSound
<1>5. ASSUME NEW c \in Chains, NEW f \in Frames, ReinitEffect(c, f) PROVE CallsSound'
  <2>1. CallsPlaced'
    BY <1>0, <1>5 DEF ReinitEffect, SameCalls, SameFrames, CallsPlaced, Idle, Claiming, Writing
  <2>2. CallsFramed'
    BY <1>0, <1>5 DEF ReinitEffect, SameCalls, SameFrames, CallsFramed, Idle, Claiming, Writing
  <2>3. ClaimsOld'
    BY <1>0, <1>5 DEF ReinitEffect, SameCalls, SameFrames, ClaimsOld, Idle, Claiming, Writing, HoldersApart,
       HoldsFrame, CallsFramed
  <2>4. RecordsNew'
    BY <1>0, <1>5 DEF ReinitEffect, SameCalls, SameFrames, RecordsNew, Idle
  <2>5. CallsIndexed'
    BY <1>0, <1>5 DEF ReinitEffect, SameCalls, SameFrames, CallsIndexed, Idle, CallsPlaced, Writing
  <2> QED
    BY <2>1, <2>2, <2>3, <2>4, <2>5 DEF CallsSound
<1>6. ASSUME NEW c \in Chains, NEW f \in Frames, LinkEffect(c, f) PROVE CallsSound'
  <2>1. CallsPlaced'
    BY <1>0, <1>6 DEF LinkEffect, SameCalls, SameFrames, CallsPlaced, Idle, Claiming, Writing
  <2>2. CallsFramed'
    BY <1>0, <1>6 DEF LinkEffect, SameCalls, SameFrames, CallsFramed, Idle, Claiming, Writing
  <2>3. ClaimsOld'
    BY <1>0, <1>6 DEF LinkEffect, SameCalls, SameFrames, ClaimsOld, Idle, Claiming, Writing, HoldersApart,
       HoldsFrame, CallsFramed
  <2>4. RecordsNew'
    BY <1>0, <1>6 DEF LinkEffect, SameCalls, SameFrames, RecordsNew, Idle
  <2>5. CallsIndexed'
    BY <1>0, <1>6 DEF LinkEffect, SameCalls, SameFrames, CallsIndexed, Idle, CallsPlaced, Writing
  <2> QED
    BY <2>1, <2>2, <2>3, <2>4, <2>5 DEF CallsSound
<1>7. ASSUME NEW c \in Chains, FetchEffect(c) PROVE CallsSound'
  <2>1. CallsPlaced'
    BY <1>0, <1>7 DEF FetchEffect, SameCalls, SameFrames, CallsPlaced, Idle, Claiming, Writing
  <2>2. CallsFramed'
    BY <1>0, <1>7 DEF FetchEffect, SameCalls, SameFrames, CallsFramed, Idle, Claiming, Writing
  <2>3. ClaimsOld'
    BY <1>0, <1>7 DEF FetchEffect, SameCalls, SameFrames, ClaimsOld, Idle, Claiming, Writing, HoldersApart,
       HoldsFrame, CallsFramed
  <2>4. RecordsNew'
    <3>1. UNCHANGED <<nrecs, loc>> /\ \A x \in Chains : op'[x] = op[x]
      BY <1>0, <1>7 DEF FetchEffect, SameCalls
    <3> QED
      BY <1>0, <3>1 DEF RecordsNew
  <2>5. CallsIndexed'
    BY <1>0, <1>7 DEF FetchEffect, SameCalls, SameFrames, CallsIndexed, Idle, CallsPlaced, Writing
  <2> QED
    BY <2>1, <2>2, <2>3, <2>4, <2>5 DEF CallsSound
<1>8. ASSUME NEW o \in Owners, NEW f \in Frames, ClaimEffect(o, f) PROVE CallsSound'
  <2>1. CallsPlaced'
    BY <1>0, <1>8 DEF ClaimEffect, SameCalls, SameFrames, CallsPlaced, Idle, Claiming, Writing
  <2>2. CallsFramed'
    BY <1>0, <1>8 DEF ClaimEffect, SameCalls, SameFrames, CallsFramed, Idle, Claiming, Writing
  <2>3. ClaimsOld'
    <3>1. \A x \in Owners \ {o} : op'[x] = op[x] /\ (op[x].at = "write" => op[x].f \in Frames)
      BY <1>0, <1>8 DEF ClaimEffect, SameCalls, CallsFramed, Claiming
    <3>2. \A g \in Frames : frame'[g].page = frame[g].page
      BY <1>8 DEF ClaimEffect, SameFrames
    <3>3. op'[o].f = f /\ op'[o].old = frame[f].page /\ (op'[o].write => op'[o].old # 0)
      BY <1>8 DEF ClaimEffect
    <3> QED
      BY <1>0, <3>1, <3>2, <3>3 DEF ClaimsOld
  <2>4. RecordsNew'
    BY <1>0, <1>8 DEF ClaimEffect, SameCalls, SameFrames, RecordsNew, Idle
  <2>5. CallsIndexed'
    BY <1>0, <1>8 DEF ClaimEffect, SameCalls, SameFrames, CallsIndexed, Idle, CallsPlaced, Writing
  <2> QED
    BY <2>1, <2>2, <2>3, <2>4, <2>5 DEF CallsSound
<1>9. ASSUME NEW o \in Owners, ThrowEffect(o) PROVE CallsSound'
  <2>1. CallsPlaced'
    BY <1>0, <1>9 DEF ThrowEffect, SameCalls, SameFrames, CallsPlaced, Idle, Claiming, Writing
  <2>2. CallsFramed'
    BY <1>0, <1>9 DEF ThrowEffect, SameCalls, SameFrames, CallsFramed, Idle, Claiming, Writing
  <2>3. ClaimsOld'
    BY <1>0, <1>9 DEF ThrowEffect, SameCalls, SameFrames, ClaimsOld, Idle, Claiming, Writing, HoldersApart,
       HoldsFrame, CallsFramed
  <2>4. RecordsNew'
    BY <1>0, <1>9 DEF ThrowEffect, SameCalls, SameFrames, RecordsNew, Idle
  <2>5. CallsIndexed'
    BY <1>0, <1>9 DEF ThrowEffect, SameCalls, SameFrames, CallsIndexed, Idle, CallsPlaced, Writing
  <2> QED
    BY <2>1, <2>2, <2>3, <2>4, <2>5 DEF CallsSound
<1>10. ASSUME NEW o \in Owners, NEW f \in Frames, WriteBackEffect(o, f) PROVE CallsSound'
  <2>1. CallsPlaced'
    BY <1>0, <1>10 DEF WriteBackEffect, SameCalls, SameFrames, CallsPlaced, Idle, Claiming, Writing
  <2>2. CallsFramed'
    BY <1>0, <1>10 DEF WriteBackEffect, SameCalls, SameFrames, CallsFramed, Idle, Claiming, Writing
  <2>3. ClaimsOld'
    BY <1>0, <1>10 DEF WriteBackEffect, SameCalls, SameFrames, ClaimsOld, Idle, Claiming, Writing,
       HoldersApart, HoldsFrame, CallsFramed
  <2>4. RecordsNew'
    BY <1>0, <1>10 DEF WriteBackEffect, SameCalls, SameFrames, RecordsNew, Idle
  <2>5. CallsIndexed'
    BY <1>0, <1>10 DEF WriteBackEffect, SameCalls, SameFrames, CallsIndexed, Idle, CallsPlaced, Writing
  <2> QED
    BY <2>1, <2>2, <2>3, <2>4, <2>5 DEF CallsSound
<1>11. ASSUME NEW r \in DOMAIN loc, NEW p \in DeltaNumbers, ReadEffect(r, p) PROVE CallsSound'
  <2>1. CallsPlaced'
    BY <1>0, <1>11 DEF ReadEffect, SameCalls, SameFrames, CallsPlaced, Idle, Claiming, Writing
  <2>2. CallsFramed'
    BY <1>0, <1>11 DEF ReadEffect, SameCalls, SameFrames, CallsFramed, Idle, Claiming, Writing
  <2>3. ClaimsOld'
    BY <1>0, <1>11 DEF ReadEffect, SameCalls, SameFrames, ClaimsOld, Idle, Claiming, Writing, HoldersApart,
       HoldsFrame, CallsFramed
  <2>4. RecordsNew'
    <3>1. UNCHANGED <<nrecs, loc>> /\ \A x \in Chains : op'[x] = op[x]
      BY <1>0, <1>11 DEF ReadEffect, SameCalls
    <3> QED
      BY <1>0, <3>1 DEF RecordsNew
  <2>5. CallsIndexed'
    BY <1>0, <1>11 DEF ReadEffect, SameCalls, SameFrames, CallsIndexed, Idle, CallsPlaced, Writing
  <2> QED
    BY <2>1, <2>2, <2>3, <2>4, <2>5 DEF CallsSound
<1>12. ASSUME NEW f \in Frames, NEW p \in DeltaNumbers, FillEffect(f, p) PROVE CallsSound'
  <2>1. CallsPlaced'
    BY <1>0, <1>12 DEF FillEffect, SameCalls, SameFrames, CallsPlaced, Idle, Claiming, Writing
  <2>2. CallsFramed'
    BY <1>0, <1>12 DEF FillEffect, SameCalls, SameFrames, CallsFramed, Idle, Claiming, Writing
  <2>3. ClaimsOld'
    BY <1>0, <1>12 DEF FillEffect, SameCalls, SameFrames, ClaimsOld, Idle, Claiming, Writing, HoldersApart,
       HoldsFrame, CallsFramed
  <2>4. RecordsNew'
    <3>1. UNCHANGED <<nrecs, loc>> /\ \A x \in Chains : op'[x] = op[x]
      BY <1>0, <1>12 DEF FillEffect, SameCalls
    <3> QED
      BY <1>0, <3>1 DEF RecordsNew
  <2>5. CallsIndexed'
    BY <1>0, <1>12 DEF FillEffect, SameCalls, SameFrames, CallsIndexed, Idle, CallsPlaced, Writing
  <2> QED
    BY <2>1, <2>2, <2>3, <2>4, <2>5 DEF CallsSound
<1>13. ASSUME NEW f \in Frames, NEW i \in Nat, ClearEffect(f, i) PROVE CallsSound'
  <2>1. CallsPlaced'
    BY <1>0, <1>13 DEF ClearEffect, SameCalls, SameFrames, CallsPlaced, Idle, Claiming, Writing
  <2>2. CallsFramed'
    BY <1>0, <1>13 DEF ClearEffect, SameCalls, SameFrames, CallsFramed, Idle, Claiming, Writing
  <2>3. ClaimsOld'
    BY <1>0, <1>13 DEF ClearEffect, SameCalls, SameFrames, ClaimsOld, Idle, Claiming, Writing, HoldersApart,
       HoldsFrame, CallsFramed
  <2>4. RecordsNew'
    <3>1. UNCHANGED <<nrecs, loc>> /\ \A x \in Chains : op'[x] = op[x]
      BY <1>0, <1>13 DEF ClearEffect, SameCalls
    <3> QED
      BY <1>0, <3>1 DEF RecordsNew
  <2>5. CallsIndexed'
    BY <1>0, <1>13 DEF ClearEffect, SameCalls, SameFrames, CallsIndexed, Idle, CallsPlaced, Writing
  <2> QED
    BY <2>1, <2>2, <2>3, <2>4, <2>5 DEF CallsSound
<1>14. ASSUME NEW f \in Frames, UnlatchEffect(f) PROVE CallsSound'
  <2>1. CallsPlaced'
    BY <1>0, <1>14 DEF UnlatchEffect, SameCalls, SameFrames, CallsPlaced, Idle, Claiming, Writing
  <2>2. CallsFramed'
    BY <1>0, <1>14 DEF UnlatchEffect, SameCalls, SameFrames, CallsFramed, Idle, Claiming, Writing
  <2>3. ClaimsOld'
    BY <1>0, <1>14 DEF UnlatchEffect, SameCalls, SameFrames, ClaimsOld, Idle, Claiming, Writing, HoldersApart,
       HoldsFrame, CallsFramed
  <2>4. RecordsNew'
    <3>1. UNCHANGED <<nrecs, loc>> /\ \A x \in Chains : op'[x] = op[x]
      BY <1>0, <1>14 DEF UnlatchEffect, SameCalls
    <3> QED
      BY <1>0, <3>1 DEF RecordsNew
  <2>5. CallsIndexed'
    BY <1>0, <1>14 DEF UnlatchEffect, SameCalls, SameFrames, CallsIndexed, Idle, CallsPlaced, Writing
  <2> QED
    BY <2>1, <2>2, <2>3, <2>4, <2>5 DEF CallsSound
<1>15. ASSUME NEW f \in Frames, FlushLatchEffect(f) PROVE CallsSound'
  <2>1. CallsPlaced'
    BY <1>0, <1>15 DEF FlushLatchEffect, SameCalls, SameFrames, CallsPlaced, Idle, Claiming, Writing
  <2>2. CallsFramed'
    BY <1>0, <1>15 DEF FlushLatchEffect, SameCalls, SameFrames, CallsFramed, Idle, Claiming, Writing
  <2>3. ClaimsOld'
    BY <1>0, <1>15 DEF FlushLatchEffect, SameCalls, SameFrames, ClaimsOld, Idle, Claiming, Writing,
       HoldersApart, HoldsFrame, CallsFramed
  <2>4. RecordsNew'
    <3>1. UNCHANGED <<nrecs, loc>> /\ \A x \in Chains : op'[x] = op[x]
      BY <1>0, <1>15 DEF FlushLatchEffect, SameCalls
    <3> QED
      BY <1>0, <3>1 DEF RecordsNew
  <2>5. CallsIndexed'
    BY <1>0, <1>15 DEF FlushLatchEffect, SameCalls, SameFrames, CallsIndexed, Idle, CallsPlaced, Writing
  <2> QED
    BY <2>1, <2>2, <2>3, <2>4, <2>5 DEF CallsSound
<1>16. ASSUME NEW f \in Frames, NEW p \in DeltaNumbers, FlushWriteEffect(f, p) PROVE CallsSound'
  <2>1. CallsPlaced'
    BY <1>0, <1>16 DEF FlushWriteEffect, SameCalls, SameFrames, CallsPlaced, Idle, Claiming, Writing
  <2>2. CallsFramed'
    BY <1>0, <1>16 DEF FlushWriteEffect, SameCalls, SameFrames, CallsFramed, Idle, Claiming, Writing
  <2>3. ClaimsOld'
    BY <1>0, <1>16 DEF FlushWriteEffect, SameCalls, SameFrames, ClaimsOld, Idle, Claiming, Writing,
       HoldersApart, HoldsFrame, CallsFramed
  <2>4. RecordsNew'
    <3>1. UNCHANGED <<nrecs, loc>> /\ \A x \in Chains : op'[x] = op[x]
      BY <1>0, <1>16 DEF FlushWriteEffect, SameCalls
    <3> QED
      BY <1>0, <3>1 DEF RecordsNew
  <2>5. CallsIndexed'
    BY <1>0, <1>16 DEF FlushWriteEffect, SameCalls, SameFrames, CallsIndexed, Idle, CallsPlaced, Writing
  <2> QED
    BY <2>1, <2>2, <2>3, <2>4, <2>5 DEF CallsSound
<1>17. ASSUME NEW f \in Frames, NEW p \in DeltaNumbers, FlushCleanEffect(f, p) PROVE CallsSound'
  <2>1. CallsPlaced'
    BY <1>0, <1>17 DEF FlushCleanEffect, SameCalls, SameFrames, CallsPlaced, Idle, Claiming, Writing
  <2>2. CallsFramed'
    BY <1>0, <1>17 DEF FlushCleanEffect, SameCalls, SameFrames, CallsFramed, Idle, Claiming, Writing
  <2>3. ClaimsOld'
    BY <1>0, <1>17 DEF FlushCleanEffect, SameCalls, SameFrames, ClaimsOld, Idle, Claiming, Writing,
       HoldersApart, HoldsFrame, CallsFramed
  <2>4. RecordsNew'
    <3>1. UNCHANGED <<nrecs, loc>> /\ \A x \in Chains : op'[x] = op[x]
      BY <1>0, <1>17 DEF FlushCleanEffect, SameCalls
    <3> QED
      BY <1>0, <3>1 DEF RecordsNew
  <2>5. CallsIndexed'
    BY <1>0, <1>17 DEF FlushCleanEffect, SameCalls, SameFrames, CallsIndexed, Idle, CallsPlaced, Writing
  <2> QED
    BY <2>1, <2>2, <2>3, <2>4, <2>5 DEF CallsSound
<1>18. CASE UNCHANGED deltaVars
  BY <1>0, <1>18 DEF CallsPlaced, CallsFramed, ClaimsOld, RecordsNew, CallsIndexed, Idle, Claiming, Writing,
     HoldersApart, HoldsFrame, CallsSound, deltaVars
<1> QED
  BY StepEffects, <1>1, <1>2, <1>3, <1>4, <1>5, <1>6, <1>7, <1>8, <1>9, <1>10, <1>11, <1>12, <1>13, <1>14,
     <1>15, <1>16, <1>17, <1>18 DEF Effects

-----------------------------------------------------------------------------
(* Holders of latches *)

\* A latch keeps one holder.
LEMMA HoldersKept ==
  ASSUME DeltaInv, [Next]_deltaVars
  PROVE  OneHolder'
<1>0. /\ Reader \in Owners /\ Reader \notin Chains /\ Chains \subseteq Owners
      /\ \A o \in Owners : o # Reader => o \in Chains
      /\ CallsPlaced /\ CallsFramed /\ ClaimsLatched /\ ReadLatched /\ FlushLatched /\ HoldersApart /\ FlushApart
      /\ (flush.at # "idle" => flush.f \in Frames)
  BY OwnersAre, FlushFields DEF DeltaInv, OneHolder, CallsSound
<1>1. ASSUME NEW c \in Chains, InsertEffect(c) PROVE OneHolder'
  <2>1. ClaimsLatched'
    BY <1>0, <1>1 DEF InsertEffect, SameCalls, SameFrames, ClaimsLatched, HoldsFrame, Idle, Claiming,
       HoldersApart, FlushApart, CallsPlaced, CallsFramed, Writing
  <2>2. ReadLatched'
    BY <1>0, <1>1 DEF InsertEffect, SameCalls, SameFrames, ReadLatched, HoldsFrame, Idle, Claiming,
       HoldersApart, FlushApart, CallsPlaced, CallsFramed, Writing
  <2>3. FlushLatched'
    BY <1>0, <1>1 DEF InsertEffect, SameCalls, SameFrames, FlushLatched, HoldsFrame, Idle, Claiming, FlushApart
  <2>4. HoldersApart'
    BY <1>0, <1>1 DEF InsertEffect, SameCalls, SameFrames, HoldersApart, HoldsFrame, Idle, Claiming,
       ClaimsLatched, ReadLatched, CallsPlaced, CallsFramed, Writing
  <2>5. FlushApart'
    BY <1>0, <1>1 DEF InsertEffect, SameCalls, SameFrames, FlushApart, HoldsFrame, Idle, Claiming,
       FlushLatched, ClaimsLatched, ReadLatched, CallsPlaced, CallsFramed, Writing
  <2> QED
    BY <2>1, <2>2, <2>3, <2>4, <2>5 DEF OneHolder
<1>2. ASSUME NEW c \in Chains, NEW f \in Frames, StoreEffect(c, f) PROVE OneHolder'
  <2>1. ClaimsLatched'
    BY <1>0, <1>2 DEF StoreEffect, SameCalls, SameFrames, ClaimsLatched, HoldsFrame, Idle, Claiming,
       HoldersApart, FlushApart, CallsPlaced, CallsFramed, Writing
  <2>2. ReadLatched'
    BY <1>0, <1>2 DEF StoreEffect, SameCalls, SameFrames, ReadLatched, HoldsFrame, Idle, Claiming,
       HoldersApart, FlushApart, CallsPlaced, CallsFramed, Writing
  <2>3. FlushLatched'
    BY <1>0, <1>2 DEF StoreEffect, SameCalls, SameFrames, FlushLatched, HoldsFrame, Idle, Claiming, FlushApart
  <2>4. HoldersApart'
    BY <1>0, <1>2 DEF StoreEffect, SameCalls, SameFrames, HoldersApart, HoldsFrame, Idle, Claiming,
       ClaimsLatched, ReadLatched, CallsPlaced, CallsFramed, Writing
  <2>5. FlushApart'
    BY <1>0, <1>2 DEF StoreEffect, SameCalls, SameFrames, FlushApart, HoldsFrame, Idle, Claiming, FlushLatched,
       ClaimsLatched, ReadLatched, CallsPlaced, CallsFramed, Writing
  <2> QED
    BY <2>1, <2>2, <2>3, <2>4, <2>5 DEF OneHolder
<1>3. ASSUME NEW c \in Chains, NEW f \in Frames, MarkEffect(c, f) PROVE OneHolder'
  <2>1. ClaimsLatched'
    BY <1>0, <1>3 DEF MarkEffect, SameCalls, SameFrames, ClaimsLatched, HoldsFrame, Idle, Claiming,
       HoldersApart, FlushApart, CallsPlaced, CallsFramed, Writing
  <2>2. ReadLatched'
    BY <1>0, <1>3 DEF MarkEffect, SameCalls, SameFrames, ReadLatched, HoldsFrame, Idle, Claiming, HoldersApart,
       FlushApart, CallsPlaced, CallsFramed, Writing
  <2>3. FlushLatched'
    BY <1>0, <1>3 DEF MarkEffect, SameCalls, SameFrames, FlushLatched, HoldsFrame, Idle, Claiming, FlushApart
  <2>4. HoldersApart'
    BY <1>0, <1>3 DEF MarkEffect, SameCalls, SameFrames, HoldersApart, HoldsFrame, Idle, Claiming,
       ClaimsLatched, ReadLatched, CallsPlaced, CallsFramed, Writing
  <2>5. FlushApart'
    BY <1>0, <1>3 DEF MarkEffect, SameCalls, SameFrames, FlushApart, HoldsFrame, Idle, Claiming, FlushLatched,
       ClaimsLatched, ReadLatched, CallsPlaced, CallsFramed, Writing
  <2> QED
    BY <2>1, <2>2, <2>3, <2>4, <2>5 DEF OneHolder
<1>4. ASSUME NEW c \in Chains, NEW f \in Frames, ReturnEffect(c, f) PROVE OneHolder'
  <2>1. ClaimsLatched'
    BY <1>0, <1>4 DEF ReturnEffect, SameCalls, SameFrames, ClaimsLatched, HoldsFrame, Idle, Claiming,
       HoldersApart, FlushApart, CallsPlaced, CallsFramed, Writing
  <2>2. ReadLatched'
    BY <1>0, <1>4 DEF ReturnEffect, SameCalls, SameFrames, ReadLatched, HoldsFrame, Idle, Claiming,
       HoldersApart, FlushApart, CallsPlaced, CallsFramed, Writing
  <2>3. FlushLatched'
    BY <1>0, <1>4 DEF ReturnEffect, SameCalls, SameFrames, FlushLatched, HoldsFrame, Idle, Claiming, FlushApart
  <2>4. HoldersApart'
    BY <1>0, <1>4 DEF ReturnEffect, SameCalls, SameFrames, HoldersApart, HoldsFrame, Idle, Claiming,
       ClaimsLatched, ReadLatched, CallsPlaced, CallsFramed, Writing
  <2>5. FlushApart'
    BY <1>0, <1>4 DEF ReturnEffect, SameCalls, SameFrames, FlushApart, HoldsFrame, Idle, Claiming,
       FlushLatched, ClaimsLatched, ReadLatched, CallsPlaced, CallsFramed, Writing
  <2> QED
    BY <2>1, <2>2, <2>3, <2>4, <2>5 DEF OneHolder
<1>5. ASSUME NEW c \in Chains, NEW f \in Frames, ReinitEffect(c, f) PROVE OneHolder'
  <2>1. ClaimsLatched'
    BY <1>0, <1>5 DEF ReinitEffect, SameCalls, SameFrames, ClaimsLatched, HoldsFrame, Idle, Claiming,
       HoldersApart, FlushApart, CallsPlaced, CallsFramed, Writing
  <2>2. ReadLatched'
    BY <1>0, <1>5 DEF ReinitEffect, SameCalls, SameFrames, ReadLatched, HoldsFrame, Idle, Claiming,
       HoldersApart, FlushApart, CallsPlaced, CallsFramed, Writing
  <2>3. FlushLatched'
    BY <1>0, <1>5 DEF ReinitEffect, SameCalls, SameFrames, FlushLatched, HoldsFrame, Idle, Claiming, FlushApart
  <2>4. HoldersApart'
    BY <1>0, <1>5 DEF ReinitEffect, SameCalls, SameFrames, HoldersApart, HoldsFrame, Idle, Claiming,
       ClaimsLatched, ReadLatched, CallsPlaced, CallsFramed, Writing
  <2>5. FlushApart'
    BY <1>0, <1>5 DEF ReinitEffect, SameCalls, SameFrames, FlushApart, HoldsFrame, Idle, Claiming,
       FlushLatched, ClaimsLatched, ReadLatched, CallsPlaced, CallsFramed, Writing
  <2> QED
    BY <2>1, <2>2, <2>3, <2>4, <2>5 DEF OneHolder
<1>6. ASSUME NEW c \in Chains, NEW f \in Frames, LinkEffect(c, f) PROVE OneHolder'
  <2>1. ClaimsLatched'
    BY <1>0, <1>6 DEF LinkEffect, SameCalls, SameFrames, ClaimsLatched, HoldsFrame, Idle, Claiming,
       HoldersApart, FlushApart, CallsPlaced, CallsFramed, Writing
  <2>2. ReadLatched'
    BY <1>0, <1>6 DEF LinkEffect, SameCalls, SameFrames, ReadLatched, HoldsFrame, Idle, Claiming, HoldersApart,
       FlushApart, CallsPlaced, CallsFramed, Writing
  <2>3. FlushLatched'
    BY <1>0, <1>6 DEF LinkEffect, SameCalls, SameFrames, FlushLatched, HoldsFrame, Idle, Claiming, FlushApart
  <2>4. HoldersApart'
    BY <1>0, <1>6 DEF LinkEffect, SameCalls, SameFrames, HoldersApart, HoldsFrame, Idle, Claiming,
       ClaimsLatched, ReadLatched, CallsPlaced, CallsFramed, Writing
  <2>5. FlushApart'
    BY <1>0, <1>6 DEF LinkEffect, SameCalls, SameFrames, FlushApart, HoldsFrame, Idle, Claiming, FlushLatched,
       ClaimsLatched, ReadLatched, CallsPlaced, CallsFramed, Writing
  <2> QED
    BY <2>1, <2>2, <2>3, <2>4, <2>5 DEF OneHolder
<1>7. ASSUME NEW c \in Chains, FetchEffect(c) PROVE OneHolder'
  <2>1. ClaimsLatched'
    BY <1>0, <1>7 DEF FetchEffect, SameCalls, SameFrames, ClaimsLatched, HoldsFrame, Idle, Claiming,
       HoldersApart, FlushApart, CallsPlaced, CallsFramed, Writing
  <2>2. ReadLatched'
    BY <1>0, <1>7 DEF FetchEffect, SameCalls, SameFrames, ReadLatched, HoldsFrame, Idle, Claiming,
       HoldersApart, FlushApart, CallsPlaced, CallsFramed, Writing
  <2>3. FlushLatched'
    BY <1>0, <1>7 DEF FetchEffect, SameCalls, SameFrames, FlushLatched, HoldsFrame, Idle, Claiming, FlushApart
  <2>4. HoldersApart'
    BY <1>0, <1>7 DEF FetchEffect, SameCalls, SameFrames, HoldersApart, HoldsFrame, Idle, Claiming,
       ClaimsLatched, ReadLatched, CallsPlaced, CallsFramed, Writing
  <2>5. FlushApart'
    BY <1>0, <1>7 DEF FetchEffect, SameCalls, SameFrames, FlushApart, HoldsFrame, Idle, Claiming, FlushLatched,
       ClaimsLatched, ReadLatched, CallsPlaced, CallsFramed, Writing
  <2> QED
    BY <2>1, <2>2, <2>3, <2>4, <2>5 DEF OneHolder
<1>8. ASSUME NEW o \in Owners, NEW f \in Frames, ClaimEffect(o, f) PROVE OneHolder'
  <2>1. ClaimsLatched'
    BY <1>0, <1>8 DEF ClaimEffect, SameCalls, SameFrames, ClaimsLatched, HoldsFrame, Idle, Claiming,
       HoldersApart, FlushApart, CallsPlaced, CallsFramed, Writing
  <2>2. ReadLatched'
    BY <1>0, <1>8 DEF ClaimEffect, SameCalls, SameFrames, ReadLatched, HoldsFrame, Idle, Claiming,
       HoldersApart, FlushApart, CallsPlaced, CallsFramed, Writing
  <2>3. FlushLatched'
    BY <1>0, <1>8 DEF ClaimEffect, SameCalls, SameFrames, FlushLatched, HoldsFrame, Idle, Claiming, FlushApart
  <2>4. HoldersApart'
    BY <1>0, <1>8 DEF ClaimEffect, SameCalls, SameFrames, HoldersApart, HoldsFrame, Idle, Claiming,
       ClaimsLatched, ReadLatched, CallsPlaced, CallsFramed, Writing
  <2>5. FlushApart'
    BY <1>0, <1>8 DEF ClaimEffect, SameCalls, SameFrames, FlushApart, HoldsFrame, Idle, Claiming, FlushLatched,
       ClaimsLatched, ReadLatched, CallsPlaced, CallsFramed, Writing
  <2> QED
    BY <2>1, <2>2, <2>3, <2>4, <2>5 DEF OneHolder
<1>9. ASSUME NEW o \in Owners, ThrowEffect(o) PROVE OneHolder'
  <2>1. ClaimsLatched'
    BY <1>0, <1>9 DEF ThrowEffect, SameCalls, SameFrames, ClaimsLatched, HoldsFrame, Idle, Claiming,
       HoldersApart, FlushApart, CallsPlaced, CallsFramed, Writing
  <2>2. ReadLatched'
    BY <1>0, <1>9 DEF ThrowEffect, SameCalls, SameFrames, ReadLatched, HoldsFrame, Idle, Claiming,
       HoldersApart, FlushApart, CallsPlaced, CallsFramed, Writing
  <2>3. FlushLatched'
    BY <1>0, <1>9 DEF ThrowEffect, SameCalls, SameFrames, FlushLatched, HoldsFrame, Idle, Claiming, FlushApart
  <2>4. HoldersApart'
    BY <1>0, <1>9 DEF ThrowEffect, SameCalls, SameFrames, HoldersApart, HoldsFrame, Idle, Claiming,
       ClaimsLatched, ReadLatched, CallsPlaced, CallsFramed, Writing
  <2>5. FlushApart'
    BY <1>0, <1>9 DEF ThrowEffect, SameCalls, SameFrames, FlushApart, HoldsFrame, Idle, Claiming, FlushLatched,
       ClaimsLatched, ReadLatched, CallsPlaced, CallsFramed, Writing
  <2> QED
    BY <2>1, <2>2, <2>3, <2>4, <2>5 DEF OneHolder
<1>10. ASSUME NEW o \in Owners, NEW f \in Frames, WriteBackEffect(o, f) PROVE OneHolder'
  <2>1. ClaimsLatched'
    BY <1>0, <1>10 DEF WriteBackEffect, SameCalls, SameFrames, ClaimsLatched, HoldsFrame, Idle, Claiming,
       HoldersApart, FlushApart, CallsPlaced, CallsFramed, Writing
  <2>2. ReadLatched'
    BY <1>0, <1>10 DEF WriteBackEffect, SameCalls, SameFrames, ReadLatched, HoldsFrame, Idle, Claiming,
       HoldersApart, FlushApart, CallsPlaced, CallsFramed, Writing
  <2>3. FlushLatched'
    BY <1>0, <1>10 DEF WriteBackEffect, SameCalls, SameFrames, FlushLatched, HoldsFrame, Idle, Claiming,
       FlushApart
  <2>4. HoldersApart'
    BY <1>0, <1>10 DEF WriteBackEffect, SameCalls, SameFrames, HoldersApart, HoldsFrame, Idle, Claiming,
       ClaimsLatched, ReadLatched, CallsPlaced, CallsFramed, Writing
  <2>5. FlushApart'
    BY <1>0, <1>10 DEF WriteBackEffect, SameCalls, SameFrames, FlushApart, HoldsFrame, Idle, Claiming,
       FlushLatched, ClaimsLatched, ReadLatched, CallsPlaced, CallsFramed, Writing
  <2> QED
    BY <2>1, <2>2, <2>3, <2>4, <2>5 DEF OneHolder
<1>11. ASSUME NEW r \in DOMAIN loc, NEW p \in DeltaNumbers, ReadEffect(r, p) PROVE OneHolder'
  <2>1. ClaimsLatched'
    BY <1>0, <1>11 DEF ReadEffect, SameCalls, SameFrames, ClaimsLatched, HoldsFrame, Idle, Claiming,
       HoldersApart, FlushApart, CallsPlaced, CallsFramed, Writing
  <2>2. ReadLatched'
    BY <1>0, <1>11 DEF ReadEffect, SameCalls, SameFrames, ReadLatched, HoldsFrame, Idle, Claiming,
       HoldersApart, FlushApart, CallsPlaced, CallsFramed, Writing
  <2>3. FlushLatched'
    BY <1>0, <1>11 DEF ReadEffect, SameCalls, SameFrames, FlushLatched, HoldsFrame, Idle, Claiming, FlushApart
  <2>4. HoldersApart'
    BY <1>0, <1>11 DEF ReadEffect, SameCalls, SameFrames, HoldersApart, HoldsFrame, Idle, Claiming,
       ClaimsLatched, ReadLatched, CallsPlaced, CallsFramed, Writing
  <2>5. FlushApart'
    BY <1>0, <1>11 DEF ReadEffect, SameCalls, SameFrames, FlushApart, HoldsFrame, Idle, Claiming, FlushLatched,
       ClaimsLatched, ReadLatched, CallsPlaced, CallsFramed, Writing
  <2> QED
    BY <2>1, <2>2, <2>3, <2>4, <2>5 DEF OneHolder
<1>12. ASSUME NEW f \in Frames, NEW p \in DeltaNumbers, FillEffect(f, p) PROVE OneHolder'
  <2>1. ClaimsLatched'
    BY <1>0, <1>12 DEF FillEffect, SameCalls, SameFrames, ClaimsLatched, HoldsFrame, Idle, Claiming,
       HoldersApart, FlushApart, CallsPlaced, CallsFramed, Writing
  <2>2. ReadLatched'
    BY <1>0, <1>12 DEF FillEffect, SameCalls, SameFrames, ReadLatched, HoldsFrame, Idle, Claiming,
       HoldersApart, FlushApart, CallsPlaced, CallsFramed, Writing
  <2>3. FlushLatched'
    BY <1>0, <1>12 DEF FillEffect, SameCalls, SameFrames, FlushLatched, HoldsFrame, Idle, Claiming, FlushApart
  <2>4. HoldersApart'
    BY <1>0, <1>12 DEF FillEffect, SameCalls, SameFrames, HoldersApart, HoldsFrame, Idle, Claiming,
       ClaimsLatched, ReadLatched, CallsPlaced, CallsFramed, Writing
  <2>5. FlushApart'
    BY <1>0, <1>12 DEF FillEffect, SameCalls, SameFrames, FlushApart, HoldsFrame, Idle, Claiming, FlushLatched,
       ClaimsLatched, ReadLatched, CallsPlaced, CallsFramed, Writing
  <2> QED
    BY <2>1, <2>2, <2>3, <2>4, <2>5 DEF OneHolder
<1>13. ASSUME NEW f \in Frames, NEW i \in Nat, ClearEffect(f, i) PROVE OneHolder'
  <2>1. ClaimsLatched'
    BY <1>0, <1>13 DEF ClearEffect, SameCalls, SameFrames, ClaimsLatched, HoldsFrame, Idle, Claiming,
       HoldersApart, FlushApart, CallsPlaced, CallsFramed, Writing
  <2>2. ReadLatched'
    BY <1>0, <1>13 DEF ClearEffect, SameCalls, SameFrames, ReadLatched, HoldsFrame, Idle, Claiming,
       HoldersApart, FlushApart, CallsPlaced, CallsFramed, Writing
  <2>3. FlushLatched'
    BY <1>0, <1>13 DEF ClearEffect, SameCalls, SameFrames, FlushLatched, HoldsFrame, Idle, Claiming, FlushApart
  <2>4. HoldersApart'
    BY <1>0, <1>13 DEF ClearEffect, SameCalls, SameFrames, HoldersApart, HoldsFrame, Idle, Claiming,
       ClaimsLatched, ReadLatched, CallsPlaced, CallsFramed, Writing
  <2>5. FlushApart'
    BY <1>0, <1>13 DEF ClearEffect, SameCalls, SameFrames, FlushApart, HoldsFrame, Idle, Claiming,
       FlushLatched, ClaimsLatched, ReadLatched, CallsPlaced, CallsFramed, Writing
  <2> QED
    BY <2>1, <2>2, <2>3, <2>4, <2>5 DEF OneHolder
<1>14. ASSUME NEW f \in Frames, UnlatchEffect(f) PROVE OneHolder'
  <2>1. ClaimsLatched'
    BY <1>0, <1>14 DEF UnlatchEffect, SameCalls, SameFrames, ClaimsLatched, HoldsFrame, Idle, Claiming,
       HoldersApart, FlushApart, CallsPlaced, CallsFramed, Writing
  <2>2. ReadLatched'
    BY <1>0, <1>14 DEF UnlatchEffect, SameCalls, SameFrames, ReadLatched, HoldsFrame, Idle, Claiming,
       HoldersApart, FlushApart, CallsPlaced, CallsFramed, Writing
  <2>3. FlushLatched'
    BY <1>0, <1>14 DEF UnlatchEffect, SameCalls, SameFrames, FlushLatched, HoldsFrame, Idle, Claiming,
       FlushApart
  <2>4. HoldersApart'
    BY <1>0, <1>14 DEF UnlatchEffect, SameCalls, SameFrames, HoldersApart, HoldsFrame, Idle, Claiming,
       ClaimsLatched, ReadLatched, CallsPlaced, CallsFramed, Writing
  <2>5. FlushApart'
    BY <1>0, <1>14 DEF UnlatchEffect, SameCalls, SameFrames, FlushApart, HoldsFrame, Idle, Claiming,
       FlushLatched, ClaimsLatched, ReadLatched, CallsPlaced, CallsFramed, Writing
  <2> QED
    BY <2>1, <2>2, <2>3, <2>4, <2>5 DEF OneHolder
<1>15. ASSUME NEW f \in Frames, FlushLatchEffect(f) PROVE OneHolder'
  <2>1. ClaimsLatched'
    BY <1>0, <1>15 DEF FlushLatchEffect, SameCalls, SameFrames, ClaimsLatched, HoldsFrame, Idle, Claiming,
       HoldersApart, FlushApart, CallsPlaced, CallsFramed, Writing
  <2>2. ReadLatched'
    BY <1>0, <1>15 DEF FlushLatchEffect, SameCalls, SameFrames, ReadLatched, HoldsFrame, Idle, Claiming,
       HoldersApart, FlushApart, CallsPlaced, CallsFramed, Writing
  <2>3. FlushLatched'
    BY <1>0, <1>15 DEF FlushLatchEffect, SameCalls, SameFrames, FlushLatched, HoldsFrame, Idle, Claiming,
       FlushApart
  <2>4. HoldersApart'
    BY <1>0, <1>15 DEF FlushLatchEffect, SameCalls, SameFrames, HoldersApart, HoldsFrame, Idle, Claiming,
       ClaimsLatched, ReadLatched, CallsPlaced, CallsFramed, Writing
  <2>5. FlushApart'
    BY <1>0, <1>15 DEF FlushLatchEffect, SameCalls, SameFrames, FlushApart, HoldsFrame, Idle, Claiming,
       FlushLatched, ClaimsLatched, ReadLatched, CallsPlaced, CallsFramed, Writing
  <2> QED
    BY <2>1, <2>2, <2>3, <2>4, <2>5 DEF OneHolder
<1>16. ASSUME NEW f \in Frames, NEW p \in DeltaNumbers, FlushWriteEffect(f, p) PROVE OneHolder'
  <2>1. ClaimsLatched'
    BY <1>0, <1>16 DEF FlushWriteEffect, SameCalls, SameFrames, ClaimsLatched, HoldsFrame, Idle, Claiming,
       HoldersApart, FlushApart, CallsPlaced, CallsFramed, Writing
  <2>2. ReadLatched'
    BY <1>0, <1>16 DEF FlushWriteEffect, SameCalls, SameFrames, ReadLatched, HoldsFrame, Idle, Claiming,
       HoldersApart, FlushApart, CallsPlaced, CallsFramed, Writing
  <2>3. FlushLatched'
    BY <1>0, <1>16 DEF FlushWriteEffect, SameCalls, SameFrames, FlushLatched, HoldsFrame, Idle, Claiming,
       FlushApart
  <2>4. HoldersApart'
    BY <1>0, <1>16 DEF FlushWriteEffect, SameCalls, SameFrames, HoldersApart, HoldsFrame, Idle, Claiming,
       ClaimsLatched, ReadLatched, CallsPlaced, CallsFramed, Writing
  <2>5. FlushApart'
    BY <1>0, <1>16 DEF FlushWriteEffect, SameCalls, SameFrames, FlushApart, HoldsFrame, Idle, Claiming,
       FlushLatched, ClaimsLatched, ReadLatched, CallsPlaced, CallsFramed, Writing
  <2> QED
    BY <2>1, <2>2, <2>3, <2>4, <2>5 DEF OneHolder
<1>17. ASSUME NEW f \in Frames, NEW p \in DeltaNumbers, FlushCleanEffect(f, p) PROVE OneHolder'
  <2>1. ClaimsLatched'
    BY <1>0, <1>17 DEF FlushCleanEffect, SameCalls, SameFrames, ClaimsLatched, HoldsFrame, Idle, Claiming,
       HoldersApart, FlushApart, CallsPlaced, CallsFramed, Writing
  <2>2. ReadLatched'
    BY <1>0, <1>17 DEF FlushCleanEffect, SameCalls, SameFrames, ReadLatched, HoldsFrame, Idle, Claiming,
       HoldersApart, FlushApart, CallsPlaced, CallsFramed, Writing
  <2>3. FlushLatched'
    BY <1>0, <1>17 DEF FlushCleanEffect, SameCalls, SameFrames, FlushLatched, HoldsFrame, Idle, Claiming,
       FlushApart
  <2>4. HoldersApart'
    BY <1>0, <1>17 DEF FlushCleanEffect, SameCalls, SameFrames, HoldersApart, HoldsFrame, Idle, Claiming,
       ClaimsLatched, ReadLatched, CallsPlaced, CallsFramed, Writing
  <2>5. FlushApart'
    BY <1>0, <1>17 DEF FlushCleanEffect, SameCalls, SameFrames, FlushApart, HoldsFrame, Idle, Claiming,
       FlushLatched, ClaimsLatched, ReadLatched, CallsPlaced, CallsFramed, Writing
  <2> QED
    BY <2>1, <2>2, <2>3, <2>4, <2>5 DEF OneHolder
<1>18. CASE UNCHANGED deltaVars
  BY <1>0, <1>18 DEF ClaimsLatched, ReadLatched, FlushLatched, HoldersApart, FlushApart, HoldsFrame, Idle,
     Claiming, CallsPlaced, CallsFramed, Writing, OneHolder, deltaVars
<1> QED
  BY StepEffects, <1>1, <1>2, <1>3, <1>4, <1>5, <1>6, <1>7, <1>8, <1>9, <1>10, <1>11, <1>12, <1>13, <1>14,
     <1>15, <1>16, <1>17, <1>18 DEF Effects

-----------------------------------------------------------------------------
(* The page map *)

\* The map keeps exactly the pages in frames that no call replaces.
LEMMA MapKept ==
  ASSUME DeltaInv, [Next]_deltaVars
  PROVE  MapExact'
<1>0. /\ Reader \in Owners /\ Reader \notin Chains /\ Chains \subseteq Owners
      /\ \A o \in Owners : o # Reader => o \in Chains
      /\ (flush.at # "idle" => flush.f \in Frames)
      /\ CallsPlaced /\ CallsFramed /\ HoldersApart /\ FlushApart
      /\ ClaimsLatched /\ ReadLatched
      /\ MapHolds /\ FramesMapped /\ DirtyPaged /\ HeldPaged /\ HandsPaged /\ ReaderMisses /\ NumbersCounted /\ NumbersNew
      /\ NoFrame \notin Frames /\ map \in [DeltaNumbers -> Frames \cup {NoFrame}] /\ head \in [Chains -> Frames \cup {NoFrame}]
      /\ \A f \in Frames : frame[f].page \in 0 .. MaxPages
  BY OwnersAre, FlushFields, FrameFields DEF DeltaInv, CallsSound, OneHolder, MapExact, NumbersFresh,
     DeltaParameters, DeltaTypeOK
<1>1. ASSUME NEW c \in Chains, InsertEffect(c) PROVE MapExact'
  <2>1. MapHolds'
    BY <1>0, <1>1 DEF InsertEffect, SameCalls, SameFrames, MapHolds, Idle, Claiming, Replaced, HoldersApart,
       HoldsFrame, CallsFramed, NumbersNew, FramesMapped, ReaderMisses, Writing
  <2>2. FramesMapped'
    BY <1>0, <1>1 DEF InsertEffect, SameCalls, SameFrames, FramesMapped, Idle, Claiming, Replaced,
       HoldersApart, HoldsFrame, NumbersNew, CallsFramed, Writing, MapHolds, ReaderMisses
  <2>3. DirtyPaged'
    BY <1>0, <1>1 DEF InsertEffect, SameCalls, SameFrames, DirtyPaged, HandsPaged, InHand, CallsFramed,
       HeldPaged, DeltaNumbers
  <2>4. HeldPaged'
    BY <1>0, <1>1 DEF InsertEffect, SameCalls, SameFrames, HeldPaged, HoldersApart, HoldsFrame, FlushApart,
       DirtyPaged, Claiming, CallsPlaced, CallsFramed, Writing, Idle, MapHolds, DeltaNumbers
  <2>5. HandsPaged'
    BY <1>0, <1>1 DEF InsertEffect, SameCalls, SameFrames, HandsPaged, InHand, DeltaNumbers, CallsFramed,
       Writing, Idle
  <2>6. ReaderMisses'
    BY <1>0, <1>1 DEF InsertEffect, SameCalls, SameFrames, ReaderMisses, Idle, Claiming, NumbersNew,
       CallsPlaced, Writing, DeltaNumbers
  <2> QED
    BY <2>1, <2>2, <2>3, <2>4, <2>5, <2>6 DEF MapExact
<1>2. ASSUME NEW c \in Chains, NEW f \in Frames, StoreEffect(c, f) PROVE MapExact'
  <2>1. MapHolds'
    BY <1>0, <1>2 DEF StoreEffect, SameCalls, SameFrames, MapHolds, Idle, Claiming, Replaced, HoldersApart,
       HoldsFrame, CallsFramed, NumbersNew, FramesMapped, ReaderMisses, Writing
  <2>2. FramesMapped'
    BY <1>0, <1>2 DEF StoreEffect, SameCalls, SameFrames, FramesMapped, Idle, Claiming, Replaced, HoldersApart,
       HoldsFrame, NumbersNew, CallsFramed, Writing, MapHolds, ReaderMisses
  <2>3. DirtyPaged'
    BY <1>0, <1>2 DEF StoreEffect, SameCalls, SameFrames, DirtyPaged, HandsPaged, InHand, CallsFramed,
       HeldPaged, DeltaNumbers
  <2>4. HeldPaged'
    BY <1>0, <1>2 DEF StoreEffect, SameCalls, SameFrames, HeldPaged, HoldersApart, HoldsFrame, FlushApart,
       DirtyPaged, Claiming, CallsPlaced, CallsFramed, Writing, Idle, MapHolds, DeltaNumbers
  <2>5. HandsPaged'
    BY <1>0, <1>2 DEF StoreEffect, SameCalls, SameFrames, HandsPaged, InHand, DeltaNumbers, CallsFramed,
       Writing, Idle
  <2>6. ReaderMisses'
    BY <1>0, <1>2 DEF StoreEffect, SameCalls, SameFrames, ReaderMisses, Idle, Claiming, NumbersNew,
       CallsPlaced, Writing, DeltaNumbers
  <2> QED
    BY <2>1, <2>2, <2>3, <2>4, <2>5, <2>6 DEF MapExact
<1>3. ASSUME NEW c \in Chains, NEW f \in Frames, MarkEffect(c, f) PROVE MapExact'
  <2>1. MapHolds'
    BY <1>0, <1>3 DEF MarkEffect, SameCalls, SameFrames, MapHolds, Idle, Claiming, Replaced, HoldersApart,
       HoldsFrame, CallsFramed, NumbersNew, FramesMapped, ReaderMisses, Writing
  <2>2. FramesMapped'
    BY <1>0, <1>3 DEF MarkEffect, SameCalls, SameFrames, FramesMapped, Idle, Claiming, Replaced, HoldersApart,
       HoldsFrame, NumbersNew, CallsFramed, Writing, MapHolds, ReaderMisses
  <2>3. DirtyPaged'
    BY <1>0, <1>3 DEF MarkEffect, SameCalls, SameFrames, DirtyPaged, HandsPaged, InHand, CallsFramed,
       HeldPaged, DeltaNumbers
  <2>4. HeldPaged'
    BY <1>0, <1>3 DEF MarkEffect, SameCalls, SameFrames, HeldPaged, HoldersApart, HoldsFrame, FlushApart,
       DirtyPaged, Claiming, CallsPlaced, CallsFramed, Writing, Idle, MapHolds, DeltaNumbers
  <2>5. HandsPaged'
    BY <1>0, <1>3 DEF MarkEffect, SameCalls, SameFrames, HandsPaged, InHand, DeltaNumbers, CallsFramed,
       Writing, Idle
  <2>6. ReaderMisses'
    BY <1>0, <1>3 DEF MarkEffect, SameCalls, SameFrames, ReaderMisses, Idle, Claiming, NumbersNew, CallsPlaced,
       Writing, DeltaNumbers
  <2> QED
    BY <2>1, <2>2, <2>3, <2>4, <2>5, <2>6 DEF MapExact
<1>4. ASSUME NEW c \in Chains, NEW f \in Frames, ReturnEffect(c, f) PROVE MapExact'
  <2>1. MapHolds'
    BY <1>0, <1>4 DEF ReturnEffect, SameCalls, SameFrames, MapHolds, Idle, Claiming, Replaced, HoldersApart,
       HoldsFrame, CallsFramed, NumbersNew, FramesMapped, ReaderMisses, Writing
  <2>2. FramesMapped'
    BY <1>0, <1>4 DEF ReturnEffect, SameCalls, SameFrames, FramesMapped, Idle, Claiming, Replaced,
       HoldersApart, HoldsFrame, NumbersNew, CallsFramed, Writing, MapHolds, ReaderMisses
  <2>3. DirtyPaged'
    BY <1>0, <1>4 DEF ReturnEffect, SameCalls, SameFrames, DirtyPaged, HandsPaged, InHand, CallsFramed,
       HeldPaged, DeltaNumbers
  <2>4. HeldPaged'
    BY <1>0, <1>4 DEF ReturnEffect, SameCalls, SameFrames, HeldPaged, HoldersApart, HoldsFrame, FlushApart,
       DirtyPaged, Claiming, CallsPlaced, CallsFramed, Writing, Idle, MapHolds, DeltaNumbers
  <2>5. HandsPaged'
    BY <1>0, <1>4 DEF ReturnEffect, SameCalls, SameFrames, HandsPaged, InHand, DeltaNumbers, CallsFramed,
       Writing, Idle
  <2>6. ReaderMisses'
    BY <1>0, <1>4 DEF ReturnEffect, SameCalls, SameFrames, ReaderMisses, Idle, Claiming, NumbersNew,
       CallsPlaced, Writing, DeltaNumbers
  <2> QED
    BY <2>1, <2>2, <2>3, <2>4, <2>5, <2>6 DEF MapExact
<1>5. ASSUME NEW c \in Chains, NEW f \in Frames, ReinitEffect(c, f) PROVE MapExact'
  <2>1. MapHolds'
    BY <1>0, <1>5 DEF ReinitEffect, SameCalls, SameFrames, MapHolds, Idle, Claiming, Replaced, HoldersApart,
       HoldsFrame, CallsFramed, NumbersNew, FramesMapped, ReaderMisses, Writing
  <2>2. FramesMapped'
    BY <1>0, <1>5 DEF ReinitEffect, SameCalls, SameFrames, FramesMapped, Idle, Claiming, Replaced,
       HoldersApart, HoldsFrame, NumbersNew, CallsFramed, Writing, MapHolds, ReaderMisses
  <2>3. DirtyPaged'
    BY <1>0, <1>5 DEF ReinitEffect, SameCalls, SameFrames, DirtyPaged, HandsPaged, InHand, CallsFramed,
       HeldPaged, DeltaNumbers
  <2>4. HeldPaged'
    BY <1>0, <1>5 DEF ReinitEffect, SameCalls, SameFrames, HeldPaged, HoldersApart, HoldsFrame, FlushApart,
       DirtyPaged, Claiming, CallsPlaced, CallsFramed, Writing, Idle, MapHolds, DeltaNumbers
  <2>5. HandsPaged'
    BY <1>0, <1>5 DEF ReinitEffect, SameCalls, SameFrames, HandsPaged, InHand, DeltaNumbers, CallsFramed,
       Writing, Idle
  <2>6. ReaderMisses'
    BY <1>0, <1>5 DEF ReinitEffect, SameCalls, SameFrames, ReaderMisses, Idle, Claiming, NumbersNew,
       CallsPlaced, Writing, DeltaNumbers
  <2> QED
    BY <2>1, <2>2, <2>3, <2>4, <2>5, <2>6 DEF MapExact
<1>6. ASSUME NEW c \in Chains, NEW f \in Frames, LinkEffect(c, f) PROVE MapExact'
  <2>1. MapHolds'
    BY <1>0, <1>6 DEF LinkEffect, SameCalls, SameFrames, MapHolds, Idle, Claiming, Replaced, HoldersApart,
       HoldsFrame, CallsFramed, NumbersNew, FramesMapped, ReaderMisses, Writing
  <2>2. FramesMapped'
    BY <1>0, <1>6 DEF LinkEffect, SameCalls, SameFrames, FramesMapped, Idle, Claiming, Replaced, HoldersApart,
       HoldsFrame, NumbersNew, CallsFramed, Writing, MapHolds, ReaderMisses
  <2>3. DirtyPaged'
    BY <1>0, <1>6 DEF LinkEffect, SameCalls, SameFrames, DirtyPaged, HandsPaged, InHand, CallsFramed,
       HeldPaged, DeltaNumbers
  <2>4. HeldPaged'
    BY <1>0, <1>6 DEF LinkEffect, SameCalls, SameFrames, HeldPaged, HoldersApart, HoldsFrame, FlushApart,
       DirtyPaged, Claiming, CallsPlaced, CallsFramed, Writing, Idle, MapHolds, DeltaNumbers
  <2>5. HandsPaged'
    BY <1>0, <1>6 DEF LinkEffect, SameCalls, SameFrames, HandsPaged, InHand, DeltaNumbers, CallsFramed,
       Writing, Idle
  <2>6. ReaderMisses'
    BY <1>0, <1>6 DEF LinkEffect, SameCalls, SameFrames, ReaderMisses, Idle, Claiming, NumbersNew, CallsPlaced,
       Writing, DeltaNumbers
  <2> QED
    BY <2>1, <2>2, <2>3, <2>4, <2>5, <2>6 DEF MapExact
<1>7. ASSUME NEW c \in Chains, FetchEffect(c) PROVE MapExact'
  <2>1. MapHolds'
    BY <1>0, <1>7 DEF FetchEffect, SameCalls, SameFrames, MapHolds, Idle, Claiming, Replaced, HoldersApart,
       HoldsFrame, CallsFramed, NumbersNew, FramesMapped, ReaderMisses, Writing
  <2>2. FramesMapped'
    BY <1>0, <1>7 DEF FetchEffect, SameCalls, SameFrames, FramesMapped, Idle, Claiming, Replaced, HoldersApart,
       HoldsFrame, NumbersNew, CallsFramed, Writing, MapHolds, ReaderMisses
  <2>3. DirtyPaged'
    BY <1>0, <1>7 DEF FetchEffect, SameCalls, SameFrames, DirtyPaged, HandsPaged, InHand, CallsFramed,
       HeldPaged, DeltaNumbers
  <2>4. HeldPaged'
    BY <1>0, <1>7 DEF FetchEffect, SameCalls, SameFrames, HeldPaged, HoldersApart, HoldsFrame, FlushApart,
       DirtyPaged, Claiming, CallsPlaced, CallsFramed, Writing, Idle, MapHolds, DeltaNumbers
  <2>5. HandsPaged'
    BY <1>0, <1>7 DEF FetchEffect, SameCalls, SameFrames, HandsPaged, InHand, DeltaNumbers, CallsFramed,
       Writing, Idle
  <2>6. ReaderMisses'
    BY <1>0, <1>7 DEF FetchEffect, SameCalls, SameFrames, ReaderMisses, Idle, Claiming, NumbersNew,
       CallsPlaced, Writing, DeltaNumbers
  <2> QED
    BY <2>1, <2>2, <2>3, <2>4, <2>5, <2>6 DEF MapExact
<1>8. ASSUME NEW o \in Owners, NEW f \in Frames, ClaimEffect(o, f) PROVE MapExact'
  <2>1. MapHolds'
    <3>1. \A x \in Owners \ {o} : op'[x] = op[x]
      BY <1>8 DEF ClaimEffect, SameCalls
    <3>2. \A g \in Frames : frame'[g].page = frame[g].page
      BY <1>8 DEF ClaimEffect, SameFrames
    <3>3. op'[o].f = f /\ op'[o].at = "write" /\ op[o].at = "claim"
      BY <1>8 DEF ClaimEffect
    <3>4. ~Replaced(f)
      BY <1>0, <1>8 DEF ClaimEffect, Replaced, ClaimsLatched
    <3>5. \A g \in Frames : Replaced(g)' <=> Replaced(g) \/ g = f
      BY <3>1, <3>3 DEF Replaced, Claiming
    <3>6. PICK q : q = frame[f].page
      OBVIOUS
    <3>7. q \in 0 .. MaxPages /\ map' = IF q = 0 THEN map ELSE [map EXCEPT ![q] = NoFrame]
      BY <1>0, <1>8, <3>6 DEF ClaimEffect
    <3>8. \A p \in DeltaNumbers : map'[p] # NoFrame => map'[p] = map[p] /\ p # q /\ map[p] \in Frames
      BY <1>0, <3>7 DEF DeltaNumbers
    <3> QED
      BY <1>0, <3>2, <3>5, <3>6, <3>8 DEF MapHolds
  <2>2. FramesMapped'
    <3>1. \A x \in Owners \ {o} : op'[x] = op[x]
      BY <1>8 DEF ClaimEffect, SameCalls
    <3>2. \A g \in Frames : frame'[g].page = frame[g].page
      BY <1>8 DEF ClaimEffect, SameFrames
    <3>3. op'[o].f = f /\ op'[o].at = "write" /\ op[o].at = "claim"
      BY <1>8 DEF ClaimEffect
    <3>4. ~Replaced(f)
      BY <1>0, <1>8 DEF ClaimEffect, Replaced, ClaimsLatched
    <3>5. \A g \in Frames : Replaced(g)' <=> Replaced(g) \/ g = f
      BY <3>1, <3>3 DEF Replaced, Claiming
    <3>6. PICK q : q = frame[f].page
      OBVIOUS
    <3>7. q \in 0 .. MaxPages /\ map' = IF q = 0 THEN map ELSE [map EXCEPT ![q] = NoFrame]
      BY <1>0, <1>8, <3>6 DEF ClaimEffect
    <3>8. \A p \in DeltaNumbers : p # q => map'[p] = map[p]
      BY <1>0, <3>7 DEF DeltaNumbers
    <3>9. \A g \in Frames : frame[g].page # 0 /\ ~Replaced(g) /\ g # f => frame[g].page # q
      BY <1>0, <3>4, <3>6 DEF FramesMapped
    <3> QED
      BY <1>0, <3>2, <3>5, <3>8, <3>9 DEF FramesMapped, DeltaNumbers
  <2>3. DirtyPaged'
    BY <1>0, <1>8 DEF ClaimEffect, SameCalls, SameFrames, DirtyPaged, HandsPaged, InHand, CallsFramed,
       HeldPaged, DeltaNumbers
  <2>4. HeldPaged'
    BY <1>0, <1>8 DEF ClaimEffect, SameCalls, SameFrames, HeldPaged, HoldersApart, HoldsFrame, FlushApart,
       DirtyPaged, Claiming, CallsPlaced, CallsFramed, Writing, Idle, MapHolds, DeltaNumbers
  <2>5. HandsPaged'
    BY <1>0, <1>8 DEF ClaimEffect, SameCalls, SameFrames, HandsPaged, InHand, DeltaNumbers, CallsFramed,
       Writing, Idle
  <2>6. ReaderMisses'
    BY <1>0, <1>8 DEF ClaimEffect, SameCalls, SameFrames, ReaderMisses, Idle, Claiming, NumbersNew,
       CallsPlaced, Writing, DeltaNumbers
  <2> QED
    BY <2>1, <2>2, <2>3, <2>4, <2>5, <2>6 DEF MapExact
<1>9. ASSUME NEW o \in Owners, ThrowEffect(o) PROVE MapExact'
  <2>1. MapHolds'
    BY <1>0, <1>9 DEF ThrowEffect, SameCalls, SameFrames, MapHolds, Idle, Claiming, Replaced, HoldersApart,
       HoldsFrame, CallsFramed, NumbersNew, FramesMapped, ReaderMisses, Writing
  <2>2. FramesMapped'
    BY <1>0, <1>9 DEF ThrowEffect, SameCalls, SameFrames, FramesMapped, Idle, Claiming, Replaced, HoldersApart,
       HoldsFrame, NumbersNew, CallsFramed, Writing, MapHolds, ReaderMisses
  <2>3. DirtyPaged'
    BY <1>0, <1>9 DEF ThrowEffect, SameCalls, SameFrames, DirtyPaged, HandsPaged, InHand, CallsFramed,
       HeldPaged, DeltaNumbers
  <2>4. HeldPaged'
    BY <1>0, <1>9 DEF ThrowEffect, SameCalls, SameFrames, HeldPaged, HoldersApart, HoldsFrame, FlushApart,
       DirtyPaged, Claiming, CallsPlaced, CallsFramed, Writing, Idle, MapHolds, DeltaNumbers
  <2>5. HandsPaged'
    BY <1>0, <1>9 DEF ThrowEffect, SameCalls, SameFrames, HandsPaged, InHand, DeltaNumbers, CallsFramed,
       Writing, Idle
  <2>6. ReaderMisses'
    BY <1>0, <1>9 DEF ThrowEffect, SameCalls, SameFrames, ReaderMisses, Idle, Claiming, NumbersNew,
       CallsPlaced, Writing, DeltaNumbers
  <2> QED
    BY <2>1, <2>2, <2>3, <2>4, <2>5, <2>6 DEF MapExact
<1>10. ASSUME NEW o \in Owners, NEW f \in Frames, WriteBackEffect(o, f) PROVE MapExact'
  <2>1. MapHolds'
    BY <1>0, <1>10 DEF WriteBackEffect, SameCalls, SameFrames, MapHolds, Idle, Claiming, Replaced,
       HoldersApart, HoldsFrame, CallsFramed, NumbersNew, FramesMapped, ReaderMisses, Writing
  <2>2. FramesMapped'
    BY <1>0, <1>10 DEF WriteBackEffect, SameCalls, SameFrames, FramesMapped, Idle, Claiming, Replaced,
       HoldersApart, HoldsFrame, NumbersNew, CallsFramed, Writing, MapHolds, ReaderMisses
  <2>3. DirtyPaged'
    BY <1>0, <1>10 DEF WriteBackEffect, SameCalls, SameFrames, DirtyPaged, HandsPaged, InHand, CallsFramed,
       HeldPaged, DeltaNumbers
  <2>4. HeldPaged'
    BY <1>0, <1>10 DEF WriteBackEffect, SameCalls, SameFrames, HeldPaged, HoldersApart, HoldsFrame, FlushApart,
       DirtyPaged, Claiming, CallsPlaced, CallsFramed, Writing, Idle, MapHolds, DeltaNumbers
  <2>5. HandsPaged'
    BY <1>0, <1>10 DEF WriteBackEffect, SameCalls, SameFrames, HandsPaged, InHand, DeltaNumbers, CallsFramed,
       Writing, Idle
  <2>6. ReaderMisses'
    BY <1>0, <1>10 DEF WriteBackEffect, SameCalls, SameFrames, ReaderMisses, Idle, Claiming, NumbersNew,
       CallsPlaced, Writing, DeltaNumbers
  <2> QED
    BY <2>1, <2>2, <2>3, <2>4, <2>5, <2>6 DEF MapExact
<1>11. ASSUME NEW r \in DOMAIN loc, NEW p \in DeltaNumbers, ReadEffect(r, p) PROVE MapExact'
  <2>1. MapHolds'
    BY <1>0, <1>11 DEF ReadEffect, SameCalls, SameFrames, MapHolds, Idle, Claiming, Replaced, HoldersApart,
       HoldsFrame, CallsFramed, NumbersNew, FramesMapped, ReaderMisses, Writing
  <2>2. FramesMapped'
    BY <1>0, <1>11 DEF ReadEffect, SameCalls, SameFrames, FramesMapped, Idle, Claiming, Replaced, HoldersApart,
       HoldsFrame, NumbersNew, CallsFramed, Writing, MapHolds, ReaderMisses
  <2>3. DirtyPaged'
    BY <1>0, <1>11 DEF ReadEffect, SameCalls, SameFrames, DirtyPaged, HandsPaged, InHand, CallsFramed,
       HeldPaged, DeltaNumbers
  <2>4. HeldPaged'
    BY <1>0, <1>11 DEF ReadEffect, SameCalls, SameFrames, HeldPaged, HoldersApart, HoldsFrame, FlushApart,
       DirtyPaged, Claiming, CallsPlaced, CallsFramed, Writing, Idle, MapHolds, DeltaNumbers
  <2>5. HandsPaged'
    BY <1>0, <1>11 DEF ReadEffect, SameCalls, SameFrames, HandsPaged, InHand, DeltaNumbers, CallsFramed,
       Writing, Idle
  <2>6. ReaderMisses'
    BY <1>0, <1>11 DEF ReadEffect, SameCalls, SameFrames, ReaderMisses, Idle, Claiming, NumbersNew,
       CallsPlaced, Writing, DeltaNumbers
  <2> QED
    BY <2>1, <2>2, <2>3, <2>4, <2>5, <2>6 DEF MapExact
<1>12. ASSUME NEW f \in Frames, NEW p \in DeltaNumbers, FillEffect(f, p) PROVE MapExact'
  <2>1. MapHolds'
    BY <1>0, <1>12 DEF FillEffect, SameCalls, SameFrames, MapHolds, Idle, Claiming, Replaced, HoldersApart,
       HoldsFrame, CallsFramed, NumbersNew, FramesMapped, ReaderMisses, Writing
  <2>2. FramesMapped'
    BY <1>0, <1>12 DEF FillEffect, SameCalls, SameFrames, FramesMapped, Idle, Claiming, Replaced, HoldersApart,
       HoldsFrame, NumbersNew, CallsFramed, Writing, MapHolds, ReaderMisses
  <2>3. DirtyPaged'
    BY <1>0, <1>12 DEF FillEffect, SameCalls, SameFrames, DirtyPaged, HandsPaged, InHand, CallsFramed,
       HeldPaged, DeltaNumbers
  <2>4. HeldPaged'
    BY <1>0, <1>12 DEF FillEffect, SameCalls, SameFrames, HeldPaged, HoldersApart, HoldsFrame, FlushApart,
       DirtyPaged, Claiming, CallsPlaced, CallsFramed, Writing, Idle, MapHolds, DeltaNumbers
  <2>5. HandsPaged'
    BY <1>0, <1>12 DEF FillEffect, SameCalls, SameFrames, HandsPaged, InHand, DeltaNumbers, CallsFramed,
       Writing, Idle
  <2>6. ReaderMisses'
    BY <1>0, <1>12 DEF FillEffect, SameCalls, SameFrames, ReaderMisses, Idle, Claiming, NumbersNew,
       CallsPlaced, Writing, DeltaNumbers
  <2> QED
    BY <2>1, <2>2, <2>3, <2>4, <2>5, <2>6 DEF MapExact
<1>13. ASSUME NEW f \in Frames, NEW i \in Nat, ClearEffect(f, i) PROVE MapExact'
  <2>1. MapHolds'
    BY <1>0, <1>13 DEF ClearEffect, SameCalls, SameFrames, MapHolds, Idle, Claiming, Replaced, HoldersApart,
       HoldsFrame, CallsFramed, NumbersNew, FramesMapped, ReaderMisses, Writing
  <2>2. FramesMapped'
    BY <1>0, <1>13 DEF ClearEffect, SameCalls, SameFrames, FramesMapped, Idle, Claiming, Replaced,
       HoldersApart, HoldsFrame, NumbersNew, CallsFramed, Writing, MapHolds, ReaderMisses
  <2>3. DirtyPaged'
    BY <1>0, <1>13 DEF ClearEffect, SameCalls, SameFrames, DirtyPaged, HandsPaged, InHand, CallsFramed,
       HeldPaged, DeltaNumbers
  <2>4. HeldPaged'
    BY <1>0, <1>13 DEF ClearEffect, SameCalls, SameFrames, HeldPaged, HoldersApart, HoldsFrame, FlushApart,
       DirtyPaged, Claiming, CallsPlaced, CallsFramed, Writing, Idle, MapHolds, DeltaNumbers
  <2>5. HandsPaged'
    BY <1>0, <1>13 DEF ClearEffect, SameCalls, SameFrames, HandsPaged, InHand, DeltaNumbers, CallsFramed,
       Writing, Idle
  <2>6. ReaderMisses'
    BY <1>0, <1>13 DEF ClearEffect, SameCalls, SameFrames, ReaderMisses, Idle, Claiming, NumbersNew,
       CallsPlaced, Writing, DeltaNumbers
  <2> QED
    BY <2>1, <2>2, <2>3, <2>4, <2>5, <2>6 DEF MapExact
<1>14. ASSUME NEW f \in Frames, UnlatchEffect(f) PROVE MapExact'
  <2>1. MapHolds'
    BY <1>0, <1>14 DEF UnlatchEffect, SameCalls, SameFrames, MapHolds, Idle, Claiming, Replaced, HoldersApart,
       HoldsFrame, CallsFramed, NumbersNew, FramesMapped, ReaderMisses, Writing
  <2>2. FramesMapped'
    BY <1>0, <1>14 DEF UnlatchEffect, SameCalls, SameFrames, FramesMapped, Idle, Claiming, Replaced,
       HoldersApart, HoldsFrame, NumbersNew, CallsFramed, Writing, MapHolds, ReaderMisses
  <2>3. DirtyPaged'
    BY <1>0, <1>14 DEF UnlatchEffect, SameCalls, SameFrames, DirtyPaged, HandsPaged, InHand, CallsFramed,
       HeldPaged, DeltaNumbers
  <2>4. HeldPaged'
    BY <1>0, <1>14 DEF UnlatchEffect, SameCalls, SameFrames, HeldPaged, HoldersApart, HoldsFrame, FlushApart,
       DirtyPaged, Claiming, CallsPlaced, CallsFramed, Writing, Idle, MapHolds, DeltaNumbers
  <2>5. HandsPaged'
    BY <1>0, <1>14 DEF UnlatchEffect, SameCalls, SameFrames, HandsPaged, InHand, DeltaNumbers, CallsFramed,
       Writing, Idle
  <2>6. ReaderMisses'
    BY <1>0, <1>14 DEF UnlatchEffect, SameCalls, SameFrames, ReaderMisses, Idle, Claiming, NumbersNew,
       CallsPlaced, Writing, DeltaNumbers
  <2> QED
    BY <2>1, <2>2, <2>3, <2>4, <2>5, <2>6 DEF MapExact
<1>15. ASSUME NEW f \in Frames, FlushLatchEffect(f) PROVE MapExact'
  <2>1. MapHolds'
    BY <1>0, <1>15 DEF FlushLatchEffect, SameCalls, SameFrames, MapHolds, Idle, Claiming, Replaced,
       HoldersApart, HoldsFrame, CallsFramed, NumbersNew, FramesMapped, ReaderMisses, Writing
  <2>2. FramesMapped'
    BY <1>0, <1>15 DEF FlushLatchEffect, SameCalls, SameFrames, FramesMapped, Idle, Claiming, Replaced,
       HoldersApart, HoldsFrame, NumbersNew, CallsFramed, Writing, MapHolds, ReaderMisses
  <2>3. DirtyPaged'
    BY <1>0, <1>15 DEF FlushLatchEffect, SameCalls, SameFrames, DirtyPaged, HandsPaged, InHand, CallsFramed,
       HeldPaged, DeltaNumbers
  <2>4. HeldPaged'
    BY <1>0, <1>15 DEF FlushLatchEffect, SameCalls, SameFrames, HeldPaged, HoldersApart, HoldsFrame,
       FlushApart, DirtyPaged, Claiming, CallsPlaced, CallsFramed, Writing, Idle, MapHolds, DeltaNumbers
  <2>5. HandsPaged'
    BY <1>0, <1>15 DEF FlushLatchEffect, SameCalls, SameFrames, HandsPaged, InHand, DeltaNumbers, CallsFramed,
       Writing, Idle
  <2>6. ReaderMisses'
    BY <1>0, <1>15 DEF FlushLatchEffect, SameCalls, SameFrames, ReaderMisses, Idle, Claiming, NumbersNew,
       CallsPlaced, Writing, DeltaNumbers
  <2> QED
    BY <2>1, <2>2, <2>3, <2>4, <2>5, <2>6 DEF MapExact
<1>16. ASSUME NEW f \in Frames, NEW p \in DeltaNumbers, FlushWriteEffect(f, p) PROVE MapExact'
  <2>1. MapHolds'
    BY <1>0, <1>16 DEF FlushWriteEffect, SameCalls, SameFrames, MapHolds, Idle, Claiming, Replaced,
       HoldersApart, HoldsFrame, CallsFramed, NumbersNew, FramesMapped, ReaderMisses, Writing
  <2>2. FramesMapped'
    BY <1>0, <1>16 DEF FlushWriteEffect, SameCalls, SameFrames, FramesMapped, Idle, Claiming, Replaced,
       HoldersApart, HoldsFrame, NumbersNew, CallsFramed, Writing, MapHolds, ReaderMisses
  <2>3. DirtyPaged'
    BY <1>0, <1>16 DEF FlushWriteEffect, SameCalls, SameFrames, DirtyPaged, HandsPaged, InHand, CallsFramed,
       HeldPaged, DeltaNumbers
  <2>4. HeldPaged'
    BY <1>0, <1>16 DEF FlushWriteEffect, SameCalls, SameFrames, HeldPaged, HoldersApart, HoldsFrame,
       FlushApart, DirtyPaged, Claiming, CallsPlaced, CallsFramed, Writing, Idle, MapHolds, DeltaNumbers
  <2>5. HandsPaged'
    BY <1>0, <1>16 DEF FlushWriteEffect, SameCalls, SameFrames, HandsPaged, InHand, DeltaNumbers, CallsFramed,
       Writing, Idle
  <2>6. ReaderMisses'
    BY <1>0, <1>16 DEF FlushWriteEffect, SameCalls, SameFrames, ReaderMisses, Idle, Claiming, NumbersNew,
       CallsPlaced, Writing, DeltaNumbers
  <2> QED
    BY <2>1, <2>2, <2>3, <2>4, <2>5, <2>6 DEF MapExact
<1>17. ASSUME NEW f \in Frames, NEW p \in DeltaNumbers, FlushCleanEffect(f, p) PROVE MapExact'
  <2>1. MapHolds'
    BY <1>0, <1>17 DEF FlushCleanEffect, SameCalls, SameFrames, MapHolds, Idle, Claiming, Replaced,
       HoldersApart, HoldsFrame, CallsFramed, NumbersNew, FramesMapped, ReaderMisses, Writing
  <2>2. FramesMapped'
    BY <1>0, <1>17 DEF FlushCleanEffect, SameCalls, SameFrames, FramesMapped, Idle, Claiming, Replaced,
       HoldersApart, HoldsFrame, NumbersNew, CallsFramed, Writing, MapHolds, ReaderMisses
  <2>3. DirtyPaged'
    BY <1>0, <1>17 DEF FlushCleanEffect, SameCalls, SameFrames, DirtyPaged, HandsPaged, InHand, CallsFramed,
       HeldPaged, DeltaNumbers
  <2>4. HeldPaged'
    BY <1>0, <1>17 DEF FlushCleanEffect, SameCalls, SameFrames, HeldPaged, HoldersApart, HoldsFrame,
       FlushApart, DirtyPaged, Claiming, CallsPlaced, CallsFramed, Writing, Idle, MapHolds, DeltaNumbers
  <2>5. HandsPaged'
    BY <1>0, <1>17 DEF FlushCleanEffect, SameCalls, SameFrames, HandsPaged, InHand, DeltaNumbers, CallsFramed,
       Writing, Idle
  <2>6. ReaderMisses'
    BY <1>0, <1>17 DEF FlushCleanEffect, SameCalls, SameFrames, ReaderMisses, Idle, Claiming, NumbersNew,
       CallsPlaced, Writing, DeltaNumbers
  <2> QED
    BY <2>1, <2>2, <2>3, <2>4, <2>5, <2>6 DEF MapExact
<1>18. CASE UNCHANGED deltaVars
  BY <1>0, <1>18 DEF MapHolds, FramesMapped, DirtyPaged, HeldPaged, HandsPaged, ReaderMisses, Idle, Claiming,
     Replaced, HoldersApart, HoldsFrame, CallsFramed, NumbersNew, Writing, InHand, DeltaNumbers, FlushApart,
     CallsPlaced, MapExact, deltaVars
<1> QED
  BY StepEffects, <1>1, <1>2, <1>3, <1>4, <1>5, <1>6, <1>7, <1>8, <1>9, <1>10, <1>11, <1>12, <1>13, <1>14,
     <1>15, <1>16, <1>17, <1>18 DEF Effects

-----------------------------------------------------------------------------
(* Page numbers *)

\* The number of a page in the making stays nobody else's.
LEMMA NumbersKept ==
  ASSUME DeltaInv, [Next]_deltaVars
  PROVE  NumbersFresh'
<1>0. /\ Reader \in Owners /\ Reader \notin Chains /\ Chains \subseteq Owners
      /\ \A o \in Owners : o # Reader => o \in Chains
      /\ (flush.at # "idle" => flush.f \in Frames)
      /\ CallsPlaced /\ CallsFramed /\ MapHolds /\ HandsPaged /\ HeldPaged /\ ReaderMisses
      /\ NumbersCounted /\ MapCounted /\ NumbersNew /\ NumbersApart /\ npages \in Nat
      /\ NoFrame \notin Frames /\ map \in [DeltaNumbers -> Frames \cup {NoFrame}]
      /\ (\A f \in Frames : frame[f].page \in 0 .. MaxPages) /\ \A r \in DOMAIN loc : loc[r].page \in DeltaNumbers
  BY OwnersAre, FlushFields, FrameFields DEF DeltaInv, CallsSound, OneHolder, MapExact, NumbersFresh,
     DeltaParameters, DeltaTypeOK
<1>a. \A o \in Owners : op[o].at # "idle" => op[o].page \in Nat
  BY <1>0, CallFields DEF DeltaInv, Call
<1>1. ASSUME NEW c \in Chains, InsertEffect(c) PROVE NumbersFresh'
  <2>1. NumbersCounted'
    BY <1>0, <1>1 DEF InsertEffect, SameCalls, SameFrames, NumbersCounted, Idle, DeltaNumbers, CallsPlaced,
       Writing
  <2>2. MapCounted'
    BY <1>0, <1>1 DEF InsertEffect, SameCalls, SameFrames, MapCounted, Idle, DeltaNumbers, NumbersCounted
  <2>3. NumbersNew'
    BY <1>0, <1>1 DEF InsertEffect, SameCalls, SameFrames, NumbersNew, Idle, DeltaNumbers, CallsPlaced,
       Writing, NumbersCounted, MapCounted, NumbersApart
  <2>4. NumbersApart'
    BY <1>0, <1>1 DEF InsertEffect, SameCalls, SameFrames, NumbersApart, Idle, NumbersCounted, CallsPlaced
  <2> QED
    BY <2>1, <2>2, <2>3, <2>4 DEF NumbersFresh
<1>2. ASSUME NEW c \in Chains, NEW f \in Frames, StoreEffect(c, f) PROVE NumbersFresh'
  <2>1. NumbersCounted'
    BY <1>0, <1>2 DEF StoreEffect, SameCalls, SameFrames, NumbersCounted, Idle, DeltaNumbers, CallsPlaced,
       Writing
  <2>2. MapCounted'
    BY <1>0, <1>2 DEF StoreEffect, SameCalls, SameFrames, MapCounted, Idle, DeltaNumbers, NumbersCounted
  <2>3. NumbersNew'
    BY <1>0, <1>2 DEF StoreEffect, SameCalls, SameFrames, NumbersNew, Idle, DeltaNumbers, CallsPlaced, Writing,
       NumbersCounted, MapCounted, NumbersApart
  <2>4. NumbersApart'
    BY <1>0, <1>2 DEF StoreEffect, SameCalls, SameFrames, NumbersApart, Idle, NumbersCounted, CallsPlaced
  <2> QED
    BY <2>1, <2>2, <2>3, <2>4 DEF NumbersFresh
<1>3. ASSUME NEW c \in Chains, NEW f \in Frames, MarkEffect(c, f) PROVE NumbersFresh'
  <2>1. NumbersCounted'
    BY <1>0, <1>3 DEF MarkEffect, SameCalls, SameFrames, NumbersCounted, Idle, DeltaNumbers, CallsPlaced,
       Writing
  <2>2. MapCounted'
    BY <1>0, <1>3 DEF MarkEffect, SameCalls, SameFrames, MapCounted, Idle, DeltaNumbers, NumbersCounted
  <2>3. NumbersNew'
    BY <1>0, <1>3 DEF MarkEffect, SameCalls, SameFrames, NumbersNew, Idle, DeltaNumbers, CallsPlaced, Writing,
       NumbersCounted, MapCounted, NumbersApart
  <2>4. NumbersApart'
    BY <1>0, <1>3 DEF MarkEffect, SameCalls, SameFrames, NumbersApart, Idle, NumbersCounted, CallsPlaced
  <2> QED
    BY <2>1, <2>2, <2>3, <2>4 DEF NumbersFresh
<1>4. ASSUME NEW c \in Chains, NEW f \in Frames, ReturnEffect(c, f) PROVE NumbersFresh'
  <2>1. NumbersCounted'
    BY <1>0, <1>4 DEF ReturnEffect, SameCalls, SameFrames, NumbersCounted, Idle, DeltaNumbers, CallsPlaced,
       Writing
  <2>2. MapCounted'
    BY <1>0, <1>4 DEF ReturnEffect, SameCalls, SameFrames, MapCounted, Idle, DeltaNumbers, NumbersCounted
  <2>3. NumbersNew'
    BY <1>0, <1>4 DEF ReturnEffect, SameCalls, SameFrames, NumbersNew, Idle, DeltaNumbers, CallsPlaced,
       Writing, NumbersCounted, MapCounted, NumbersApart
  <2>4. NumbersApart'
    BY <1>0, <1>4 DEF ReturnEffect, SameCalls, SameFrames, NumbersApart, Idle, NumbersCounted, CallsPlaced
  <2> QED
    BY <2>1, <2>2, <2>3, <2>4 DEF NumbersFresh
<1>5. ASSUME NEW c \in Chains, NEW f \in Frames, ReinitEffect(c, f) PROVE NumbersFresh'
  <2>1. NumbersCounted'
    BY <1>0, <1>5 DEF ReinitEffect, SameCalls, SameFrames, NumbersCounted, Idle, DeltaNumbers, CallsPlaced,
       Writing
  <2>2. MapCounted'
    BY <1>0, <1>5 DEF ReinitEffect, SameCalls, SameFrames, MapCounted, Idle, DeltaNumbers, NumbersCounted
  <2>3. NumbersNew'
    BY <1>0, <1>5 DEF ReinitEffect, SameCalls, SameFrames, NumbersNew, Idle, DeltaNumbers, CallsPlaced,
       Writing, NumbersCounted, MapCounted, NumbersApart
  <2>4. NumbersApart'
    BY <1>0, <1>5 DEF ReinitEffect, SameCalls, SameFrames, NumbersApart, Idle, NumbersCounted, CallsPlaced
  <2> QED
    BY <2>1, <2>2, <2>3, <2>4 DEF NumbersFresh
<1>6. ASSUME NEW c \in Chains, NEW f \in Frames, LinkEffect(c, f) PROVE NumbersFresh'
  <2>1. NumbersCounted'
    BY <1>0, <1>6 DEF LinkEffect, SameCalls, SameFrames, NumbersCounted, Idle, DeltaNumbers, CallsPlaced,
       Writing
  <2>2. MapCounted'
    BY <1>0, <1>6 DEF LinkEffect, SameCalls, SameFrames, MapCounted, Idle, DeltaNumbers, NumbersCounted
  <2>3. NumbersNew'
    BY <1>0, <1>6 DEF LinkEffect, SameCalls, SameFrames, NumbersNew, Idle, DeltaNumbers, CallsPlaced, Writing,
       NumbersCounted, MapCounted, NumbersApart
  <2>4. NumbersApart'
    BY <1>0, <1>6 DEF LinkEffect, SameCalls, SameFrames, NumbersApart, Idle, NumbersCounted, CallsPlaced
  <2> QED
    BY <2>1, <2>2, <2>3, <2>4 DEF NumbersFresh
<1>7. ASSUME NEW c \in Chains, FetchEffect(c) PROVE NumbersFresh'
  <2>1. NumbersCounted'
    BY <1>0, <1>7 DEF FetchEffect, SameCalls, SameFrames, NumbersCounted, Idle, DeltaNumbers, CallsPlaced,
       Writing
  <2>2. MapCounted'
    BY <1>0, <1>7 DEF FetchEffect, SameCalls, SameFrames, MapCounted, Idle, DeltaNumbers, NumbersCounted
  <2>3. NumbersNew'
    BY <1>0, <1>7 DEF FetchEffect, SameCalls, SameFrames, NumbersNew, Idle, DeltaNumbers, CallsPlaced, Writing,
       NumbersCounted, MapCounted, NumbersApart
  <2>4. NumbersApart'
    BY <1>0, <1>7 DEF FetchEffect, SameCalls, SameFrames, NumbersApart, Idle, NumbersCounted, CallsPlaced
  <2> QED
    BY <2>1, <2>2, <2>3, <2>4 DEF NumbersFresh
<1>8. ASSUME NEW o \in Owners, NEW f \in Frames, ClaimEffect(o, f) PROVE NumbersFresh'
  <2>1. NumbersCounted'
    <3>1. npages' \in Nat /\ npages' >= npages /\ \A x \in Frames : frame'[x].page = frame[x].page
      BY <1>0, <1>8 DEF ClaimEffect, SameFrames
    <3>2. \A x \in Frames : frame'[x].page <= npages'
      BY <1>0, <3>1 DEF NumbersCounted
    <3>3. \A r \in DOMAIN loc : loc[r].page <= npages'
      BY <1>0, <3>1 DEF NumbersCounted, DeltaNumbers
    <3>4. op'[Reader].at # "idle" => op'[Reader].page <= npages'
      BY <1>0, <1>a, <1>8, <3>1 DEF ClaimEffect, NumbersCounted, SameCalls, Idle
    <3>5. \A c \in Chains : op'[c].at \in {"write", "reinit"} => op'[c].page \in 1 .. npages'
      BY <1>0, <1>a, <1>8, <3>1 DEF ClaimEffect, NumbersCounted, SameCalls, Idle
    <3> QED
      BY <3>2, <3>3, <3>4, <3>5, <1>8 DEF ClaimEffect, NumbersCounted
  <2>2. MapCounted'
    BY <1>0, <1>8 DEF ClaimEffect, SameCalls, SameFrames, MapCounted, Idle, DeltaNumbers, NumbersCounted
  <2>3. NumbersNew'
    BY <1>0, <1>8 DEF ClaimEffect, SameCalls, SameFrames, NumbersNew, Idle, DeltaNumbers, CallsPlaced, Writing,
       NumbersCounted, MapCounted, NumbersApart
  <2>4. NumbersApart'
    BY <1>0, <1>8 DEF ClaimEffect, SameCalls, SameFrames, NumbersApart, Idle, NumbersCounted, CallsPlaced
  <2> QED
    BY <2>1, <2>2, <2>3, <2>4 DEF NumbersFresh
<1>9. ASSUME NEW o \in Owners, ThrowEffect(o) PROVE NumbersFresh'
  <2>1. NumbersCounted'
    <3>1. npages' \in Nat /\ npages' >= npages /\ \A x \in Frames : frame'[x].page = frame[x].page
      BY <1>0, <1>9 DEF ThrowEffect, SameFrames
    <3>2. \A x \in Frames : frame'[x].page <= npages'
      BY <1>0, <3>1 DEF NumbersCounted
    <3>3. \A r \in DOMAIN loc : loc[r].page <= npages'
      BY <1>0, <3>1 DEF NumbersCounted, DeltaNumbers
    <3>4. op'[Reader].at # "idle" => op'[Reader].page <= npages'
      BY <1>0, <1>a, <1>9, <3>1 DEF ThrowEffect, NumbersCounted, SameCalls, Idle
    <3>5. \A c \in Chains : op'[c].at \in {"write", "reinit"} => op'[c].page \in 1 .. npages'
      BY <1>0, <1>a, <1>9, <3>1 DEF ThrowEffect, NumbersCounted, SameCalls, Idle
    <3> QED
      BY <3>2, <3>3, <3>4, <3>5, <1>9 DEF ThrowEffect, NumbersCounted
  <2>2. MapCounted'
    BY <1>0, <1>9 DEF ThrowEffect, SameCalls, SameFrames, MapCounted, Idle, DeltaNumbers, NumbersCounted
  <2>3. NumbersNew'
    BY <1>0, <1>9 DEF ThrowEffect, SameCalls, SameFrames, NumbersNew, Idle, DeltaNumbers, CallsPlaced, Writing,
       NumbersCounted, MapCounted, NumbersApart
  <2>4. NumbersApart'
    BY <1>0, <1>9 DEF ThrowEffect, SameCalls, SameFrames, NumbersApart, Idle, NumbersCounted, CallsPlaced
  <2> QED
    BY <2>1, <2>2, <2>3, <2>4 DEF NumbersFresh
<1>10. ASSUME NEW o \in Owners, NEW f \in Frames, WriteBackEffect(o, f) PROVE NumbersFresh'
  <2>1. NumbersCounted'
    BY <1>0, <1>10 DEF WriteBackEffect, SameCalls, SameFrames, NumbersCounted, Idle, DeltaNumbers, CallsPlaced,
       Writing
  <2>2. MapCounted'
    BY <1>0, <1>10 DEF WriteBackEffect, SameCalls, SameFrames, MapCounted, Idle, DeltaNumbers, NumbersCounted
  <2>3. NumbersNew'
    BY <1>0, <1>10 DEF WriteBackEffect, SameCalls, SameFrames, NumbersNew, Idle, DeltaNumbers, CallsPlaced,
       Writing, NumbersCounted, MapCounted, NumbersApart
  <2>4. NumbersApart'
    BY <1>0, <1>10 DEF WriteBackEffect, SameCalls, SameFrames, NumbersApart, Idle, NumbersCounted, CallsPlaced
  <2> QED
    BY <2>1, <2>2, <2>3, <2>4 DEF NumbersFresh
<1>11. ASSUME NEW r \in DOMAIN loc, NEW p \in DeltaNumbers, ReadEffect(r, p) PROVE NumbersFresh'
  <2>1. NumbersCounted'
    BY <1>0, <1>11 DEF ReadEffect, SameCalls, SameFrames, NumbersCounted, Idle, DeltaNumbers, CallsPlaced,
       Writing
  <2>2. MapCounted'
    BY <1>0, <1>11 DEF ReadEffect, SameCalls, SameFrames, MapCounted, Idle, DeltaNumbers, NumbersCounted
  <2>3. NumbersNew'
    BY <1>0, <1>11 DEF ReadEffect, SameCalls, SameFrames, NumbersNew, Idle, DeltaNumbers, CallsPlaced, Writing,
       NumbersCounted, MapCounted, NumbersApart
  <2>4. NumbersApart'
    BY <1>0, <1>11 DEF ReadEffect, SameCalls, SameFrames, NumbersApart, Idle, NumbersCounted, CallsPlaced
  <2> QED
    BY <2>1, <2>2, <2>3, <2>4 DEF NumbersFresh
<1>12. ASSUME NEW f \in Frames, NEW p \in DeltaNumbers, FillEffect(f, p) PROVE NumbersFresh'
  <2>1. NumbersCounted'
    BY <1>0, <1>12 DEF FillEffect, SameCalls, SameFrames, NumbersCounted, Idle, DeltaNumbers, CallsPlaced,
       Writing
  <2>2. MapCounted'
    BY <1>0, <1>12 DEF FillEffect, SameCalls, SameFrames, MapCounted, Idle, DeltaNumbers, NumbersCounted
  <2>3. NumbersNew'
    BY <1>0, <1>12 DEF FillEffect, SameCalls, SameFrames, NumbersNew, Idle, DeltaNumbers, CallsPlaced, Writing,
       NumbersCounted, MapCounted, NumbersApart
  <2>4. NumbersApart'
    BY <1>0, <1>12 DEF FillEffect, SameCalls, SameFrames, NumbersApart, Idle, NumbersCounted, CallsPlaced
  <2> QED
    BY <2>1, <2>2, <2>3, <2>4 DEF NumbersFresh
<1>13. ASSUME NEW f \in Frames, NEW i \in Nat, ClearEffect(f, i) PROVE NumbersFresh'
  <2>1. NumbersCounted'
    BY <1>0, <1>13 DEF ClearEffect, SameCalls, SameFrames, NumbersCounted, Idle, DeltaNumbers, CallsPlaced,
       Writing
  <2>2. MapCounted'
    BY <1>0, <1>13 DEF ClearEffect, SameCalls, SameFrames, MapCounted, Idle, DeltaNumbers, NumbersCounted
  <2>3. NumbersNew'
    BY <1>0, <1>13 DEF ClearEffect, SameCalls, SameFrames, NumbersNew, Idle, DeltaNumbers, CallsPlaced,
       Writing, NumbersCounted, MapCounted, NumbersApart
  <2>4. NumbersApart'
    BY <1>0, <1>13 DEF ClearEffect, SameCalls, SameFrames, NumbersApart, Idle, NumbersCounted, CallsPlaced
  <2> QED
    BY <2>1, <2>2, <2>3, <2>4 DEF NumbersFresh
<1>14. ASSUME NEW f \in Frames, UnlatchEffect(f) PROVE NumbersFresh'
  <2>1. NumbersCounted'
    BY <1>0, <1>14 DEF UnlatchEffect, SameCalls, SameFrames, NumbersCounted, Idle, DeltaNumbers, CallsPlaced,
       Writing
  <2>2. MapCounted'
    BY <1>0, <1>14 DEF UnlatchEffect, SameCalls, SameFrames, MapCounted, Idle, DeltaNumbers, NumbersCounted
  <2>3. NumbersNew'
    BY <1>0, <1>14 DEF UnlatchEffect, SameCalls, SameFrames, NumbersNew, Idle, DeltaNumbers, CallsPlaced,
       Writing, NumbersCounted, MapCounted, NumbersApart
  <2>4. NumbersApart'
    BY <1>0, <1>14 DEF UnlatchEffect, SameCalls, SameFrames, NumbersApart, Idle, NumbersCounted, CallsPlaced
  <2> QED
    BY <2>1, <2>2, <2>3, <2>4 DEF NumbersFresh
<1>15. ASSUME NEW f \in Frames, FlushLatchEffect(f) PROVE NumbersFresh'
  <2>1. NumbersCounted'
    BY <1>0, <1>15 DEF FlushLatchEffect, SameCalls, SameFrames, NumbersCounted, Idle, DeltaNumbers,
       CallsPlaced, Writing
  <2>2. MapCounted'
    BY <1>0, <1>15 DEF FlushLatchEffect, SameCalls, SameFrames, MapCounted, Idle, DeltaNumbers, NumbersCounted
  <2>3. NumbersNew'
    BY <1>0, <1>15 DEF FlushLatchEffect, SameCalls, SameFrames, NumbersNew, Idle, DeltaNumbers, CallsPlaced,
       Writing, NumbersCounted, MapCounted, NumbersApart
  <2>4. NumbersApart'
    BY <1>0, <1>15 DEF FlushLatchEffect, SameCalls, SameFrames, NumbersApart, Idle, NumbersCounted, CallsPlaced
  <2> QED
    BY <2>1, <2>2, <2>3, <2>4 DEF NumbersFresh
<1>16. ASSUME NEW f \in Frames, NEW p \in DeltaNumbers, FlushWriteEffect(f, p) PROVE NumbersFresh'
  <2>1. NumbersCounted'
    BY <1>0, <1>16 DEF FlushWriteEffect, SameCalls, SameFrames, NumbersCounted, Idle, DeltaNumbers,
       CallsPlaced, Writing
  <2>2. MapCounted'
    BY <1>0, <1>16 DEF FlushWriteEffect, SameCalls, SameFrames, MapCounted, Idle, DeltaNumbers, NumbersCounted
  <2>3. NumbersNew'
    BY <1>0, <1>16 DEF FlushWriteEffect, SameCalls, SameFrames, NumbersNew, Idle, DeltaNumbers, CallsPlaced,
       Writing, NumbersCounted, MapCounted, NumbersApart
  <2>4. NumbersApart'
    BY <1>0, <1>16 DEF FlushWriteEffect, SameCalls, SameFrames, NumbersApart, Idle, NumbersCounted, CallsPlaced
  <2> QED
    BY <2>1, <2>2, <2>3, <2>4 DEF NumbersFresh
<1>17. ASSUME NEW f \in Frames, NEW p \in DeltaNumbers, FlushCleanEffect(f, p) PROVE NumbersFresh'
  <2>1. NumbersCounted'
    BY <1>0, <1>17 DEF FlushCleanEffect, SameCalls, SameFrames, NumbersCounted, Idle, DeltaNumbers,
       CallsPlaced, Writing
  <2>2. MapCounted'
    BY <1>0, <1>17 DEF FlushCleanEffect, SameCalls, SameFrames, MapCounted, Idle, DeltaNumbers, NumbersCounted
  <2>3. NumbersNew'
    BY <1>0, <1>17 DEF FlushCleanEffect, SameCalls, SameFrames, NumbersNew, Idle, DeltaNumbers, CallsPlaced,
       Writing, NumbersCounted, MapCounted, NumbersApart
  <2>4. NumbersApart'
    BY <1>0, <1>17 DEF FlushCleanEffect, SameCalls, SameFrames, NumbersApart, Idle, NumbersCounted, CallsPlaced
  <2> QED
    BY <2>1, <2>2, <2>3, <2>4 DEF NumbersFresh
<1>18. CASE UNCHANGED deltaVars
  BY <1>0, <1>18 DEF NumbersCounted, MapCounted, NumbersNew, NumbersApart, Idle, DeltaNumbers, CallsPlaced,
     Writing, NumbersFresh, deltaVars
<1> QED
  BY StepEffects, <1>1, <1>2, <1>3, <1>4, <1>5, <1>6, <1>7, <1>8, <1>9, <1>10, <1>11, <1>12, <1>13, <1>14,
     <1>15, <1>16, <1>17, <1>18 DEF Effects

-----------------------------------------------------------------------------
(* Frames at hand *)

\* A step that gives no chain a frame and takes none from its page keeps them apart.
LEMMA ApartFrame ==
  ASSUME FramesApart, taken' = taken,
         \A c \in Chains : InHand(c)' \subseteq InHand(c) \cup {NoFrame},
         \A g \in Frames : Replaced(g)' => Replaced(g),
         \A c \in Chains : InHand(c) \subseteq Frames \cup {NoFrame},
         \A c \in Chains : op'[c].at \in {"write", "reinit"} =>
           op[c].at \in {"write", "reinit"} /\ op'[c].f = op[c].f /\ op[c].f # NoFrame
  PROVE  FramesApart'
<1>1. HandsApart'
  <2> SUFFICES ASSUME NEW c \in Chains, c \notin taken, NEW f \in InHand(c)', f # NoFrame
               PROVE  ~Replaced(f)' /\ \A b \in Chains \ {c} : f \notin InHand(b)'
    BY DEF HandsApart
  <2>1. f \in InHand(c) /\ f \in Frames
    OBVIOUS
  <2> QED
    BY <2>1 DEF HandsApart, FramesApart
<1>2. ClaimsApart'
  BY DEF ClaimsApart, FramesApart
<1> QED
  BY <1>1, <1>2 DEF FramesApart

\* A chain that lost no frame goes on sharing none.
LEMMA ApartKept ==
  ASSUME DeltaInv, [Next]_deltaVars
  PROVE  FramesApart'
<1>0. /\ Reader \in Owners /\ Reader \notin Chains /\ Chains \subseteq Owners
      /\ \A o \in Owners : o # Reader => o \in Chains
      /\ (flush.at # "idle" => flush.f \in Frames)
      /\ CallsPlaced /\ CallsFramed /\ HoldersApart /\ ClaimsLatched
      /\ FramesApart /\ NoFrame \notin Frames /\ head \in [Chains -> Frames \cup {NoFrame}] /\ taken \in SUBSET Chains
  BY OwnersAre, FlushFields, FrameFields DEF DeltaInv, CallsSound, OneHolder, MapExact, NumbersFresh,
     DeltaParameters, DeltaTypeOK
<1>a. \A x \in Chains : InHand(x) \subseteq Frames \cup {NoFrame}
  BY <1>0 DEF InHand, CallsFramed, Writing
<1>1. ASSUME NEW c \in Chains, InsertEffect(c) PROVE FramesApart'
  <2>1. \A x \in Chains : InHand(x)' \subseteq InHand(x) \cup {NoFrame}
    BY <1>0, <1>1 DEF InsertEffect, SameCalls, InHand, Idle
  <2>2. \A g \in Frames : Replaced(g)' => Replaced(g)
    BY <1>0, <1>1 DEF InsertEffect, SameCalls, Replaced, Idle, Claiming
  <2>3. \A x \in Chains : op'[x].at \in {"write", "reinit"} =>
          op[x].at \in {"write", "reinit"} /\ op'[x].f = op[x].f /\ op[x].f # NoFrame
    BY <1>0, <1>1 DEF InsertEffect, SameCalls, Idle, CallsFramed, Claiming
  <2>4. taken' = taken
    BY <1>1 DEF InsertEffect
  <2> QED
    BY <1>0, <1>a, <2>1, <2>2, <2>3, <2>4, ApartFrame
<1>2. ASSUME NEW c \in Chains, NEW f \in Frames, StoreEffect(c, f) PROVE FramesApart'
  <2>1. \A x \in Chains : InHand(x)' \subseteq InHand(x) \cup {NoFrame}
    BY <1>0, <1>2 DEF StoreEffect, SameCalls, InHand, Idle
  <2>2. \A g \in Frames : Replaced(g)' => Replaced(g)
    BY <1>0, <1>2 DEF StoreEffect, SameCalls, Replaced, Idle, Claiming
  <2>3. \A x \in Chains : op'[x].at \in {"write", "reinit"} =>
          op[x].at \in {"write", "reinit"} /\ op'[x].f = op[x].f /\ op[x].f # NoFrame
    BY <1>0, <1>2 DEF StoreEffect, SameCalls, Idle, CallsFramed, Claiming
  <2>4. taken' = taken
    BY <1>2 DEF StoreEffect
  <2> QED
    BY <1>0, <1>a, <2>1, <2>2, <2>3, <2>4, ApartFrame
<1>3. ASSUME NEW c \in Chains, NEW f \in Frames, MarkEffect(c, f) PROVE FramesApart'
  <2>1. \A x \in Chains : InHand(x)' \subseteq InHand(x) \cup {NoFrame}
    BY <1>0, <1>3 DEF MarkEffect, SameCalls, InHand, Idle
  <2>2. \A g \in Frames : Replaced(g)' => Replaced(g)
    BY <1>0, <1>3 DEF MarkEffect, SameCalls, Replaced, Idle, Claiming
  <2>3. \A x \in Chains : op'[x].at \in {"write", "reinit"} =>
          op[x].at \in {"write", "reinit"} /\ op'[x].f = op[x].f /\ op[x].f # NoFrame
    BY <1>0, <1>3 DEF MarkEffect, SameCalls, Idle, CallsFramed, Claiming
  <2>4. taken' = taken
    BY <1>3 DEF MarkEffect
  <2> QED
    BY <1>0, <1>a, <2>1, <2>2, <2>3, <2>4, ApartFrame
<1>4. ASSUME NEW c \in Chains, NEW f \in Frames, ReturnEffect(c, f) PROVE FramesApart'
  <2>1. \A x \in Chains : InHand(x)' \subseteq InHand(x) \cup {NoFrame}
    BY <1>0, <1>4 DEF ReturnEffect, SameCalls, InHand, Idle
  <2>2. \A g \in Frames : Replaced(g)' => Replaced(g)
    BY <1>0, <1>4 DEF ReturnEffect, SameCalls, Replaced, Idle, Claiming
  <2>3. \A x \in Chains : op'[x].at \in {"write", "reinit"} =>
          op[x].at \in {"write", "reinit"} /\ op'[x].f = op[x].f /\ op[x].f # NoFrame
    BY <1>0, <1>4 DEF ReturnEffect, SameCalls, Idle, CallsFramed, Claiming
  <2>4. taken' = taken
    BY <1>4 DEF ReturnEffect
  <2> QED
    BY <1>0, <1>a, <2>1, <2>2, <2>3, <2>4, ApartFrame
<1>5. ASSUME NEW c \in Chains, NEW f \in Frames, ReinitEffect(c, f) PROVE FramesApart'
  <2>1. /\ op[c].at = "reinit" /\ op[c].f = f /\ op'[c].at = "link" /\ op'[c].f = f /\ taken' = taken
        /\ \A x \in Owners \ {c} : op'[x] = op[x]
    BY <1>5 DEF ReinitEffect, SameCalls
  <2>2. InHand(c)' = InHand(c) \cup {f} /\ \A x \in Chains \ {c} : InHand(x)' = InHand(x)
    BY <1>0, <1>5, <2>1 DEF ReinitEffect, InHand
  <2>3. \A g \in Frames : Replaced(g)' => Replaced(g) /\ g # f
    BY <1>0, <2>1 DEF Replaced, HoldersApart, HoldsFrame, Claiming
  <2>4. c \notin taken => \A b \in Chains : f \notin InHand(b)
    BY <1>0, <2>1 DEF ClaimsApart, FramesApart
  <2>7. \A b \in Chains \ taken : f \notin InHand(b)
    <3>1. Replaced(f)
      BY <1>0, <2>1 DEF Replaced, Claiming
    <3> QED
      BY <1>0, <3>1 DEF HandsApart, FramesApart
  <2>5. HandsApart'
    <3> SUFFICES ASSUME NEW x \in Chains, x \notin taken, NEW g \in InHand(x)', g # NoFrame
                 PROVE  ~Replaced(g)' /\ \A b \in Chains \ {x} : g \notin InHand(b)'
      BY <2>1 DEF HandsApart
    <3>1. CASE x = c /\ g = f
      BY <1>0, <2>2, <2>3, <2>4, <3>1
    <3>2. CASE ~(x = c /\ g = f)
      <4>1. g \in InHand(x) /\ g \in Frames
        BY <1>0, <1>a, <2>2, <3>2
      <4>2. g # f
        BY <2>7, <4>1
      <4> QED
        BY <1>0, <2>2, <2>3, <4>1, <4>2 DEF HandsApart, FramesApart
    <3> QED
      BY <3>1, <3>2
  <2>6. ClaimsApart'
    <3> SUFFICES ASSUME NEW x \in Chains, x \notin taken, op'[x].at \in {"write", "reinit"}, NEW b \in Chains
                 PROVE  op'[x].f \notin InHand(b)'
      BY <2>1 DEF ClaimsApart
    <3>1. x # c /\ op'[x] = op[x] /\ op[x].f \notin InHand(b)
      BY <1>0, <2>1 DEF ClaimsApart, FramesApart
    <3>2. op[x].f # f
      BY <1>0, <2>1, <3>1 DEF HoldersApart, HoldsFrame, Claiming
    <3> QED
      BY <2>2, <3>1, <3>2
  <2> QED
    BY <2>5, <2>6 DEF FramesApart
<1>6. ASSUME NEW c \in Chains, NEW f \in Frames, LinkEffect(c, f) PROVE FramesApart'
  <2>1. \A x \in Chains : InHand(x)' \subseteq InHand(x) \cup {NoFrame}
    BY <1>0, <1>6 DEF LinkEffect, SameCalls, InHand, Idle
  <2>2. \A g \in Frames : Replaced(g)' => Replaced(g)
    BY <1>0, <1>6 DEF LinkEffect, SameCalls, Replaced, Idle, Claiming
  <2>3. \A x \in Chains : op'[x].at \in {"write", "reinit"} =>
          op[x].at \in {"write", "reinit"} /\ op'[x].f = op[x].f /\ op[x].f # NoFrame
    BY <1>0, <1>6 DEF LinkEffect, SameCalls, Idle, CallsFramed, Claiming
  <2>4. taken' = taken
    BY <1>6 DEF LinkEffect
  <2> QED
    BY <1>0, <1>a, <2>1, <2>2, <2>3, <2>4, ApartFrame
<1>7. ASSUME NEW c \in Chains, FetchEffect(c) PROVE FramesApart'
  <2>1. InHand(c)' = {NoFrame} /\ (\A x \in Chains \ {c} : InHand(x)' = InHand(x)) /\ op' = op /\ taken' = taken \ {c}
    BY <1>0, <1>7 DEF FetchEffect, InHand
  <2>2. \A g : Replaced(g)' <=> Replaced(g)
    BY <2>1 DEF Replaced
  <2>3. HandsApart'
    BY <1>0, <1>a, <2>1, <2>2 DEF HandsApart, FramesApart
  <2>4. ClaimsApart'
    BY <1>0, <1>7, <2>1 DEF ClaimsApart, FramesApart, FetchEffect, CallsFramed, Claiming
  <2> QED
    BY <2>3, <2>4 DEF FramesApart
<1>8. ASSUME NEW o \in Owners, NEW f \in Frames, ClaimEffect(o, f) PROVE FramesApart'
  <2>1. /\ op[o].at = "claim" /\ op'[o].at = "write" /\ op'[o].f = f /\ taken \subseteq taken' /\ taken' \in SUBSET Chains
        /\ \A x \in Owners \ {o} : op'[x] = op[x]
    BY <1>8 DEF ClaimEffect, SameCalls
  <2>2. \A x \in Chains : InHand(x)' = InHand(x)
    BY <1>0, <1>8, <2>1 DEF ClaimEffect, InHand
  <2>3. \A g \in Frames : Replaced(g)' => Replaced(g) \/ g = f
    BY <1>0, <2>1 DEF Replaced, Claiming
  <2>4. \A x \in Chains : f \in InHand(x) => x \in taken' /\ (o # Reader => o \in taken')
    BY <1>8 DEF ClaimEffect
  <2>5. HandsApart'
    <3> SUFFICES ASSUME NEW x \in Chains, x \notin taken', NEW g \in InHand(x)', g # NoFrame
                 PROVE  ~Replaced(g)' /\ \A b \in Chains \ {x} : g \notin InHand(b)'
      BY <2>1 DEF HandsApart
    <3>1. g \in InHand(x) /\ g \in Frames /\ g # f
      BY <1>a, <2>2, <2>4
    <3> QED
      BY <1>0, <2>1, <2>2, <2>3, <3>1 DEF HandsApart, FramesApart
  <2>6. ClaimsApart'
    <3> SUFFICES ASSUME NEW x \in Chains, x \notin taken', op'[x].at \in {"write", "reinit"}, NEW b \in Chains
                 PROVE  op'[x].f \notin InHand(b)'
      BY <2>1 DEF ClaimsApart
    <3>1. CASE x = o
      BY <1>0, <2>1, <2>2, <2>4, <3>1
    <3>2. CASE x # o
      BY <1>0, <2>1, <2>2, <3>2 DEF ClaimsApart, FramesApart
    <3> QED
      BY <3>1, <3>2
  <2> QED
    BY <2>5, <2>6 DEF FramesApart
<1>9. ASSUME NEW o \in Owners, ThrowEffect(o) PROVE FramesApart'
  <2>1. \A x \in Chains : InHand(x)' \subseteq InHand(x) \cup {NoFrame}
    BY <1>0, <1>9 DEF ThrowEffect, SameCalls, InHand, Idle
  <2>2. \A g \in Frames : Replaced(g)' => Replaced(g)
    BY <1>0, <1>9 DEF ThrowEffect, SameCalls, Replaced, Idle, Claiming
  <2>3. \A x \in Chains : op'[x].at \in {"write", "reinit"} =>
          op[x].at \in {"write", "reinit"} /\ op'[x].f = op[x].f /\ op[x].f # NoFrame
    BY <1>0, <1>9 DEF ThrowEffect, SameCalls, Idle, CallsFramed, Claiming
  <2>4. taken' = taken
    BY <1>9 DEF ThrowEffect
  <2> QED
    BY <1>0, <1>a, <2>1, <2>2, <2>3, <2>4, ApartFrame
<1>10. ASSUME NEW o \in Owners, NEW f \in Frames, WriteBackEffect(o, f) PROVE FramesApart'
  <2>1. \A x \in Chains : InHand(x)' \subseteq InHand(x) \cup {NoFrame}
    BY <1>0, <1>10 DEF WriteBackEffect, SameCalls, InHand, Idle
  <2>2. \A g \in Frames : Replaced(g)' => Replaced(g)
    BY <1>0, <1>10 DEF WriteBackEffect, SameCalls, Replaced, Idle, Claiming
  <2>3. \A x \in Chains : op'[x].at \in {"write", "reinit"} =>
          op[x].at \in {"write", "reinit"} /\ op'[x].f = op[x].f /\ op[x].f # NoFrame
    BY <1>0, <1>10 DEF WriteBackEffect, SameCalls, Idle, CallsFramed, Claiming
  <2>4. taken' = taken
    BY <1>10 DEF WriteBackEffect
  <2> QED
    BY <1>0, <1>a, <2>1, <2>2, <2>3, <2>4, ApartFrame
<1>11. ASSUME NEW r \in DOMAIN loc, NEW p \in DeltaNumbers, ReadEffect(r, p) PROVE FramesApart'
  <2>1. \A x \in Chains : InHand(x)' \subseteq InHand(x) \cup {NoFrame}
    BY <1>0, <1>11 DEF ReadEffect, SameCalls, InHand, Idle
  <2>2. \A g \in Frames : Replaced(g)' => Replaced(g)
    BY <1>0, <1>11 DEF ReadEffect, SameCalls, Replaced, Idle, Claiming
  <2>3. \A x \in Chains : op'[x].at \in {"write", "reinit"} =>
          op[x].at \in {"write", "reinit"} /\ op'[x].f = op[x].f /\ op[x].f # NoFrame
    BY <1>0, <1>11 DEF ReadEffect, SameCalls, Idle, CallsFramed, Claiming
  <2>4. taken' = taken
    BY <1>11 DEF ReadEffect
  <2> QED
    BY <1>0, <1>a, <2>1, <2>2, <2>3, <2>4, ApartFrame
<1>12. ASSUME NEW f \in Frames, NEW p \in DeltaNumbers, FillEffect(f, p) PROVE FramesApart'
  <2>1. \A x \in Chains : InHand(x)' \subseteq InHand(x) \cup {NoFrame}
    BY <1>0, <1>12 DEF FillEffect, SameCalls, InHand, Idle
  <2>2. \A g \in Frames : Replaced(g)' => Replaced(g)
    BY <1>0, <1>12 DEF FillEffect, SameCalls, Replaced, Idle, Claiming
  <2>3. \A x \in Chains : op'[x].at \in {"write", "reinit"} =>
          op[x].at \in {"write", "reinit"} /\ op'[x].f = op[x].f /\ op[x].f # NoFrame
    BY <1>0, <1>12 DEF FillEffect, SameCalls, Idle, CallsFramed, Claiming
  <2>4. taken' = taken
    BY <1>12 DEF FillEffect
  <2> QED
    BY <1>0, <1>a, <2>1, <2>2, <2>3, <2>4, ApartFrame
<1>13. ASSUME NEW f \in Frames, NEW i \in Nat, ClearEffect(f, i) PROVE FramesApart'
  <2>1. \A x \in Chains : InHand(x)' \subseteq InHand(x) \cup {NoFrame}
    BY <1>0, <1>13 DEF ClearEffect, SameCalls, InHand, Idle
  <2>2. \A g \in Frames : Replaced(g)' => Replaced(g)
    BY <1>0, <1>13 DEF ClearEffect, SameCalls, Replaced, Idle, Claiming
  <2>3. \A x \in Chains : op'[x].at \in {"write", "reinit"} =>
          op[x].at \in {"write", "reinit"} /\ op'[x].f = op[x].f /\ op[x].f # NoFrame
    BY <1>0, <1>13 DEF ClearEffect, SameCalls, Idle, CallsFramed, Claiming
  <2>4. taken' = taken
    BY <1>13 DEF ClearEffect
  <2> QED
    BY <1>0, <1>a, <2>1, <2>2, <2>3, <2>4, ApartFrame
<1>14. ASSUME NEW f \in Frames, UnlatchEffect(f) PROVE FramesApart'
  <2>1. \A x \in Chains : InHand(x)' \subseteq InHand(x) \cup {NoFrame}
    BY <1>0, <1>14 DEF UnlatchEffect, SameCalls, InHand, Idle
  <2>2. \A g \in Frames : Replaced(g)' => Replaced(g)
    BY <1>0, <1>14 DEF UnlatchEffect, SameCalls, Replaced, Idle, Claiming
  <2>3. \A x \in Chains : op'[x].at \in {"write", "reinit"} =>
          op[x].at \in {"write", "reinit"} /\ op'[x].f = op[x].f /\ op[x].f # NoFrame
    BY <1>0, <1>14 DEF UnlatchEffect, SameCalls, Idle, CallsFramed, Claiming
  <2>4. taken' = taken
    BY <1>14 DEF UnlatchEffect
  <2> QED
    BY <1>0, <1>a, <2>1, <2>2, <2>3, <2>4, ApartFrame
<1>15. ASSUME NEW f \in Frames, FlushLatchEffect(f) PROVE FramesApart'
  <2>1. \A x \in Chains : InHand(x)' \subseteq InHand(x) \cup {NoFrame}
    BY <1>0, <1>15 DEF FlushLatchEffect, SameCalls, InHand, Idle
  <2>2. \A g \in Frames : Replaced(g)' => Replaced(g)
    BY <1>0, <1>15 DEF FlushLatchEffect, SameCalls, Replaced, Idle, Claiming
  <2>3. \A x \in Chains : op'[x].at \in {"write", "reinit"} =>
          op[x].at \in {"write", "reinit"} /\ op'[x].f = op[x].f /\ op[x].f # NoFrame
    BY <1>0, <1>15 DEF FlushLatchEffect, SameCalls, Idle, CallsFramed, Claiming
  <2>4. taken' = taken
    BY <1>15 DEF FlushLatchEffect
  <2> QED
    BY <1>0, <1>a, <2>1, <2>2, <2>3, <2>4, ApartFrame
<1>16. ASSUME NEW f \in Frames, NEW p \in DeltaNumbers, FlushWriteEffect(f, p) PROVE FramesApart'
  <2>1. \A x \in Chains : InHand(x)' \subseteq InHand(x) \cup {NoFrame}
    BY <1>0, <1>16 DEF FlushWriteEffect, SameCalls, InHand, Idle
  <2>2. \A g \in Frames : Replaced(g)' => Replaced(g)
    BY <1>0, <1>16 DEF FlushWriteEffect, SameCalls, Replaced, Idle, Claiming
  <2>3. \A x \in Chains : op'[x].at \in {"write", "reinit"} =>
          op[x].at \in {"write", "reinit"} /\ op'[x].f = op[x].f /\ op[x].f # NoFrame
    BY <1>0, <1>16 DEF FlushWriteEffect, SameCalls, Idle, CallsFramed, Claiming
  <2>4. taken' = taken
    BY <1>16 DEF FlushWriteEffect
  <2> QED
    BY <1>0, <1>a, <2>1, <2>2, <2>3, <2>4, ApartFrame
<1>17. ASSUME NEW f \in Frames, NEW p \in DeltaNumbers, FlushCleanEffect(f, p) PROVE FramesApart'
  <2>1. \A x \in Chains : InHand(x)' \subseteq InHand(x) \cup {NoFrame}
    BY <1>0, <1>17 DEF FlushCleanEffect, SameCalls, InHand, Idle
  <2>2. \A g \in Frames : Replaced(g)' => Replaced(g)
    BY <1>0, <1>17 DEF FlushCleanEffect, SameCalls, Replaced, Idle, Claiming
  <2>3. \A x \in Chains : op'[x].at \in {"write", "reinit"} =>
          op[x].at \in {"write", "reinit"} /\ op'[x].f = op[x].f /\ op[x].f # NoFrame
    BY <1>0, <1>17 DEF FlushCleanEffect, SameCalls, Idle, CallsFramed, Claiming
  <2>4. taken' = taken
    BY <1>17 DEF FlushCleanEffect
  <2> QED
    BY <1>0, <1>a, <2>1, <2>2, <2>3, <2>4, ApartFrame
<1>18. CASE UNCHANGED deltaVars
  <2>1. \A x \in Chains : InHand(x)' \subseteq InHand(x) \cup {NoFrame}
    BY <1>0, <1>18 DEF deltaVars, SameCalls, InHand, Idle
  <2>2. \A g \in Frames : Replaced(g)' => Replaced(g)
    BY <1>0, <1>18 DEF deltaVars, SameCalls, Replaced, Idle, Claiming
  <2>3. \A x \in Chains : op'[x].at \in {"write", "reinit"} =>
          op[x].at \in {"write", "reinit"} /\ op'[x].f = op[x].f /\ op[x].f # NoFrame
    BY <1>0, <1>18 DEF deltaVars, SameCalls, Idle, CallsFramed, Claiming
  <2>4. taken' = taken
    BY <1>18 DEF deltaVars
  <2> QED
    BY <1>0, <1>a, <2>1, <2>2, <2>3, <2>4, ApartFrame
<1> QED
  BY StepEffects, <1>1, <1>2, <1>3, <1>4, <1>5, <1>6, <1>7, <1>8, <1>9, <1>10, <1>11, <1>12, <1>13, <1>14,
     <1>15, <1>16, <1>17, <1>18 DEF Effects

-----------------------------------------------------------------------------
(* Places of records *)

\* What may happen to the calls and locations a place depends on.
PlacesStep ==
  /\ nrecs \in Nat /\ nrecs' \in Nat /\ nrecs' >= nrecs
  /\ \A c \in Chains : Unstored(c)' => op'[c].r > nrecs \/ (Unstored(c) /\ op'[c].r = op[c].r)
  /\ \A r \in DOMAIN loc' \ doubtful'.recs :
       \/ r \in DOMAIN loc \ doubtful.recs /\ loc'[r] = loc[r]
       \/ \E c \in Chains \ taken :
            Stored(c) /\ op[c].r = r /\ loc'[r].page = frame[op[c].f].page /\ loc'[r].i = op[c].i
  /\ \A c \in Chains \ taken' : Stored(c)' =>
       /\ op'[c].r = op[c].r
       /\ \/ Unstored(c)
          \/ c \notin taken /\ Stored(c) /\ op'[c].i = op[c].i /\ frame'[op'[c].f].page = frame[op[c].f].page

\* A step of the reader or the flusher.
LEMMA PlacesCalm ==
  ASSUME nrecs \in Nat, UNCHANGED <<nrecs, loc, taken>>, doubtful'.recs = doubtful.recs,
         \A c \in Chains : op'[c] = op[c],
         \A c \in Chains \ taken : Stored(c) => frame'[op[c].f].page = frame[op[c].f].page
  PROVE  PlacesStep
BY DEF PlacesStep, Stored, Unstored

\* A record that has one place keeps it ...
LEMMA PlaceKept ==
  ASSUME PlacesStep, NEW r, NEW p, NEW j, RecordInPlace(r, p, j)
  PROVE  RecordInPlace(r, p, j)'
<1>1. r \in 1 .. nrecs'
  BY DEF PlacesStep, RecordInPlace
<1>2. \A c \in Chains : Unstored(c)' => r # op'[c].r
  BY DEF PlacesStep, RecordInPlace
<1>3. r \in DOMAIN loc' \ doubtful'.recs => loc'[r].page = p /\ loc'[r].i = j
  BY DEF PlacesStep, RecordInPlace
<1>4. \A c \in Chains \ taken' : Stored(c)' /\ r = op'[c].r => frame'[op'[c].f].page = p /\ op'[c].i = j
  BY DEF PlacesStep, RecordInPlace
<1> QED
  BY <1>1, <1>2, <1>3, <1>4 DEF RecordInPlace

\* Images made of records that were in place.
FramesFromOld == \A g \in Frames : \A j \in DOMAIN frame'[g].recs :
                   \E r, p : r = frame'[g].recs[j].r /\ p = frame'[g].page /\ RecordInPlace(r, p, j)
DiskFromOld == \A p \in DeltaNumbers : \A j \in DOMAIN disk'[p] : \E r : r = disk'[p][j].r /\ RecordInPlace(r, p, j)

\* ... in the frames, when they hold what some image held ...
LEMMA FramesFollow ==
  ASSUME PlacesStep, FramesFromOld
  PROVE  FramesInPlace'
<1> SUFFICES ASSUME NEW g \in Frames, NEW j \in DOMAIN frame'[g].recs
             PROVE  RecordInPlace(frame[g].recs[j].r, frame[g].page, j)'
  BY DEF FramesInPlace
<1>1. PICK r, p : r = frame'[g].recs[j].r /\ p = frame'[g].page /\ RecordInPlace(r, p, j)
  BY DEF FramesFromOld
<1>2. RecordInPlace(r, p, j)'
  BY <1>1, PlaceKept
<1> QED
  BY <1>1, <1>2 DEF RecordInPlace

\* ... and in the file.
LEMMA DiskFollows ==
  ASSUME PlacesStep, DiskFromOld
  PROVE  DiskInPlace'
<1> SUFFICES ASSUME NEW p \in DeltaNumbers, NEW j \in DOMAIN disk'[p]
             PROVE  RecordInPlace(disk[p][j].r, p, j)'
  BY DEF DiskInPlace
<1>1. PICK r : r = disk'[p][j].r /\ RecordInPlace(r, p, j)
  BY DEF DiskFromOld
<1>2. RecordInPlace(r, p, j)'
  BY <1>1, PlaceKept
<1> QED
  BY <1>1, <1>2 DEF RecordInPlace

\* So every step keeps each record in its place.
LEMMA PlacesKept ==
  ASSUME DeltaInv, [Next]_deltaVars
  PROVE  OnePlace'
<1>0. /\ Reader \in Owners /\ Reader \notin Chains /\ Chains \subseteq Owners
      /\ \A o \in Owners : o # Reader => o \in Chains
      /\ (flush.at # "idle" => flush.f \in Frames)
      /\ CallsPlaced /\ CallsFramed /\ RecordsNew /\ FramesInPlace /\ DiskInPlace /\ NewUncut /\ FramesApart
      /\ nrecs \in Nat /\ cut \in SUBSET (1 .. nrecs) /\ DOMAIN loc \subseteq 1 .. nrecs /\ NoFrame \notin Frames
  BY OwnersAre, FlushFields DEF DeltaInv, CallsSound, OnePlace, DeltaParameters, DeltaTypeOK
<1>b. \A g \in Frames :
        /\ frame[g].recs \in Seq(Record) /\ Len(frame[g].recs) \in Nat
        /\ DOMAIN frame[g].recs = 1 .. Len(frame[g].recs)
  BY FrameFields DEF DeltaInv
<1>c. disk \in [DeltaNumbers -> Seq(Record)]
  BY DEF DeltaInv, DeltaTypeOK
<1>1. ASSUME NEW c \in Chains, InsertEffect(c) PROVE OnePlace'
  <2>1. PlacesStep
    BY <1>0, <1>1 DEF InsertEffect, SameCalls, SameFrames, PlacesStep, Unstored, Stored, Idle, CallsFramed,
       CallsPlaced, Writing, Claiming
  <2>2. FramesFromOld
    BY <1>0, <1>1 DEF InsertEffect, SameFrames, FramesFromOld, FramesInPlace
  <2>3. DiskFromOld
    BY <1>0, <1>1 DEF InsertEffect, DiskFromOld, DiskInPlace
  <2>4. NewUncut'
    BY <1>0, <1>1 DEF InsertEffect, SameCalls, NewUncut, Unstored, Idle
  <2> QED
    BY <2>1, <2>2, <2>3, <2>4, FramesFollow, DiskFollows DEF OnePlace
<1>2. ASSUME NEW c \in Chains, NEW f \in Frames, StoreEffect(c, f) PROVE OnePlace'
  <2>1. PlacesStep
    <3>1. /\ op[c].at = "store" /\ op'[c].at \in {"mark", "claim"} /\ op'[c].r = op[c].r
          /\ (\A x \in Chains \ {c} : op'[x] = op[x]) /\ UNCHANGED <<nrecs, loc, doubtful, taken>>
          /\ \A g \in Frames : frame'[g].page = frame[g].page
      BY <1>0, <1>2 DEF StoreEffect, SameCalls, SameFrames
    <3>2. \A x \in Chains : Stored(x) => op[x].f \in Frames
      BY <1>0 DEF Stored, CallsFramed, Writing
    <3> QED
      BY <1>0, <3>1, <3>2 DEF PlacesStep, Unstored, Stored
  <2>3. DiskFromOld
    BY <1>0, <1>2 DEF StoreEffect, DiskFromOld, DiskInPlace
  <2>4. NewUncut'
    BY <1>0, <1>2 DEF StoreEffect, SameCalls, NewUncut, Unstored
  <2>2. FramesInPlace'
    <3> SUFFICES ASSUME NEW g \in Frames, NEW j \in DOMAIN frame'[g].recs
                 PROVE  RecordInPlace(frame[g].recs[j].r, frame[g].page, j)'
      BY DEF FramesInPlace
    <3>1. frame'[g].page = frame[g].page
      BY <1>2 DEF StoreEffect, SameFrames
    <3>2. CASE j \in DOMAIN frame[g].recs /\ frame'[g].recs[j] = frame[g].recs[j]
      <4>1. PICK r, p : r = frame[g].recs[j].r /\ p = frame[g].page
        OBVIOUS
      <4>2. RecordInPlace(r, p, j)'
        BY <1>0, <2>1, <3>2, <4>1, PlaceKept DEF FramesInPlace
      <4> QED
        BY <3>1, <3>2, <4>1, <4>2 DEF RecordInPlace
    <3>3. CASE ~(j \in DOMAIN frame[g].recs /\ frame'[g].recs[j] = frame[g].recs[j])
      <4>1. /\ op[c].at = "store" /\ op'[c].at = "mark" /\ op'[c].i = j /\ op'[c].f = f /\ op'[c].r = op[c].r /\ g = f
            /\ frame'[g].recs[j].r = op[c].r
        <5>1. PICK x : x = frame[f].recs
          OBVIOUS
        <5>2. x \in Seq(Record) /\ Len(x) \in Nat /\ DOMAIN x = 1 .. Len(x)
          BY <1>b, <5>1
        <5>3. PICK y : y = [r |-> op[c].r, cut |-> FALSE]
          OBVIOUS
        <5>4. g = f /\ op'[c].at = "mark" /\ op'[c].i = Len(x) + 1 /\ op'[c].f = f /\ frame'[g].recs = Append(x, y)
          BY <1>2, <3>3, <5>1, <5>3 DEF StoreEffect, SameFrames, Appended
        <5>5. j = Len(x) + 1 /\ frame'[g].recs[j] = y
          BY <3>3, <5>1, <5>2, <5>4
        <5> QED
          BY <1>2, <5>3, <5>4, <5>5 DEF StoreEffect
      <4>2. op[c].r \in 1 .. nrecs' /\ op[c].r \notin DOMAIN loc'
        BY <1>0, <1>2, <4>1 DEF StoreEffect, RecordsNew
      <4>3. \A b \in Chains : op'[b].r = op[c].r /\ op'[b].at # "idle" => b = c
        BY <1>0, <1>2, <4>1 DEF StoreEffect, RecordsNew, SameCalls
      <4> QED
        BY <3>1, <4>1, <4>2, <4>3 DEF RecordInPlace, Unstored, Stored
    <3> QED
      BY <3>2, <3>3
  <2> QED
    BY <2>1, <2>2, <2>3, <2>4, DiskFollows DEF OnePlace
<1>3. ASSUME NEW c \in Chains, NEW f \in Frames, MarkEffect(c, f) PROVE OnePlace'
  <2>1. PlacesStep
    BY <1>0, <1>3 DEF MarkEffect, SameCalls, SameFrames, PlacesStep, Unstored, Stored, Idle, CallsFramed,
       CallsPlaced, Writing, Claiming
  <2>2. FramesFromOld
    BY <1>0, <1>3 DEF MarkEffect, SameFrames, FramesFromOld, FramesInPlace
  <2>3. DiskFromOld
    BY <1>0, <1>3 DEF MarkEffect, DiskFromOld, DiskInPlace
  <2>4. NewUncut'
    BY <1>0, <1>3 DEF MarkEffect, SameCalls, NewUncut, Unstored, Idle
  <2> QED
    BY <2>1, <2>2, <2>3, <2>4, FramesFollow, DiskFollows DEF OnePlace
<1>4. ASSUME NEW c \in Chains, NEW f \in Frames, ReturnEffect(c, f) PROVE OnePlace'
  <2>1. PlacesStep
    BY <1>0, <1>4 DEF ReturnEffect, SameCalls, SameFrames, PlacesStep, Unstored, Stored, Idle, CallsFramed,
       CallsPlaced, Writing, Claiming
  <2>2. FramesFromOld
    BY <1>0, <1>4 DEF ReturnEffect, SameFrames, FramesFromOld, FramesInPlace
  <2>3. DiskFromOld
    BY <1>0, <1>4 DEF ReturnEffect, DiskFromOld, DiskInPlace
  <2>4. NewUncut'
    BY <1>0, <1>4 DEF ReturnEffect, SameCalls, NewUncut, Unstored, Idle
  <2> QED
    BY <2>1, <2>2, <2>3, <2>4, FramesFollow, DiskFollows DEF OnePlace
<1>5. ASSUME NEW c \in Chains, NEW f \in Frames, ReinitEffect(c, f) PROVE OnePlace'
  <2>1. PlacesStep
    <3>1. /\ op[c].at = "reinit" /\ op[c].f = f /\ op'[c].at = "link" /\ op'[c].r = op[c].r
          /\ (\A x \in Chains \ {c} : op'[x] = op[x]) /\ UNCHANGED <<nrecs, loc, doubtful, taken>>
          /\ \A g \in Frames \ {f} : frame'[g] = frame[g]
      BY <1>0, <1>5 DEF ReinitEffect, SameCalls, SameFrames
    <3>2. Replaced(f)
      BY <1>0, <3>1 DEF Replaced, Claiming
    <3>3. \A x \in Chains \ taken : Stored(x) => op[x].f \in Frames /\ op[x].f # f
      BY <1>0, <3>2 DEF Stored, CallsFramed, Writing, HandsApart, FramesApart, InHand
    <3> QED
      BY <1>0, <3>1, <3>3 DEF PlacesStep, Unstored, Stored
  <2>2. FramesFromOld
    BY <1>0, <1>5 DEF ReinitEffect, SameFrames, FramesFromOld, FramesInPlace
  <2>3. DiskFromOld
    BY <1>0, <1>5 DEF ReinitEffect, DiskFromOld, DiskInPlace
  <2>4. NewUncut'
    BY <1>0, <1>5 DEF ReinitEffect, SameCalls, NewUncut, Unstored, Idle
  <2> QED
    BY <2>1, <2>2, <2>3, <2>4, FramesFollow, DiskFollows DEF OnePlace
<1>6. ASSUME NEW c \in Chains, NEW f \in Frames, LinkEffect(c, f) PROVE OnePlace'
  <2>1. PlacesStep
    BY <1>0, <1>6 DEF LinkEffect, SameCalls, SameFrames, PlacesStep, Unstored, Stored, Idle, CallsFramed,
       CallsPlaced, Writing, Claiming
  <2>2. FramesFromOld
    BY <1>0, <1>6 DEF LinkEffect, SameFrames, FramesFromOld, FramesInPlace
  <2>3. DiskFromOld
    BY <1>0, <1>6 DEF LinkEffect, DiskFromOld, DiskInPlace
  <2>4. NewUncut'
    BY <1>0, <1>6 DEF LinkEffect, SameCalls, NewUncut, Unstored, Idle
  <2> QED
    BY <2>1, <2>2, <2>3, <2>4, FramesFollow, DiskFollows DEF OnePlace
<1>7. ASSUME NEW c \in Chains, FetchEffect(c) PROVE OnePlace'
  <2>1. PlacesStep
    BY <1>0, <1>7 DEF FetchEffect, SameCalls, SameFrames, PlacesStep, Unstored, Stored, Idle, CallsFramed,
       CallsPlaced, Writing, Claiming
  <2>2. FramesFromOld
    BY <1>0, <1>7 DEF FetchEffect, SameFrames, FramesFromOld, FramesInPlace
  <2>3. DiskFromOld
    BY <1>0, <1>7 DEF FetchEffect, DiskFromOld, DiskInPlace
  <2>4. NewUncut'
    BY <1>0, <1>7 DEF FetchEffect, SameCalls, NewUncut, Unstored, Idle
  <2> QED
    BY <2>1, <2>2, <2>3, <2>4, FramesFollow, DiskFollows DEF OnePlace
<1>8. ASSUME NEW o \in Owners, NEW f \in Frames, ClaimEffect(o, f) PROVE OnePlace'
  <2>1. PlacesStep
    BY <1>0, <1>8 DEF ClaimEffect, SameCalls, SameFrames, PlacesStep, Unstored, Stored, Idle, CallsFramed,
       CallsPlaced, Writing, Claiming
  <2>2. FramesFromOld
    BY <1>0, <1>8 DEF ClaimEffect, SameFrames, FramesFromOld, FramesInPlace
  <2>3. DiskFromOld
    BY <1>0, <1>8 DEF ClaimEffect, DiskFromOld, DiskInPlace
  <2>4. NewUncut'
    BY <1>0, <1>8 DEF ClaimEffect, SameCalls, NewUncut, Unstored, Idle
  <2> QED
    BY <2>1, <2>2, <2>3, <2>4, FramesFollow, DiskFollows DEF OnePlace
<1>9. ASSUME NEW o \in Owners, ThrowEffect(o) PROVE OnePlace'
  <2>1. PlacesStep
    BY <1>0, <1>9 DEF ThrowEffect, SameCalls, SameFrames, PlacesStep, Unstored, Stored, Idle, CallsFramed,
       CallsPlaced, Writing, Claiming
  <2>2. FramesFromOld
    BY <1>0, <1>9 DEF ThrowEffect, SameFrames, FramesFromOld, FramesInPlace
  <2>3. DiskFromOld
    BY <1>0, <1>9 DEF ThrowEffect, DiskFromOld, DiskInPlace
  <2>4. NewUncut'
    BY <1>0, <1>9 DEF ThrowEffect, SameCalls, NewUncut, Unstored, Idle
  <2> QED
    BY <2>1, <2>2, <2>3, <2>4, FramesFollow, DiskFollows DEF OnePlace
<1>10. ASSUME NEW o \in Owners, NEW f \in Frames, WriteBackEffect(o, f) PROVE OnePlace'
  <2>1. PlacesStep
    BY <1>0, <1>10 DEF WriteBackEffect, SameCalls, SameFrames, PlacesStep, Unstored, Stored, Idle, CallsFramed,
       CallsPlaced, Writing, Claiming
  <2>2. FramesFromOld
    BY <1>0, <1>10 DEF WriteBackEffect, SameFrames, FramesFromOld, FramesInPlace
  <2>3. DiskFromOld
    <3> SUFFICES ASSUME NEW p \in DeltaNumbers, NEW j \in DOMAIN disk'[p]
                 PROVE \E r : r = disk'[p][j].r /\ RecordInPlace(r, p, j)
      BY DEF DiskFromOld
    <3>1. CASE disk'[p] = disk[p]
      BY <1>0, <3>1 DEF DiskInPlace
    <3>2. CASE disk'[p] # disk[p]
      <4>1. p = frame[f].page /\ disk'[p] = frame[f].recs
        BY <1>c, <1>10, <3>2 DEF WriteBackEffect
      <4> QED
        BY <1>0, <4>1 DEF FramesInPlace
    <3> QED
      BY <3>1, <3>2
  <2>4. NewUncut'
    BY <1>0, <1>10 DEF WriteBackEffect, SameCalls, NewUncut, Unstored, Idle
  <2> QED
    BY <2>1, <2>2, <2>3, <2>4, FramesFollow, DiskFollows DEF OnePlace
<1>11. ASSUME NEW r \in DOMAIN loc, NEW p \in DeltaNumbers, ReadEffect(r, p) PROVE OnePlace'
  <2>1. PlacesStep
    <3>1. UNCHANGED <<nrecs, loc, taken>> /\ doubtful'.recs = doubtful.recs /\ \A x \in Chains : op'[x] = op[x]
      BY <1>0, <1>11 DEF ReadEffect, SameCalls
    <3>2. \A x \in Chains : Stored(x) => op[x].f \in Frames
      BY <1>0 DEF Stored, CallsFramed, Writing
    <3>3. \A x \in Chains \ taken : Stored(x) => frame'[op[x].f].page = frame[op[x].f].page
      BY <1>11, <3>2 DEF ReadEffect, SameFrames
    <3> QED
      BY <1>0, <3>1, <3>3, PlacesCalm
  <2>2. FramesFromOld
    BY <1>0, <1>11 DEF ReadEffect, SameFrames, FramesFromOld, FramesInPlace
  <2>3. DiskFromOld
    BY <1>0, <1>11 DEF ReadEffect, DiskFromOld, DiskInPlace
  <2>4. NewUncut'
    BY <1>0, <1>11 DEF ReadEffect, SameCalls, NewUncut, Unstored, Idle
  <2> QED
    BY <2>1, <2>2, <2>3, <2>4, FramesFollow, DiskFollows DEF OnePlace
<1>12. ASSUME NEW f \in Frames, NEW p \in DeltaNumbers, FillEffect(f, p) PROVE OnePlace'
  <2>1. PlacesStep
    <3>1. UNCHANGED <<nrecs, loc, taken>> /\ doubtful'.recs = doubtful.recs /\ \A x \in Chains : op'[x] = op[x]
      BY <1>0, <1>12 DEF FillEffect, SameCalls
    <3>2. \A x \in Chains : Stored(x) => op[x].f \in Frames
      BY <1>0 DEF Stored, CallsFramed, Writing
    <3>4. Replaced(f)
      BY <1>0, <1>12 DEF FillEffect, Replaced, Claiming
    <3>5. \A x \in Chains \ taken : Stored(x) => op[x].f # f
      BY <1>0, <3>2, <3>4 DEF Stored, HandsApart, FramesApart, InHand
    <3>3. \A x \in Chains \ taken : Stored(x) => frame'[op[x].f].page = frame[op[x].f].page
      BY <1>12, <3>2, <3>5 DEF FillEffect, SameFrames
    <3> QED
      BY <1>0, <3>1, <3>3, PlacesCalm
  <2>2. FramesFromOld
    <3> SUFFICES ASSUME NEW g \in Frames, NEW j \in DOMAIN frame'[g].recs
                 PROVE  \E r, q : r = frame'[g].recs[j].r /\ q = frame'[g].page /\ RecordInPlace(r, q, j)
      BY DEF FramesFromOld
    <3>1. CASE g = f
      BY <1>0, <1>12, <3>1 DEF FillEffect, DiskInPlace
    <3>2. CASE g # f
      BY <1>0, <1>12, <3>2 DEF FillEffect, SameFrames, FramesInPlace
    <3> QED
      BY <3>1, <3>2
  <2>3. DiskFromOld
    BY <1>0, <1>12 DEF FillEffect, DiskFromOld, DiskInPlace
  <2>4. NewUncut'
    BY <1>0, <1>12 DEF FillEffect, SameCalls, NewUncut, Unstored, Idle
  <2> QED
    BY <2>1, <2>2, <2>3, <2>4, FramesFollow, DiskFollows DEF OnePlace
<1>13. ASSUME NEW f \in Frames, NEW i \in Nat, ClearEffect(f, i) PROVE OnePlace'
  <2>1. PlacesStep
    <3>1. UNCHANGED <<nrecs, loc, taken>> /\ doubtful'.recs = doubtful.recs /\ \A x \in Chains : op'[x] = op[x]
      BY <1>0, <1>13 DEF ClearEffect, SameCalls
    <3>2. \A x \in Chains : Stored(x) => op[x].f \in Frames
      BY <1>0 DEF Stored, CallsFramed, Writing
    <3>3. \A x \in Chains \ taken : Stored(x) => frame'[op[x].f].page = frame[op[x].f].page
      BY <1>13, <3>2 DEF ClearEffect, SameFrames
    <3> QED
      BY <1>0, <3>1, <3>3, PlacesCalm
  <2>2. FramesFromOld
    <3> SUFFICES ASSUME NEW g \in Frames, NEW j \in DOMAIN frame'[g].recs
                 PROVE  \E r, q : r = frame'[g].recs[j].r /\ q = frame'[g].page /\ RecordInPlace(r, q, j)
      BY DEF FramesFromOld
    <3>1. frame'[g].page = frame[g].page /\ j \in DOMAIN frame[g].recs /\ frame'[g].recs[j].r = frame[g].recs[j].r
      <4>1. CASE g = f
        BY <1>b, <1>13, <4>1 DEF ClearEffect, CutAt
      <4>2. CASE g # f
        BY <1>13, <4>2 DEF ClearEffect, SameFrames
      <4> QED
        BY <4>1, <4>2
    <3> QED
      BY <1>0, <3>1 DEF FramesInPlace
  <2>3. DiskFromOld
    BY <1>0, <1>13 DEF ClearEffect, DiskFromOld, DiskInPlace
  <2>4. NewUncut'
    <3>1. i \in DOMAIN frame[f].recs
      BY <1>b, <1>13 DEF ClearEffect, CutAt
    <3>2. PICK x : x = frame[f].recs[i].r
      OBVIOUS
    <3>3. RecordInPlace(x, frame[f].page, i) /\ cut' = cut \cup {x}
      BY <1>0, <1>13, <3>1, <3>2 DEF ClearEffect, CutAt, FramesInPlace
    <3>4. \A c \in Chains : Unstored(c) => op[c].r # x
      BY <3>3 DEF RecordInPlace
    <3>5. \A c \in Chains : op'[c] = op[c]
      BY <1>0, <1>13 DEF ClearEffect, SameCalls
    <3> QED
      BY <1>0, <3>3, <3>4, <3>5 DEF NewUncut, Unstored
  <2> QED
    BY <2>1, <2>2, <2>3, <2>4, FramesFollow, DiskFollows DEF OnePlace
<1>14. ASSUME NEW f \in Frames, UnlatchEffect(f) PROVE OnePlace'
  <2>1. PlacesStep
    <3>1. UNCHANGED <<nrecs, loc, taken>> /\ doubtful'.recs = doubtful.recs /\ \A x \in Chains : op'[x] = op[x]
      BY <1>0, <1>14 DEF UnlatchEffect, SameCalls
    <3>2. \A x \in Chains : Stored(x) => op[x].f \in Frames
      BY <1>0 DEF Stored, CallsFramed, Writing
    <3>3. \A x \in Chains \ taken : Stored(x) => frame'[op[x].f].page = frame[op[x].f].page
      BY <1>14, <3>2 DEF UnlatchEffect, SameFrames
    <3> QED
      BY <1>0, <3>1, <3>3, PlacesCalm
  <2>2. FramesFromOld
    BY <1>0, <1>14 DEF UnlatchEffect, SameFrames, FramesFromOld, FramesInPlace
  <2>3. DiskFromOld
    BY <1>0, <1>14 DEF UnlatchEffect, DiskFromOld, DiskInPlace
  <2>4. NewUncut'
    BY <1>0, <1>14 DEF UnlatchEffect, SameCalls, NewUncut, Unstored, Idle
  <2> QED
    BY <2>1, <2>2, <2>3, <2>4, FramesFollow, DiskFollows DEF OnePlace
<1>15. ASSUME NEW f \in Frames, FlushLatchEffect(f) PROVE OnePlace'
  <2>1. PlacesStep
    <3>1. UNCHANGED <<nrecs, loc, taken>> /\ doubtful'.recs = doubtful.recs /\ \A x \in Chains : op'[x] = op[x]
      BY <1>0, <1>15 DEF FlushLatchEffect, SameCalls
    <3>2. \A x \in Chains : Stored(x) => op[x].f \in Frames
      BY <1>0 DEF Stored, CallsFramed, Writing
    <3>3. \A x \in Chains \ taken : Stored(x) => frame'[op[x].f].page = frame[op[x].f].page
      BY <1>15, <3>2 DEF FlushLatchEffect, SameFrames
    <3> QED
      BY <1>0, <3>1, <3>3, PlacesCalm
  <2>2. FramesFromOld
    BY <1>0, <1>15 DEF FlushLatchEffect, SameFrames, FramesFromOld, FramesInPlace
  <2>3. DiskFromOld
    BY <1>0, <1>15 DEF FlushLatchEffect, DiskFromOld, DiskInPlace
  <2>4. NewUncut'
    BY <1>0, <1>15 DEF FlushLatchEffect, SameCalls, NewUncut, Unstored, Idle
  <2> QED
    BY <2>1, <2>2, <2>3, <2>4, FramesFollow, DiskFollows DEF OnePlace
<1>16. ASSUME NEW f \in Frames, NEW p \in DeltaNumbers, FlushWriteEffect(f, p) PROVE OnePlace'
  <2>1. PlacesStep
    <3>1. UNCHANGED <<nrecs, loc, taken>> /\ doubtful'.recs = doubtful.recs /\ \A x \in Chains : op'[x] = op[x]
      BY <1>0, <1>16 DEF FlushWriteEffect, SameCalls
    <3>2. \A x \in Chains : Stored(x) => op[x].f \in Frames
      BY <1>0 DEF Stored, CallsFramed, Writing
    <3>3. \A x \in Chains \ taken : Stored(x) => frame'[op[x].f].page = frame[op[x].f].page
      BY <1>16, <3>2 DEF FlushWriteEffect, SameFrames
    <3> QED
      BY <1>0, <3>1, <3>3, PlacesCalm
  <2>2. FramesFromOld
    BY <1>0, <1>16 DEF FlushWriteEffect, SameFrames, FramesFromOld, FramesInPlace
  <2>3. DiskFromOld
    <3> SUFFICES ASSUME NEW q \in DeltaNumbers, NEW j \in DOMAIN disk'[q]
                 PROVE \E r : r = disk'[q][j].r /\ RecordInPlace(r, q, j)
      BY DEF DiskFromOld
    <3>1. CASE disk'[q] = disk[q]
      BY <1>0, <3>1 DEF DiskInPlace
    <3>2. CASE disk'[q] # disk[q]
      <4>1. q = frame[f].page /\ disk'[q] = frame[f].recs
        BY <1>0, <1>16, <3>2 DEF FlushWriteEffect
      <4> QED
        BY <1>0, <4>1 DEF FramesInPlace
    <3> QED
      BY <3>1, <3>2
  <2>4. NewUncut'
    BY <1>0, <1>16 DEF FlushWriteEffect, SameCalls, NewUncut, Unstored, Idle
  <2> QED
    BY <2>1, <2>2, <2>3, <2>4, FramesFollow, DiskFollows DEF OnePlace
<1>17. ASSUME NEW f \in Frames, NEW p \in DeltaNumbers, FlushCleanEffect(f, p) PROVE OnePlace'
  <2>1. PlacesStep
    <3>1. UNCHANGED <<nrecs, loc, taken>> /\ doubtful'.recs = doubtful.recs /\ \A x \in Chains : op'[x] = op[x]
      BY <1>0, <1>17 DEF FlushCleanEffect, SameCalls
    <3>2. \A x \in Chains : Stored(x) => op[x].f \in Frames
      BY <1>0 DEF Stored, CallsFramed, Writing
    <3>3. \A x \in Chains \ taken : Stored(x) => frame'[op[x].f].page = frame[op[x].f].page
      BY <1>17, <3>2 DEF FlushCleanEffect, SameFrames
    <3> QED
      BY <1>0, <3>1, <3>3, PlacesCalm
  <2>2. FramesFromOld
    BY <1>0, <1>17 DEF FlushCleanEffect, SameFrames, FramesFromOld, FramesInPlace
  <2>3. DiskFromOld
    BY <1>0, <1>17 DEF FlushCleanEffect, DiskFromOld, DiskInPlace
  <2>4. NewUncut'
    BY <1>0, <1>17 DEF FlushCleanEffect, SameCalls, NewUncut, Unstored, Idle
  <2> QED
    BY <2>1, <2>2, <2>3, <2>4, FramesFollow, DiskFollows DEF OnePlace
<1>18. CASE UNCHANGED deltaVars
  <2>1. PlacesStep
    BY <1>0, <1>18 DEF deltaVars, SameCalls, SameFrames, PlacesStep, Unstored, Stored, Idle, CallsFramed,
       CallsPlaced, Writing, Claiming
  <2>2. FramesFromOld
    BY <1>0, <1>18 DEF deltaVars, SameFrames, FramesFromOld, FramesInPlace
  <2>3. DiskFromOld
    BY <1>0, <1>18 DEF deltaVars, DiskFromOld, DiskInPlace
  <2>4. NewUncut'
    BY <1>0, <1>18 DEF deltaVars, SameCalls, NewUncut, Unstored, Idle
  <2> QED
    BY <2>1, <2>2, <2>3, <2>4, FramesFollow, DiskFollows DEF OnePlace
<1> QED
  BY StepEffects, <1>1, <1>2, <1>3, <1>4, <1>5, <1>6, <1>7, <1>8, <1>9, <1>10, <1>11, <1>12, <1>13, <1>14,
     <1>15, <1>16, <1>17, <1>18 DEF Effects

-----------------------------------------------------------------------------
(* Pages that leave their frame *)

\* A page that is being written back is in no frame the map knows of.
LEMMA LeavingKept ==
  ASSUME DeltaInv, [Next]_deltaVars
  PROVE  LeavingUnmapped'
<1>0. /\ Reader \in Owners /\ Reader \notin Chains /\ Chains \subseteq Owners
      /\ \A o \in Owners : o # Reader => o \in Chains
      /\ (flush.at # "idle" => flush.f \in Frames)
      /\ CallsPlaced /\ CallsFramed /\ ClaimsOld /\ LeavingUnmapped /\ ReaderMisses /\ NumbersNew
      /\ NoFrame \notin Frames /\ map \in [DeltaNumbers -> Frames \cup {NoFrame}] /\ npages \in Nat
  BY OwnersAre, FlushFields DEF DeltaInv, CallsSound, MapExact, NumbersFresh, RecordsKept, DeltaParameters,
     DeltaTypeOK
<1>1. ASSUME NEW c \in Chains, InsertEffect(c) PROVE LeavingUnmapped'
  <2>1. LeavingUnmapped'
    <3>1. (\A x \in Owners : op'[x].at = "write" => op'[x] = op[x]) /\ map' = map /\ doubtful' = doubtful
      BY <1>1 DEF InsertEffect, SameCalls
    <3> QED
      BY <1>0, <3>1 DEF LeavingUnmapped, Leaving
  <2> QED
    BY <2>1
<1>2. ASSUME NEW c \in Chains, NEW f \in Frames, StoreEffect(c, f) PROVE LeavingUnmapped'
  <2>1. LeavingUnmapped'
    <3>1. (\A x \in Owners : op'[x].at = "write" => op'[x] = op[x]) /\ map' = map /\ doubtful' = doubtful
      BY <1>2 DEF StoreEffect, SameCalls
    <3> QED
      BY <1>0, <3>1 DEF LeavingUnmapped, Leaving
  <2> QED
    BY <2>1
<1>3. ASSUME NEW c \in Chains, NEW f \in Frames, MarkEffect(c, f) PROVE LeavingUnmapped'
  <2>1. LeavingUnmapped'
    <3>1. (\A x \in Owners : op'[x].at = "write" => op'[x] = op[x]) /\ map' = map /\ doubtful' = doubtful
      BY <1>3 DEF MarkEffect, SameCalls
    <3> QED
      BY <1>0, <3>1 DEF LeavingUnmapped, Leaving
  <2> QED
    BY <2>1
<1>4. ASSUME NEW c \in Chains, NEW f \in Frames, ReturnEffect(c, f) PROVE LeavingUnmapped'
  <2>1. LeavingUnmapped'
    BY <1>0, <1>4 DEF ReturnEffect, SameCalls, SameFrames, LeavingUnmapped, Leaving, Idle, CallsFramed,
       ClaimsOld, NumbersNew, Claiming, DeltaNumbers
  <2> QED
    BY <2>1
<1>5. ASSUME NEW c \in Chains, NEW f \in Frames, ReinitEffect(c, f) PROVE LeavingUnmapped'
  <2>1. LeavingUnmapped'
    BY <1>0, <1>5 DEF ReinitEffect, SameCalls, SameFrames, LeavingUnmapped, Leaving, Idle, CallsFramed,
       ClaimsOld, NumbersNew, Claiming, DeltaNumbers
  <2> QED
    BY <2>1
<1>6. ASSUME NEW c \in Chains, NEW f \in Frames, LinkEffect(c, f) PROVE LeavingUnmapped'
  <2>1. LeavingUnmapped'
    <3>1. (\A x \in Owners : op'[x].at = "write" => op'[x] = op[x]) /\ map' = map /\ doubtful' = doubtful
      BY <1>6 DEF LinkEffect, SameCalls
    <3> QED
      BY <1>0, <3>1 DEF LeavingUnmapped, Leaving
  <2> QED
    BY <2>1
<1>7. ASSUME NEW c \in Chains, FetchEffect(c) PROVE LeavingUnmapped'
  <2>1. LeavingUnmapped'
    BY <1>0, <1>7 DEF FetchEffect, SameCalls, SameFrames, LeavingUnmapped, Leaving, Idle, CallsFramed,
       ClaimsOld, NumbersNew, Claiming, DeltaNumbers
  <2> QED
    BY <2>1
<1>8. ASSUME NEW o \in Owners, NEW f \in Frames, ClaimEffect(o, f) PROVE LeavingUnmapped'
  <2>1. LeavingUnmapped'
    BY <1>0, <1>8 DEF ClaimEffect, SameCalls, SameFrames, LeavingUnmapped, Leaving, Idle, CallsFramed,
       ClaimsOld, NumbersNew, Claiming, DeltaNumbers
  <2> QED
    BY <2>1
<1>9. ASSUME NEW o \in Owners, ThrowEffect(o) PROVE LeavingUnmapped'
  <2>1. LeavingUnmapped'
    BY <1>0, <1>9 DEF ThrowEffect, SameCalls, SameFrames, LeavingUnmapped, Leaving, Idle, CallsFramed,
       ClaimsOld, NumbersNew, Claiming, DeltaNumbers
  <2> QED
    BY <2>1
<1>10. ASSUME NEW o \in Owners, NEW f \in Frames, WriteBackEffect(o, f) PROVE LeavingUnmapped'
  <2>1. LeavingUnmapped'
    BY <1>0, <1>10 DEF WriteBackEffect, SameCalls, SameFrames, LeavingUnmapped, Leaving, Idle, CallsFramed,
       ClaimsOld, NumbersNew, Claiming, DeltaNumbers
  <2> QED
    BY <2>1
<1>11. ASSUME NEW r \in DOMAIN loc, NEW p \in DeltaNumbers, ReadEffect(r, p) PROVE LeavingUnmapped'
  <2>1. LeavingUnmapped'
    BY <1>0, <1>11 DEF ReadEffect, SameCalls, SameFrames, LeavingUnmapped, Leaving, Idle, CallsFramed,
       ClaimsOld, NumbersNew, Claiming, DeltaNumbers
  <2> QED
    BY <2>1
<1>12. ASSUME NEW f \in Frames, NEW p \in DeltaNumbers, FillEffect(f, p) PROVE LeavingUnmapped'
  <2>1. LeavingUnmapped'
    BY <1>0, <1>12 DEF FillEffect, SameCalls, SameFrames, LeavingUnmapped, Leaving, Idle, CallsFramed,
       ClaimsOld, NumbersNew, Claiming, DeltaNumbers
  <2> QED
    BY <2>1
<1>13. ASSUME NEW f \in Frames, NEW i \in Nat, ClearEffect(f, i) PROVE LeavingUnmapped'
  <2>1. LeavingUnmapped'
    <3>1. (\A x \in Owners : op'[x].at = "write" => op'[x] = op[x]) /\ map' = map /\ doubtful' = doubtful
      BY <1>13 DEF ClearEffect, SameCalls
    <3> QED
      BY <1>0, <3>1 DEF LeavingUnmapped, Leaving
  <2> QED
    BY <2>1
<1>14. ASSUME NEW f \in Frames, UnlatchEffect(f) PROVE LeavingUnmapped'
  <2>1. LeavingUnmapped'
    BY <1>0, <1>14 DEF UnlatchEffect, SameCalls, SameFrames, LeavingUnmapped, Leaving, Idle, CallsFramed,
       ClaimsOld, NumbersNew, Claiming, DeltaNumbers
  <2> QED
    BY <2>1
<1>15. ASSUME NEW f \in Frames, FlushLatchEffect(f) PROVE LeavingUnmapped'
  <2>1. LeavingUnmapped'
    BY <1>0, <1>15 DEF FlushLatchEffect, SameCalls, SameFrames, LeavingUnmapped, Leaving, Idle, CallsFramed,
       ClaimsOld, NumbersNew, Claiming, DeltaNumbers
  <2> QED
    BY <2>1
<1>16. ASSUME NEW f \in Frames, NEW p \in DeltaNumbers, FlushWriteEffect(f, p) PROVE LeavingUnmapped'
  <2>1. LeavingUnmapped'
    BY <1>0, <1>16 DEF FlushWriteEffect, SameCalls, SameFrames, LeavingUnmapped, Leaving, Idle, CallsFramed,
       ClaimsOld, NumbersNew, Claiming, DeltaNumbers
  <2> QED
    BY <2>1
<1>17. ASSUME NEW f \in Frames, NEW p \in DeltaNumbers, FlushCleanEffect(f, p) PROVE LeavingUnmapped'
  <2>1. LeavingUnmapped'
    BY <1>0, <1>17 DEF FlushCleanEffect, SameCalls, SameFrames, LeavingUnmapped, Leaving, Idle, CallsFramed,
       ClaimsOld, NumbersNew, Claiming, DeltaNumbers
  <2> QED
    BY <2>1
<1>18. CASE UNCHANGED deltaVars
  BY <1>0, <1>18 DEF LeavingUnmapped, Leaving, deltaVars
<1> QED
  BY StepEffects, <1>1, <1>2, <1>3, <1>4, <1>5, <1>6, <1>7, <1>8, <1>9, <1>10, <1>11, <1>12, <1>13, <1>14,
     <1>15, <1>16, <1>17, <1>18 DEF Effects

-----------------------------------------------------------------------------
(* A kept record stays kept *)

\* A record in an image stays there when the image only grows and its link stays.
LEMMA HasKept ==
  ASSUME NEW x, NEW y, NEW j, NEW r, Has(x, j, r), j \in 1 .. Len(y), y[j] = x[j], r \in cut' <=> r \in cut
  PROVE  Has(y, j, r)'
BY DEF Has

\* What is known of a record that was returned or is about to be.
Known(r, p, j) ==
  /\ p \in DeltaNumbers
  /\ \A g \in Frames : \A k \in DOMAIN frame[g].recs : frame[g].recs[k].r = r => frame[g].page = p /\ k = j
  /\ \A c \in Chains : op[c].at = "mark" => op[c].r # r
  /\ \A c \in Chains : op[c].at \in {"write", "reinit"} => op[c].page # p

\* Images grow, nothing is cleaned or moved: what was kept is kept.
LEMMA KeptCalm ==
  ASSUME NEW r, NEW p \in DeltaNumbers, NEW j, KeptAt(r, p, j), map'[p] = map[p], disk'[p] = disk[p],
         r \in cut' <=> r \in cut,
         map[p] # NoFrame => map[p] \in Frames /\ (frame[map[p]].dirty => frame'[map[p]].dirty),
         \A o \in Owners : Leaving(o, p)' <=> Leaving(o, p),
         \A o \in Owners : Leaving(o, p) => op[o].f \in Frames /\ op'[o].f = op[o].f,
         \A g \in Frames : g = map[p] \/ (\E o \in Owners : Leaving(o, p) /\ op[o].f = g) =>
           (Has(frame[g].recs, j, r) => Has(frame[g].recs, j, r)')
  PROVE  KeptAt(r, p, j)'
<1>1. Has(disk[p], j, r) => Has(disk[p], j, r)'
  BY DEF Has
<1>2. ASSUME map'[p] # NoFrame
      PROVE  Has(frame[map[p]].recs, j, r)' /\ (frame'[map'[p]].dirty \/ Has(disk[p], j, r)')
  <2>1. Has(frame[map[p]].recs, j, r) /\ (frame[map[p]].dirty \/ Has(disk[p], j, r)) /\ map[p] \in Frames
    BY <1>2 DEF KeptAt
  <2>2. PICK g \in Frames : g = map[p]
    BY <2>1
  <2>3. Has(frame[g].recs, j, r)'
    BY <2>1, <2>2
  <2>4. Has(frame[map[p]].recs, j, r)'
    BY <2>2, <2>3 DEF Has
  <2>5. frame[map[p]].dirty => frame'[map'[p]].dirty
    BY <1>2
  <2>6. frame'[map'[p]].dirty \/ Has(disk[p], j, r)'
    BY <1>1, <2>1, <2>5
  <2> QED
    BY <2>4, <2>6
<1>3. ASSUME map'[p] = NoFrame, NEW o \in Owners, Leaving(o, p)'
      PROVE  Has(frame[op[o].f].recs, j, r)'
  <2>1. Leaving(o, p) /\ op[o].f \in Frames /\ op'[o].f = op[o].f /\ Has(frame[op[o].f].recs, j, r)
    BY <1>3 DEF KeptAt
  <2>2. PICK g \in Frames : g = op[o].f
    BY <2>1
  <2>3. Has(frame[g].recs, j, r)'
    BY <2>1, <2>2
  <2> QED
    BY <2>1, <2>2, <2>3 DEF Has
<1>4. ASSUME map'[p] = NoFrame, \A o \in Owners : ~Leaving(o, p)'
      PROVE  Has(disk[p], j, r)'
  BY <1>1, <1>4 DEF KeptAt
<1> QED
  BY <1>2, <1>3, <1>4 DEF KeptAt

\* The histories of doubtful records and pages only grow.
LEMMA DoubtStays ==
  ASSUME DeltaTypeOK, Effects
  PROVE  doubtful.pages \subseteq doubtful'.pages /\ doubtful.recs \subseteq doubtful'.recs
<1>1. \A c \in Chains : InsertEffect(c) \/ FetchEffect(c) => doubtful' = doubtful
  BY DEF InsertEffect, FetchEffect
<1>2. \A c \in Chains : \A f \in Frames :
        StoreEffect(c, f) \/ MarkEffect(c, f) \/ ReinitEffect(c, f) \/ LinkEffect(c, f) => doubtful' = doubtful
  BY DEF StoreEffect, MarkEffect, ReinitEffect, LinkEffect
<1>3. \A c \in Chains : \A f \in Frames : ReturnEffect(c, f) =>
        doubtful.pages \subseteq doubtful'.pages /\ doubtful.recs \subseteq doubtful'.recs
  BY DEF ReturnEffect
<1>4. \A o \in Owners : ThrowEffect(o) => doubtful' = doubtful
  BY DEF ThrowEffect
<1>5. \A o \in Owners : \A f \in Frames : ClaimEffect(o, f) \/ WriteBackEffect(o, f) => doubtful' = doubtful
  BY DEF ClaimEffect, WriteBackEffect
<1>6. \A r \in DOMAIN loc : \A p \in DeltaNumbers : ReadEffect(r, p) => doubtful' = doubtful
  BY DEF ReadEffect
<1>7. \A f \in Frames : \A p \in DeltaNumbers : FillEffect(f, p) \/ FlushCleanEffect(f, p) =>
        doubtful.pages \subseteq doubtful'.pages /\ doubtful.recs \subseteq doubtful'.recs
  BY DEF FillEffect, FlushCleanEffect
<1>8. \A f \in Frames : \A p \in DeltaNumbers : FlushWriteEffect(f, p) => doubtful' = doubtful
  BY DEF FlushWriteEffect
<1>9. \A f \in Frames : \A i \in Nat : ClearEffect(f, i) => doubtful' = doubtful
  BY DEF ClearEffect
<1>10. \A f \in Frames : UnlatchEffect(f) \/ FlushLatchEffect(f) => doubtful' = doubtful
  BY DEF UnlatchEffect, FlushLatchEffect
<1>11. UNCHANGED deltaVars => doubtful' = doubtful
  BY DEF deltaVars
<1> QED
  BY <1>1, <1>2, <1>3, <1>4, <1>5, <1>6, <1>7, <1>8, <1>9, <1>10, <1>11 DEF Effects

\* A record that can be read stays readable.
LEMMA KeptStep ==
  ASSUME DeltaInv, [Next]_deltaVars, NEW r, NEW p \in DeltaNumbers, p \notin doubtful'.pages, NEW j,
         Known(r, p, j), KeptAt(r, p, j)
  PROVE  KeptAt(r, p, j)'
<1>0. /\ Reader \in Owners /\ Reader \notin Chains /\ Chains \subseteq Owners
      /\ \A o \in Owners : o # Reader => o \in Chains
      /\ (flush.at # "idle" => flush.f \in Frames)
      /\ CallsFramed /\ ClaimsLatched /\ HoldersApart /\ FlushApart
      /\ MapHolds /\ FramesMapped /\ HeldPaged /\ ReaderMisses /\ LeavingUnmapped
      /\ NoFrame \notin Frames /\ map \in [DeltaNumbers -> Frames \cup {NoFrame}] /\ disk \in [DeltaNumbers -> Seq(Record)]
      /\ \A g \in Frames : frame[g].page \in 0 .. MaxPages
  BY OwnersAre, FlushFields, FrameFields DEF DeltaInv, CallsSound, OneHolder, MapExact, NumbersFresh,
     RecordsKept, DeltaParameters, DeltaTypeOK
<1>a. map[p] # NoFrame => map[p] \in Frames
  BY <1>0
<1>b. \A x \in Owners : Leaving(x, p) => op[x].f \in Frames
  BY <1>0 DEF Leaving, CallsFramed, Claiming
<1>c. \A g \in Frames :
        /\ frame[g].recs \in Seq(Record) /\ DOMAIN frame[g].recs = 1 .. Len(frame[g].recs)
        /\ frame[g].page \in 0 .. MaxPages
  BY FrameFields DEF DeltaInv
<1>p. doubtful.pages \subseteq doubtful'.pages /\ p \notin doubtful'.pages /\ p \notin doubtful.pages
  <2>1. doubtful.pages \subseteq doubtful'.pages
    BY StepEffects, DoubtStays DEF DeltaInv
  <2> QED
    BY <2>1
<1>1. ASSUME NEW c \in Chains, InsertEffect(c) PROVE KeptAt(r, p, j)'
  <2>1. map' = map /\ disk' = disk /\ cut' = cut
    BY <1>1 DEF InsertEffect
  <2>2. \A x \in Owners : Leaving(x, p)' <=> Leaving(x, p)
    BY <1>1 DEF InsertEffect, SameCalls, Leaving, Idle
  <2>3. \A x \in Owners : Leaving(x, p) => op'[x].f = op[x].f
    BY <1>1 DEF InsertEffect, SameCalls, Leaving
  <2>4. \A g \in Frames : frame'[g].recs = frame[g].recs /\ (frame[g].dirty => frame'[g].dirty)
    BY <1>1 DEF InsertEffect, SameFrames
  <2>5. \A g \in Frames : Has(frame[g].recs, j, r) => Has(frame[g].recs, j, r)'
    BY <2>1, <2>4 DEF Has
  <2> QED
    BY <1>0, <1>a, <1>b, <2>1, <2>2, <2>3, <2>4, <2>5, KeptCalm
<1>2. ASSUME NEW c \in Chains, NEW f \in Frames, StoreEffect(c, f) PROVE KeptAt(r, p, j)'
  <2>1. map' = map /\ disk' = disk /\ cut' = cut
    BY <1>2 DEF StoreEffect
  <2>2. \A x \in Owners : Leaving(x, p)' <=> Leaving(x, p)
    BY <1>2 DEF StoreEffect, SameCalls, Leaving
  <2>3. \A x \in Owners : Leaving(x, p) => op'[x].f = op[x].f
    BY <1>2 DEF StoreEffect, SameCalls, Leaving
  <2>4. \A g \in Frames : frame[g].dirty => frame'[g].dirty
    BY <1>2 DEF StoreEffect, SameFrames
  <2>5. ASSUME NEW g \in Frames, Has(frame[g].recs, j, r) PROVE Has(frame[g].recs, j, r)'
    <3>1. CASE frame'[g].recs = frame[g].recs
      BY <2>1, <2>5, <3>1 DEF Has
    <3>2. CASE frame'[g].recs # frame[g].recs
      <4>1. PICK x, y : x = frame[g].recs /\ y = [r |-> op[c].r, cut |-> FALSE]
        OBVIOUS
      <4>2. x \in Seq(Record) /\ frame'[g].recs = Append(x, y) /\ y \in Record
        BY <1>c, <1>2, <3>2, <4>1 DEF StoreEffect, Appended, SameFrames, Record, Call
      <4>3. j \in 1 .. Len(x) /\ j \in 1 .. Len(frame'[g].recs) /\ frame'[g].recs[j] = x[j]
        BY <2>5, <4>1, <4>2 DEF Has
      <4> QED
        BY <2>1, <2>5, <4>1, <4>3 DEF Has
    <3> QED
      BY <3>1, <3>2
  <2> QED
    BY <1>0, <1>a, <1>b, <2>1, <2>2, <2>3, <2>4, <2>5, KeptCalm
<1>3. ASSUME NEW c \in Chains, NEW f \in Frames, MarkEffect(c, f) PROVE KeptAt(r, p, j)'
  <2>1. map' = map /\ disk' = disk /\ cut' = cut
    BY <1>3 DEF MarkEffect
  <2>2. \A x \in Owners : Leaving(x, p)' <=> Leaving(x, p)
    BY <1>3 DEF MarkEffect, SameCalls, Leaving, Idle
  <2>3. \A x \in Owners : Leaving(x, p) => op'[x].f = op[x].f
    BY <1>3 DEF MarkEffect, SameCalls, Leaving
  <2>4. \A g \in Frames : frame'[g].recs = frame[g].recs /\ (frame[g].dirty => frame'[g].dirty)
    BY <1>3 DEF MarkEffect, SameFrames
  <2>5. \A g \in Frames : Has(frame[g].recs, j, r) => Has(frame[g].recs, j, r)'
    BY <2>1, <2>4 DEF Has
  <2> QED
    BY <1>0, <1>a, <1>b, <2>1, <2>2, <2>3, <2>4, <2>5, KeptCalm
<1>4. ASSUME NEW c \in Chains, NEW f \in Frames, ReturnEffect(c, f) PROVE KeptAt(r, p, j)'
  <2>1. map' = map /\ disk' = disk /\ cut' = cut
    BY <1>4 DEF ReturnEffect
  <2>2. \A x \in Owners : Leaving(x, p)' <=> Leaving(x, p)
    BY <1>4 DEF ReturnEffect, SameCalls, Leaving, Idle
  <2>3. \A x \in Owners : Leaving(x, p) => op'[x].f = op[x].f
    BY <1>4 DEF ReturnEffect, SameCalls, Leaving
  <2>4. \A g \in Frames : frame'[g].recs = frame[g].recs /\ (frame[g].dirty => frame'[g].dirty)
    BY <1>4 DEF ReturnEffect, SameFrames
  <2>5. \A g \in Frames : Has(frame[g].recs, j, r) => Has(frame[g].recs, j, r)'
    BY <2>1, <2>4 DEF Has
  <2> QED
    BY <1>0, <1>a, <1>b, <2>1, <2>2, <2>3, <2>4, <2>5, KeptCalm
<1>5. ASSUME NEW c \in Chains, NEW f \in Frames, ReinitEffect(c, f) PROVE KeptAt(r, p, j)'
  <2>1. /\ disk' = disk /\ cut' = cut /\ op[c].at = "reinit" /\ op[c].f = f /\ map'[p] = map[p]
    <3>1. op[c].page # p /\ op[c].page \in DeltaNumbers
      BY <1>5 DEF ReinitEffect, Known
    <3> QED
      BY <1>0, <1>5, <3>1 DEF ReinitEffect
  <2>2. \A x \in Owners : Leaving(x, p)' <=> Leaving(x, p)
    BY <1>5 DEF ReinitEffect, SameCalls, Leaving
  <2>3. \A x \in Owners : Leaving(x, p) => op'[x].f = op[x].f /\ op[x].f # f
    <3>1. \A x \in Owners : Leaving(x, p) => x # c /\ HoldsFrame(x)
      BY <2>1 DEF Leaving, HoldsFrame, Claiming
    <3>2. c \in Owners /\ HoldsFrame(c)
      BY <1>0, <2>1 DEF HoldsFrame, Claiming
    <3>3. \A x \in Owners \ {c} : op'[x] = op[x]
      BY <1>5 DEF ReinitEffect, SameCalls
    <3> QED
      BY <1>0, <2>1, <3>1, <3>2, <3>3 DEF HoldersApart
  <2>4. map[p] # f
    BY <1>0, <1>5 DEF ReinitEffect, MapHolds, Replaced, Claiming
  <2>5. \A g \in Frames \ {f} : frame'[g] = frame[g]
    BY <1>5 DEF ReinitEffect, SameFrames
  <2>6. \A g \in Frames \ {f} : Has(frame[g].recs, j, r) => Has(frame[g].recs, j, r)'
    BY <2>1, <2>5 DEF Has
  <2>7. map[p] # NoFrame => map[p] \in Frames /\ (frame[map[p]].dirty => frame'[map[p]].dirty)
    BY <1>a, <2>4, <2>5
  <2>8. \A g \in Frames : g = map[p] \/ (\E x \in Owners : Leaving(x, p) /\ op[x].f = g) => g # f
    BY <2>3, <2>4
  <2> QED
    BY <1>0, <1>a, <1>b, <2>1, <2>2, <2>3, <2>6, <2>7, <2>8, KeptCalm
<1>6. ASSUME NEW c \in Chains, NEW f \in Frames, LinkEffect(c, f) PROVE KeptAt(r, p, j)'
  <2>1. map' = map /\ disk' = disk /\ cut' = cut
    BY <1>6 DEF LinkEffect
  <2>2. \A x \in Owners : Leaving(x, p)' <=> Leaving(x, p)
    BY <1>6 DEF LinkEffect, SameCalls, Leaving, Idle
  <2>3. \A x \in Owners : Leaving(x, p) => op'[x].f = op[x].f
    BY <1>6 DEF LinkEffect, SameCalls, Leaving
  <2>4. \A g \in Frames : frame'[g].recs = frame[g].recs /\ (frame[g].dirty => frame'[g].dirty)
    BY <1>6 DEF LinkEffect, SameFrames
  <2>5. \A g \in Frames : Has(frame[g].recs, j, r) => Has(frame[g].recs, j, r)'
    BY <2>1, <2>4 DEF Has
  <2> QED
    BY <1>0, <1>a, <1>b, <2>1, <2>2, <2>3, <2>4, <2>5, KeptCalm
<1>7. ASSUME NEW c \in Chains, FetchEffect(c) PROVE KeptAt(r, p, j)'
  <2>1. map' = map /\ disk' = disk /\ cut' = cut
    BY <1>7 DEF FetchEffect
  <2>2. \A x \in Owners : Leaving(x, p)' <=> Leaving(x, p)
    BY <1>7 DEF FetchEffect, SameCalls, Leaving, Idle
  <2>3. \A x \in Owners : Leaving(x, p) => op'[x].f = op[x].f
    BY <1>7 DEF FetchEffect, SameCalls, Leaving
  <2>4. \A g \in Frames : frame'[g].recs = frame[g].recs /\ (frame[g].dirty => frame'[g].dirty)
    BY <1>7 DEF FetchEffect, SameFrames
  <2>5. \A g \in Frames : Has(frame[g].recs, j, r) => Has(frame[g].recs, j, r)'
    BY <2>1, <2>4 DEF Has
  <2> QED
    BY <1>0, <1>a, <1>b, <2>1, <2>2, <2>3, <2>4, <2>5, KeptCalm
<1>8. ASSUME NEW o \in Owners, NEW f \in Frames, ClaimEffect(o, f) PROVE KeptAt(r, p, j)'
  <2>0. PICK q : q = frame[f].page
    OBVIOUS
  <2>1. /\ disk' = disk /\ cut' = cut /\ map' = IF q = 0 THEN map ELSE [map EXCEPT ![q] = NoFrame]
        /\ op[o].at = "claim" /\ op'[o].at = "write" /\ op'[o].f = f /\ op'[o].old = q
        /\ op'[o].write = (q # 0 /\ frame[f].dirty) /\ frame[f].latch = "none"
        /\ \A x \in Owners \ {o} : op'[x] = op[x]
    BY <1>8, <2>0 DEF ClaimEffect, SameCalls
  <2>2. \A g \in Frames : frame'[g].recs = frame[g].recs /\ frame'[g].dirty = frame[g].dirty
    BY <1>8 DEF ClaimEffect, SameFrames
  <2>3. \A g \in Frames : Has(frame[g].recs, j, r) => Has(frame[g].recs, j, r)'
    BY <2>1, <2>2 DEF Has
  <2>4. CASE p # q
    <3>1. map'[p] = map[p]
      BY <1>0, <2>1, <2>4
    <3>2. \A x \in Owners : Leaving(x, p)' <=> Leaving(x, p)
      BY <2>1, <2>4 DEF Leaving
    <3>3. \A x \in Owners : Leaving(x, p) => op'[x].f = op[x].f
      BY <2>1 DEF Leaving
    <3> QED
      BY <1>0, <1>a, <1>b, <2>1, <2>2, <2>3, <3>1, <3>2, <3>3, KeptCalm
  <2>5. CASE p = q
    <3>1. p # 0 /\ ~Replaced(f)
      BY <1>0, <2>1 DEF DeltaNumbers, Replaced, ClaimsLatched
    <3>2. map[p] = f /\ map'[p] = NoFrame /\ f # NoFrame
      BY <1>0, <2>0, <2>1, <2>5, <3>1 DEF FramesMapped
    <3>3. \A x \in Owners : ~Leaving(x, p)
      BY <1>0, <1>p, <3>2 DEF LeavingUnmapped
    <3>4. \A x \in Owners : Leaving(x, p)' => x = o /\ frame[f].dirty
      BY <2>1, <3>3 DEF Leaving
    <3>5. frame[f].dirty => Leaving(o, p)'
      BY <2>1, <2>5, <3>1 DEF Leaving
    <3>6. Has(frame[f].recs, j, r) /\ (frame[f].dirty \/ Has(disk[p], j, r))
      BY <3>2 DEF KeptAt
    <3>7. Has(frame[f].recs, j, r)' /\ (Has(disk[p], j, r) => Has(disk[p], j, r)')
      BY <2>1, <2>3, <3>6 DEF Has
    <3>8. ASSUME NEW x \in Owners, Leaving(x, p)' PROVE Has(frame[op[x].f].recs, j, r)'
      <4>1. op'[x].f = f
        BY <2>1, <3>4, <3>8
      <4> QED
        BY <3>7, <4>1 DEF Has
    <3>9. (\A x \in Owners : ~Leaving(x, p)') => Has(disk[p], j, r)'
      BY <3>5, <3>6, <3>7
    <3> QED
      BY <3>2, <3>8, <3>9 DEF KeptAt
  <2> QED
    BY <2>4, <2>5
<1>9. ASSUME NEW o \in Owners, ThrowEffect(o) PROVE KeptAt(r, p, j)'
  <2>1. map' = map /\ disk' = disk /\ cut' = cut
    BY <1>9 DEF ThrowEffect
  <2>2. \A x \in Owners : Leaving(x, p)' <=> Leaving(x, p)
    BY <1>9 DEF ThrowEffect, SameCalls, Leaving, Idle
  <2>3. \A x \in Owners : Leaving(x, p) => op'[x].f = op[x].f
    BY <1>9 DEF ThrowEffect, SameCalls, Leaving
  <2>4. \A g \in Frames : frame'[g].recs = frame[g].recs /\ (frame[g].dirty => frame'[g].dirty)
    BY <1>9 DEF ThrowEffect, SameFrames
  <2>5. \A g \in Frames : Has(frame[g].recs, j, r) => Has(frame[g].recs, j, r)'
    BY <2>1, <2>4 DEF Has
  <2> QED
    BY <1>0, <1>a, <1>b, <2>1, <2>2, <2>3, <2>4, <2>5, KeptCalm
<1>10. ASSUME NEW o \in Owners, NEW f \in Frames, WriteBackEffect(o, f) PROVE KeptAt(r, p, j)'
  <2>1. /\ map' = map /\ cut' = cut /\ op[o].at = "write" /\ op[o].f = f /\ op'[o].at # "write"
        /\ \A x \in Owners \ {o} : op'[x] = op[x]
    BY <1>10 DEF WriteBackEffect, SameCalls
  <2>2. \A g \in Frames : frame'[g].recs = frame[g].recs /\ (g # f => frame'[g].dirty = frame[g].dirty)
    BY <1>10 DEF WriteBackEffect, SameFrames
  <2>3. \A g \in Frames : Has(frame[g].recs, j, r) => Has(frame[g].recs, j, r)'
    BY <2>1, <2>2 DEF Has
  <2>4. map[p] # f
    BY <1>0, <2>1 DEF MapHolds, Replaced, Claiming
  <2>5. CASE ~Leaving(o, p)
    <3>1. disk'[p] = disk[p]
      BY <1>0, <1>10, <2>5 DEF WriteBackEffect, Leaving
    <3>2. \A x \in Owners : Leaving(x, p)' <=> Leaving(x, p)
      BY <2>1, <2>5 DEF Leaving
    <3>3. \A x \in Owners : Leaving(x, p) => op'[x].f = op[x].f
      BY <2>1, <2>5
    <3>4. map[p] # NoFrame => map[p] \in Frames /\ (frame[map[p]].dirty => frame'[map[p]].dirty)
      BY <1>a, <2>2, <2>4
    <3> QED
      BY <1>0, <1>b, <2>1, <2>3, <3>1, <3>2, <3>3, <3>4, KeptCalm
  <2>6. CASE Leaving(o, p)
    <3>1. map[p] = NoFrame
      BY <1>0, <1>p, <2>6 DEF LeavingUnmapped
    <3>2. Has(frame[f].recs, j, r) /\ disk'[p] = frame[f].recs
      BY <1>0, <1>10, <2>1, <2>6, <3>1 DEF WriteBackEffect, KeptAt, Leaving
    <3>3. Has(disk[p], j, r)'
      BY <2>1, <3>2 DEF Has
    <3>4. ASSUME NEW x \in Owners, Leaving(x, p)' PROVE Has(frame[op[x].f].recs, j, r)'
      <4>1. x # o /\ op'[x] = op[x] /\ Leaving(x, p)
        BY <2>1, <3>4 DEF Leaving
      <4>2. PICK g \in Frames : g = op[x].f
        BY <1>b, <4>1
      <4>3. Has(frame[g].recs, j, r)'
        BY <2>3, <3>1, <4>1, <4>2 DEF KeptAt
      <4> QED
        BY <4>1, <4>2, <4>3 DEF Has
    <3> QED
      BY <2>1, <3>1, <3>3, <3>4 DEF KeptAt
  <2> QED
    BY <2>5, <2>6
<1>11. ASSUME NEW s \in DOMAIN loc, NEW q \in DeltaNumbers, ReadEffect(s, q) PROVE KeptAt(r, p, j)'
  <2>1. map' = map /\ disk' = disk /\ cut' = cut
    BY <1>11 DEF ReadEffect
  <2>2. \A x \in Owners : Leaving(x, p)' <=> Leaving(x, p)
    BY <1>11 DEF ReadEffect, SameCalls, Leaving, Idle
  <2>3. \A x \in Owners : Leaving(x, p) => op'[x].f = op[x].f
    BY <1>11 DEF ReadEffect, SameCalls, Leaving
  <2>4. \A g \in Frames : frame'[g].recs = frame[g].recs /\ (frame[g].dirty => frame'[g].dirty)
    BY <1>11 DEF ReadEffect, SameFrames
  <2>5. \A g \in Frames : Has(frame[g].recs, j, r) => Has(frame[g].recs, j, r)'
    BY <2>1, <2>4 DEF Has
  <2> QED
    BY <1>0, <1>a, <1>b, <2>1, <2>2, <2>3, <2>4, <2>5, KeptCalm
<1>12. ASSUME NEW f \in Frames, NEW q \in DeltaNumbers, FillEffect(f, q) PROVE KeptAt(r, p, j)'
  <2>1. /\ op[Reader].at = "fill" /\ op[Reader].f = f /\ op[Reader].page = q /\ op'[Reader].at = "hold"
        /\ disk' = disk /\ cut' = cut /\ map' = [map EXCEPT ![q] = f]
        /\ \A x \in Owners \ {Reader} : op'[x] = op[x]
    BY <1>12 DEF FillEffect, SameCalls
  <2>2. \A g \in Frames \ {f} : frame'[g] = frame[g]
    BY <1>12 DEF FillEffect, SameFrames
  <2>3. \A g \in Frames \ {f} : Has(frame[g].recs, j, r) => Has(frame[g].recs, j, r)'
    BY <2>1, <2>2 DEF Has
  <2>4. CASE p # q
    <3>1. map'[p] = map[p] /\ map[p] # f
      BY <1>0, <2>1, <2>4 DEF MapHolds, Replaced, Claiming
    <3>2. \A x \in Owners : Leaving(x, p)' <=> Leaving(x, p)
      BY <2>1 DEF Leaving
    <3>3. \A x \in Owners : Leaving(x, p) => op'[x].f = op[x].f /\ op[x].f # f
      BY <1>0, <2>1 DEF Leaving, HoldersApart, HoldsFrame, Claiming
    <3>4. map[p] # NoFrame => map[p] \in Frames /\ (frame[map[p]].dirty => frame'[map[p]].dirty)
      BY <1>a, <2>2, <3>1
    <3>5. \A g \in Frames : g = map[p] \/ (\E x \in Owners : Leaving(x, p) /\ op[x].f = g) => g # f
      BY <3>1, <3>3
    <3> QED
      BY <1>0, <1>b, <2>1, <2>3, <3>1, <3>2, <3>3, <3>4, <3>5, KeptCalm
  <2>5. CASE p = q
    <3>1. map[p] = NoFrame /\ map'[p] = f /\ f # NoFrame
      BY <1>0, <2>1, <2>5 DEF ReaderMisses, Claiming
    <3>2. \A x \in Owners : ~Leaving(x, p)
      <4>1. \A x \in Chains : ~Leaving(x, p)
        BY <1>12, <1>p, <2>5 DEF FillEffect
      <4> QED
        BY <1>0, <2>1, <4>1 DEF Leaving
    <3>3. Has(disk[p], j, r)
      BY <3>1, <3>2 DEF KeptAt
    <3>4. frame'[f].recs = disk[p]
      BY <1>12, <2>5 DEF FillEffect
    <3>5. Has(disk[p], j, r)' /\ Has(frame[map[p]].recs, j, r)'
      BY <2>1, <3>1, <3>3, <3>4 DEF Has
    <3> QED
      BY <3>1, <3>5 DEF KeptAt
  <2> QED
    BY <2>4, <2>5
<1>13. ASSUME NEW f \in Frames, NEW i \in Nat, ClearEffect(f, i) PROVE KeptAt(r, p, j)'
  <2>0. PICK x, q : x = frame[f].recs[i].r /\ q = frame[f].page
    OBVIOUS
  <2>1. /\ op[Reader].at = "hold" /\ op[Reader].f = f /\ op'[Reader].at = "release" /\ map' = map /\ disk' = disk
        /\ cut' = cut \cup {x} /\ frame'[f].dirty = TRUE /\ (\A y \in Owners \ {Reader} : op'[y] = op[y])
        /\ i \in 1 .. Len(frame[f].recs)
    BY <1>13, <2>0 DEF ClearEffect, CutAt, SameCalls
  <2>2. \A g \in Frames \ {f} : frame'[g] = frame[g]
    BY <1>13 DEF ClearEffect, SameFrames
  <2>3. q # 0 /\ q \in DeltaNumbers /\ ~Replaced(f)
    BY <1>0, <1>c, <2>0, <2>1 DEF HeldPaged, Replaced, Claiming, HoldersApart, HoldsFrame, DeltaNumbers
  <2>4. map[q] = f /\ f # NoFrame
    BY <1>0, <2>0, <2>3 DEF FramesMapped
  <2>5. r = x => p = q /\ i = j
    BY <1>c, <2>0, <2>1 DEF Known
  <2>6. Has(frame[f].recs, j, r) /\ p = q => Has(frame[f].recs, j, r)'
    <3> SUFFICES ASSUME Has(frame[f].recs, j, r), p = q PROVE Has(frame[f].recs, j, r)'
      OBVIOUS
    <3>1. j \in 1 .. Len(frame[f].recs) /\ frame[f].recs[j].r = r /\ frame[f].recs[j].cut = (r \in cut)
      BY DEF Has
    <3>2. /\ Len(frame'[f].recs) = Len(frame[f].recs) /\ frame'[f].recs[j].r = r
          /\ frame'[f].recs[j].cut = (j = i \/ frame[f].recs[j].cut)
      BY <1>13, <3>1 DEF ClearEffect, CutAt
    <3>3. j = i <=> r = x
      BY <2>0, <2>5, <3>1
    <3>4. r \in cut' <=> r \in cut \/ j = i
      BY <2>1, <3>3
    <3>5. frame'[f].recs[j].cut = (r \in cut')
      <4>1. frame'[f].recs[j].cut = (j = i \/ r \in cut)
        BY <3>1, <3>2
      <4>2. CASE r \in cut'
        BY <3>4, <4>1, <4>2
      <4>3. CASE r \notin cut'
        BY <3>4, <4>1, <4>3
      <4> QED
        BY <4>2, <4>3
    <3>6. j \in 1 .. Len(frame'[f].recs)
      BY <3>1, <3>2
    <3> QED
      BY <3>2, <3>5, <3>6 DEF Has
  <2>7. CASE p = q
    <3>1. Has(frame[f].recs, j, r)
      BY <2>4, <2>7 DEF KeptAt
    <3>2. Has(frame[f].recs, j, r)' /\ map'[p] = f
      BY <2>1, <2>4, <2>6, <2>7, <3>1
    <3>3. Has(frame[map[p]].recs, j, r)'
      BY <3>2 DEF Has
    <3> QED
      BY <2>1, <2>4, <3>2, <3>3 DEF KeptAt
  <2>8. CASE p # q
    <3>1. r \in cut' <=> r \in cut
      BY <2>1, <2>5, <2>8
    <3>2. \A y \in Owners : Leaving(y, p)' <=> Leaving(y, p)
      BY <2>1 DEF Leaving
    <3>3. \A y \in Owners : Leaving(y, p) => op'[y].f = op[y].f /\ op[y].f # f
      BY <1>0, <2>1 DEF Leaving, HoldersApart, HoldsFrame, Claiming
    <3>4. map[p] # f
      BY <1>0, <2>0, <2>4, <2>8 DEF MapHolds
    <3>5. map[p] # NoFrame => map[p] \in Frames /\ (frame[map[p]].dirty => frame'[map[p]].dirty)
      BY <1>a, <2>2, <3>4
    <3>6. \A g \in Frames \ {f} : Has(frame[g].recs, j, r) => Has(frame[g].recs, j, r)'
      BY <2>2, <3>1 DEF Has
    <3>7. \A g \in Frames : g = map[p] \/ (\E y \in Owners : Leaving(y, p) /\ op[y].f = g) => g # f
      BY <3>3, <3>4
    <3> QED
      BY <1>0, <1>b, <2>1, <3>1, <3>2, <3>3, <3>5, <3>6, <3>7, KeptCalm
  <2> QED
    BY <2>7, <2>8
<1>14. ASSUME NEW f \in Frames, UnlatchEffect(f) PROVE KeptAt(r, p, j)'
  <2>1. map' = map /\ disk' = disk /\ cut' = cut
    BY <1>14 DEF UnlatchEffect
  <2>2. \A x \in Owners : Leaving(x, p)' <=> Leaving(x, p)
    BY <1>14 DEF UnlatchEffect, SameCalls, Leaving, Idle
  <2>3. \A x \in Owners : Leaving(x, p) => op'[x].f = op[x].f
    BY <1>14 DEF UnlatchEffect, SameCalls, Leaving
  <2>4. \A g \in Frames : frame'[g].recs = frame[g].recs /\ (frame[g].dirty => frame'[g].dirty)
    BY <1>14 DEF UnlatchEffect, SameFrames
  <2>5. \A g \in Frames : Has(frame[g].recs, j, r) => Has(frame[g].recs, j, r)'
    BY <2>1, <2>4 DEF Has
  <2> QED
    BY <1>0, <1>a, <1>b, <2>1, <2>2, <2>3, <2>4, <2>5, KeptCalm
<1>15. ASSUME NEW f \in Frames, FlushLatchEffect(f) PROVE KeptAt(r, p, j)'
  <2>1. map' = map /\ disk' = disk /\ cut' = cut
    BY <1>15 DEF FlushLatchEffect
  <2>2. \A x \in Owners : Leaving(x, p)' <=> Leaving(x, p)
    BY <1>15 DEF FlushLatchEffect, SameCalls, Leaving, Idle
  <2>3. \A x \in Owners : Leaving(x, p) => op'[x].f = op[x].f
    BY <1>15 DEF FlushLatchEffect, SameCalls, Leaving
  <2>4. \A g \in Frames : frame'[g].recs = frame[g].recs /\ (frame[g].dirty => frame'[g].dirty)
    BY <1>15 DEF FlushLatchEffect, SameFrames
  <2>5. \A g \in Frames : Has(frame[g].recs, j, r) => Has(frame[g].recs, j, r)'
    BY <2>1, <2>4 DEF Has
  <2> QED
    BY <1>0, <1>a, <1>b, <2>1, <2>2, <2>3, <2>4, <2>5, KeptCalm
<1>16. ASSUME NEW f \in Frames, NEW q \in DeltaNumbers, FlushWriteEffect(f, q) PROVE KeptAt(r, p, j)'
  <2>1. /\ flush.at # "idle" /\ f = flush.f /\ q = frame[f].page /\ op' = op /\ map' = map /\ cut' = cut
    BY <1>16 DEF FlushWriteEffect
  <2>2. q # 0 /\ ~Replaced(f)
    BY <1>0, <2>1 DEF HeldPaged, Replaced, Claiming, FlushApart, HoldsFrame
  <2>3. map[q] = f /\ f # NoFrame
    BY <1>0, <2>1, <2>2 DEF FramesMapped
  <2>4. frame' = frame /\ disk' = [disk EXCEPT ![q] = frame[f].recs]
    BY <1>16 DEF FlushWriteEffect
  <2>5. CASE p = q
    <3>1. Has(frame[f].recs, j, r) /\ disk'[p] = frame[f].recs
      BY <1>0, <2>3, <2>4, <2>5 DEF KeptAt
    <3>2. Has(frame[map[p]].recs, j, r)' /\ Has(disk[p], j, r)'
      BY <2>1, <2>3, <2>4, <2>5, <3>1 DEF Has
    <3> QED
      BY <2>1, <2>3, <2>5, <3>2 DEF KeptAt
  <2>6. CASE p # q
    <3>1. disk'[p] = disk[p]
      BY <1>0, <2>4, <2>6
    <3>2. \A x \in Owners : (Leaving(x, p)' <=> Leaving(x, p)) /\ op'[x].f = op[x].f
      BY <2>1 DEF Leaving
    <3>3. \A g \in Frames : Has(frame[g].recs, j, r) => Has(frame[g].recs, j, r)'
      BY <2>1, <2>4 DEF Has
    <3> QED
      BY <1>0, <1>a, <1>b, <2>1, <2>4, <3>1, <3>2, <3>3, KeptCalm
  <2> QED
    BY <2>5, <2>6
<1>17. ASSUME NEW f \in Frames, NEW q \in DeltaNumbers, FlushCleanEffect(f, q) PROVE KeptAt(r, p, j)'
  <2>1. /\ flush.at # "idle" /\ f = flush.f /\ q = frame[f].page /\ op' = op /\ map' = map /\ cut' = cut
    BY <1>17 DEF FlushCleanEffect
  <2>2. q # 0 /\ ~Replaced(f)
    BY <1>0, <2>1 DEF HeldPaged, Replaced, Claiming, FlushApart, HoldsFrame
  <2>3. map[q] = f /\ f # NoFrame
    BY <1>0, <2>1, <2>2 DEF FramesMapped
  <2>4. /\ disk' = disk /\ (\A g \in Frames : frame'[g].recs = frame[g].recs /\ (g # f => frame'[g] = frame[g]))
        /\ (Unsaved(f) # {} => q \in doubtful'.pages)
    BY <1>17 DEF FlushCleanEffect, SameFrames
  <2>5. \A g \in Frames : Has(frame[g].recs, j, r) => Has(frame[g].recs, j, r)'
    BY <2>1, <2>4 DEF Has
  <2>6. CASE p = q
    <3>1. Has(frame[f].recs, j, r) /\ Unsaved(f) = {}
      BY <1>p, <2>3, <2>4, <2>6 DEF KeptAt
    <3>2. j \in DOMAIN frame[f].recs /\ frame[f].recs[j].r = r
      BY <1>c, <3>1 DEF Has
    <3>3. ~\E x \in Chains : op[x].at = "mark" /\ op[x].r = frame[f].recs[j].r
      BY <3>2 DEF Known
    <3>4. j \in DOMAIN disk[p] /\ disk[p][j] = frame[f].recs[j]
      BY <2>1, <2>6, <3>1, <3>2, <3>3 DEF Unsaved
    <3>5. Has(disk[p], j, r)
      BY <1>0, <3>1, <3>4 DEF Has
    <3>6. Has(frame[map[p]].recs, j, r)' /\ Has(disk[p], j, r)'
      BY <2>1, <2>3, <2>4, <2>6, <3>1, <3>5 DEF Has
    <3> QED
      BY <2>1, <2>3, <2>6, <3>6 DEF KeptAt
  <2>7. CASE p # q
    <3>1. map[p] # f
      BY <1>0, <2>1, <2>7 DEF MapHolds
    <3>2. \A x \in Owners : (Leaving(x, p)' <=> Leaving(x, p)) /\ op'[x].f = op[x].f
      BY <2>1 DEF Leaving
    <3>3. map[p] # NoFrame => map[p] \in Frames /\ (frame[map[p]].dirty => frame'[map[p]].dirty)
      BY <1>a, <2>4, <3>1
    <3> QED
      BY <1>0, <1>b, <2>1, <2>4, <2>5, <3>2, <3>3, KeptCalm
  <2> QED
    BY <2>6, <2>7
<1>18. CASE UNCHANGED deltaVars
  <2>1. map' = map /\ disk' = disk /\ cut' = cut
    BY <1>18 DEF deltaVars
  <2>2. \A x \in Owners : Leaving(x, p)' <=> Leaving(x, p)
    BY <1>18 DEF deltaVars, SameCalls, Leaving, Idle
  <2>3. \A x \in Owners : Leaving(x, p) => op'[x].f = op[x].f
    BY <1>18 DEF deltaVars, SameCalls, Leaving
  <2>4. \A g \in Frames : frame'[g].recs = frame[g].recs /\ (frame[g].dirty => frame'[g].dirty)
    BY <1>18 DEF deltaVars, SameFrames
  <2>5. \A g \in Frames : Has(frame[g].recs, j, r) => Has(frame[g].recs, j, r)'
    BY <2>1, <2>4 DEF Has
  <2> QED
    BY <1>0, <1>a, <1>b, <2>1, <2>2, <2>3, <2>4, <2>5, KeptCalm
<1> QED
  BY StepEffects, <1>1, <1>2, <1>3, <1>4, <1>5, <1>6, <1>7, <1>8, <1>9, <1>10, <1>11, <1>12, <1>13, <1>14,
     <1>15, <1>16, <1>17, <1>18 DEF Effects

-----------------------------------------------------------------------------
(* Records that were returned *)

\* The location of a record that was returned does not change; a new one is the
\* place of a call that returns.
LocStep ==
  \A r \in DOMAIN loc' \ doubtful'.recs :
    \/ r \in DOMAIN loc \ doubtful.recs /\ loc'[r] = loc[r]
    \/ \E c \in Chains \ taken :
         /\ op[c].at = "return" /\ op[c].r = r /\ loc'[r].page = frame[op[c].f].page /\ loc'[r].i = op[c].i

\* Only a return adds a location.
LEMMA LocSteps ==
  ASSUME DeltaTypeOK, Effects
  PROVE  LocStep
<1>0. doubtful.recs \subseteq doubtful'.recs
  BY DoubtStays
<1> SUFFICES ASSUME loc' # loc PROVE LocStep
  BY <1>0 DEF LocStep
<1>1. PICK c \in Chains : \E f \in Frames : ReturnEffect(c, f)
  <2>1. \A c \in Chains : ~InsertEffect(c) /\ ~FetchEffect(c)
    BY DEF InsertEffect, FetchEffect
  <2>2. \A c \in Chains : \A f \in Frames :
          ~StoreEffect(c, f) /\ ~MarkEffect(c, f) /\ ~ReinitEffect(c, f) /\ ~LinkEffect(c, f)
    BY DEF StoreEffect, MarkEffect, ReinitEffect, LinkEffect
  <2>3. \A o \in Owners : ~ThrowEffect(o)
    BY DEF ThrowEffect
  <2>4. \A o \in Owners : \A f \in Frames : ~ClaimEffect(o, f) /\ ~WriteBackEffect(o, f)
    BY DEF ClaimEffect, WriteBackEffect
  <2>5. \A r \in DOMAIN loc : \A p \in DeltaNumbers : ~ReadEffect(r, p)
    BY DEF ReadEffect
  <2>6. \A f \in Frames : \A p \in DeltaNumbers :
          ~FillEffect(f, p) /\ ~FlushCleanEffect(f, p) /\ ~FlushWriteEffect(f, p)
    BY DEF FillEffect, FlushCleanEffect, FlushWriteEffect
  <2>7. \A f \in Frames : \A i \in Nat : ~ClearEffect(f, i)
    BY DEF ClearEffect
  <2>8. \A f \in Frames : ~UnlatchEffect(f) /\ ~FlushLatchEffect(f)
    BY DEF UnlatchEffect, FlushLatchEffect
  <2>9. ~UNCHANGED deltaVars
    BY DEF deltaVars
  <2> QED
    BY <2>1, <2>2, <2>3, <2>4, <2>5, <2>6, <2>7, <2>8, <2>9 DEF Effects
<1>2. PICK f \in Frames : ReturnEffect(c, f)
  BY <1>1
<1>3. /\ f = op[c].f /\ op[c].at = "return"
      /\ DOMAIN loc' = DOMAIN loc \cup {op[c].r}
      /\ loc'[op[c].r] = [page |-> frame[f].page, i |-> op[c].i]
      /\ \A x \in DOMAIN loc : x # op[c].r => loc'[x] = loc[x]
      /\ c \in taken => op[c].r \in doubtful'.recs
  BY <1>2 DEF ReturnEffect, SameCalls
<1>4. ASSUME NEW r \in DOMAIN loc' \ doubtful'.recs, r # op[c].r
      PROVE  r \in DOMAIN loc \ doubtful.recs /\ loc'[r] = loc[r]
  BY <1>0, <1>3, <1>4
<1>5. op[c].r \notin doubtful'.recs => c \notin taken
  BY <1>3
<1>6. loc'[op[c].r].page = frame[op[c].f].page /\ loc'[op[c].r].i = op[c].i
  BY <1>3
<1> QED
  BY <1>3, <1>4, <1>5, <1>6 DEF LocStep

\* Records that were returned, or are about to be, are known.
LEMMA KnownReturned ==
  ASSUME DeltaInv, NEW r \in DOMAIN loc \ doubtful.recs
  PROVE  Known(r, loc[r].page, loc[r].i)
<1>1. loc[r].page \in DeltaNumbers
  BY DEF DeltaInv, DeltaTypeOK
<1>2. \A g \in Frames : \A k \in DOMAIN frame[g].recs :
        frame[g].recs[k].r = r => frame[g].page = loc[r].page /\ k = loc[r].i
  BY DEF DeltaInv, OnePlace, FramesInPlace, RecordInPlace
<1>3. \A c \in Chains : op[c].at = "mark" => op[c].r # r
  BY DEF DeltaInv, CallsSound, RecordsNew
<1>4. \A c \in Chains : op[c].at \in {"write", "reinit"} => op[c].page # loc[r].page
  BY DEF DeltaInv, NumbersFresh, NumbersNew
<1> QED
  BY <1>1, <1>2, <1>3, <1>4 DEF Known

\* ... and so is the record of a call about to return.
LEMMA KnownReturning ==
  ASSUME DeltaInv, NEW c \in Chains \ taken, op[c].at = "return"
  PROVE  Known(op[c].r, frame[op[c].f].page, op[c].i)
<1>0. op[c].f \in Frames /\ Stored(c) /\ op[c].f \in InHand(c) /\ op[c].f # NoFrame /\ c \in Owners
  BY DEF DeltaInv, DeltaParameters, CallsSound, CallsFramed, Writing, Stored, InHand, Owners
<1>1. frame[op[c].f].page \in DeltaNumbers
  BY <1>0, FrameFields DEF DeltaInv, DeltaParameters, MapExact, HandsPaged, DeltaNumbers
<1>2. \A g \in Frames : \A k \in DOMAIN frame[g].recs :
        frame[g].recs[k].r = op[c].r => frame[g].page = frame[op[c].f].page /\ k = op[c].i
  BY <1>0 DEF DeltaInv, OnePlace, FramesInPlace, RecordInPlace
<1>3. \A b \in Chains : op[b].at = "mark" => op[b].r # op[c].r
  BY DEF DeltaInv, CallsSound, RecordsNew
<1>4. \A b \in Chains : op[b].at \in {"write", "reinit"} => op[b].page # frame[op[c].f].page
  BY <1>0 DEF DeltaInv, NumbersFresh, NumbersNew
<1> QED
  BY <1>1, <1>2, <1>3, <1>4 DEF Known

\* Every step keeps the records that were returned, and that return now.
LEMMA ReturnedStays ==
  ASSUME DeltaInv, [Next]_deltaVars
  PROVE  ReturnedKept'
<1> SUFFICES ASSUME NEW r \in DOMAIN loc' \ doubtful'.recs, loc'[r].page \notin doubtful'.pages
             PROVE  KeptAt(r, loc[r].page, loc[r].i)'
  BY DEF ReturnedKept
<1>0. LocStep /\ doubtful.pages \subseteq doubtful'.pages
  BY StepEffects, LocSteps, DoubtStays DEF DeltaInv
<1>1. PICK p, j : p = loc'[r].page /\ j = loc'[r].i
  OBVIOUS
<1>2. CASE r \in DOMAIN loc \ doubtful.recs /\ loc'[r] = loc[r]
  <2>1. KeptAt(r, p, j) /\ Known(r, p, j)
    BY <1>0, <1>1, <1>2, KnownReturned DEF DeltaInv, RecordsKept, ReturnedKept
  <2>2. p \in DeltaNumbers
    BY <2>1 DEF Known
  <2>3. KeptAt(r, p, j)'
    BY <1>1, <2>1, <2>2, KeptStep
  <2> QED
    BY <1>1, <2>3 DEF KeptAt, Has, Leaving
<1>3. ASSUME NEW c \in Chains \ taken, op[c].at = "return", op[c].r = r,
             loc'[r].page = frame[op[c].f].page, loc'[r].i = op[c].i
      PROVE  KeptAt(r, loc[r].page, loc[r].i)'
  <2>1. KeptAt(r, p, j) /\ Known(r, p, j)
    BY <1>0, <1>1, <1>3, KnownReturning DEF DeltaInv, RecordsKept, ReturningKept
  <2>2. p \in DeltaNumbers
    BY <2>1 DEF Known
  <2>3. KeptAt(r, p, j)'
    BY <1>1, <2>1, <2>2, KeptStep
  <2> QED
    BY <1>1, <2>3 DEF KeptAt, Has, Leaving
<1> QED
  BY <1>0, <1>2, <1>3 DEF LocStep

-----------------------------------------------------------------------------
(* Records that are stored and not yet returned *)

\* The calls with a stored record are those of before, at the same place, and the
\* one that stores its record now.
Same(c) == c \notin taken /\ Stored(c) /\ op'[c].f = op[c].f /\ op'[c].i = op[c].i /\ op'[c].r = op[c].r
StoredOld == \A c \in Chains \ taken' : Stored(c)' => Same(c)
HandsStep ==
  /\ \A c \in Chains \ taken' : op'[c].at = "return" =>
       Same(c) /\ (op[c].at = "return" \/ \E f \in Frames : MarkEffect(c, f))
  /\ \A c \in Chains \ taken : Stored(c) => frame'[op[c].f].page = frame[op[c].f].page
  /\ StoredHeld'

\* A step that leaves the frames at hand as they are leaves the stored records there.
LEMMA HeldCalm ==
  ASSUME StoredHeld, StoredOld, cut' = cut,
         \A c \in Chains \ taken : Stored(c) => frame'[op[c].f].recs = frame[op[c].f].recs
  PROVE  StoredHeld'
<1> SUFFICES ASSUME NEW c \in Chains \ taken', Stored(c)' PROVE Has(frame[op[c].f].recs, op[c].i, op[c].r)'
  BY DEF StoredHeld
<1>1. Same(c)
  BY DEF StoredOld
<1>2. Has(frame[op[c].f].recs, op[c].i, op[c].r)
  BY <1>1 DEF StoredHeld, Same
<1>3. frame'[op'[c].f].recs = frame[op[c].f].recs /\ op'[c].i = op[c].i /\ op'[c].r = op[c].r
  BY <1>1 DEF Same
<1> QED
  BY <1>2, <1>3 DEF Has

\* A stored record stays in the frame at hand until its call returns.
LEMMA HandsSteps ==
  ASSUME DeltaInv, [Next]_deltaVars
  PROVE  HandsStep
<1>0. /\ Reader \in Owners /\ Reader \notin Chains /\ Chains \subseteq Owners
      /\ \A o \in Owners : o # Reader => o \in Chains
      /\ (flush.at # "idle" => flush.f \in Frames)
      /\ CallsPlaced /\ CallsFramed /\ ClaimsLatched /\ HoldersApart /\ MapHolds /\ FramesMapped /\ HandsPaged
      /\ HandsApart /\ FramesInPlace /\ NewUncut /\ StoredHeld /\ NoFrame \notin Frames
  BY OwnersAre, FlushFields DEF DeltaInv, CallsSound, OneHolder, MapExact, FramesApart, OnePlace, RecordsKept,
     DeltaParameters
<1>h. \A x \in Chains : Stored(x) => op[x].f \in Frames /\ op[x].f \in InHand(x) /\ op[x].f # NoFrame
  BY <1>0 DEF Stored, CallsFramed, Writing, InHand
<1>c. \A g \in Frames : frame[g].recs \in Seq(Record) /\ DOMAIN frame[g].recs = 1 .. Len(frame[g].recs)
  BY FrameFields DEF DeltaInv
<1>1. ASSUME NEW c \in Chains, InsertEffect(c) PROVE HandsStep
  <2>1. StoredOld
    BY <1>0, <1>1 DEF InsertEffect, SameCalls, StoredOld, Same, Stored, Idle
  <2>2. \A x \in Chains : op'[x].at = "return" => op[x].at = "return"
    BY <1>0, <1>1 DEF InsertEffect, SameCalls, Idle
  <2>3. cut' = cut /\ \A g \in Frames : frame'[g].page = frame[g].page /\ frame'[g].recs = frame[g].recs
    BY <1>1 DEF InsertEffect, SameFrames
  <2>4. StoredHeld'
    BY <1>0, <1>h, <2>1, <2>3, HeldCalm
  <2>5. \A x \in Chains \ taken' : op'[x].at = "return" => Same(x)
    BY <2>1 DEF StoredOld, Stored
  <2> QED
    BY <1>h, <2>2, <2>3, <2>4, <2>5 DEF HandsStep
<1>2. ASSUME NEW c \in Chains, NEW f \in Frames, StoreEffect(c, f) PROVE HandsStep
  <2>1. /\ op[c].at = "store" /\ op[c].f = f /\ op'[c].r = op[c].r /\ op'[c].at # "return" /\ cut' = cut /\ taken' = taken
        /\ (\A x \in Chains : x # c => op'[x] = op[x]) /\ \A g \in Frames \ {f} : frame'[g] = frame[g]
    BY <1>0, <1>2 DEF StoreEffect, SameCalls, SameFrames
  <2>2. \A x \in Chains \ taken' : op'[x].at = "return" => Same(x) /\ op[x].at = "return"
    BY <2>1 DEF Same, Stored
  <2>3. \A g \in Frames : frame'[g].page = frame[g].page
    BY <1>2 DEF StoreEffect, SameFrames
  <2>4. StoredHeld'
    <3> SUFFICES ASSUME NEW x \in Chains \ taken', Stored(x)' PROVE Has(frame[op[x].f].recs, op[x].i, op[x].r)'
      BY DEF StoredHeld
    <3>1. CASE x = c
      <4>1. PICK z, y : z = frame[f].recs /\ y = [r |-> op[c].r, cut |-> FALSE]
        OBVIOUS
      <4>2. /\ z \in Seq(Record) /\ frame'[f].recs = Append(z, y) /\ y \in Record
            /\ op'[c].f = f /\ op'[c].i = Len(z) + 1
        BY <1>c, <1>2, <3>1, <4>1 DEF StoreEffect, Appended, Record, Call, Stored
      <4>3. op[c].r \notin cut'
        BY <1>0, <2>1 DEF NewUncut, Unstored
      <4>4. frame'[f].recs[Len(z) + 1] = y /\ Len(frame'[f].recs) = Len(z) + 1 /\ Len(z) + 1 \in 1 .. Len(z) + 1
        BY <4>2
      <4>5. y.r = op'[c].r /\ y.cut = (op'[c].r \in cut')
        <5>1. y.r = op'[c].r /\ y.cut = FALSE /\ op'[c].r \notin cut'
          BY <2>1, <4>1, <4>3
        <5>2. (op'[c].r \in cut') = FALSE
          BY <5>1
        <5> QED
          BY <5>1, <5>2
      <4> QED
        BY <3>1, <4>2, <4>4, <4>5 DEF Has
    <3>2. CASE x # c
      <4>1. op'[x] = op[x] /\ Stored(x) /\ x \notin taken
        BY <2>1, <3>2 DEF Stored
      <4>2. op[x].f \in Frames /\ op[x].f \in InHand(x) /\ op[x].f # NoFrame /\ f \in InHand(c)
        BY <1>h, <2>1, <4>1 DEF InHand
      <4>3. op[x].f # f
        BY <1>0, <3>2, <4>1, <4>2 DEF HandsApart
      <4>4. Has(frame[op[x].f].recs, op[x].i, op[x].r) /\ frame'[op[x].f] = frame[op[x].f]
        BY <1>0, <2>1, <4>1, <4>2, <4>3 DEF StoredHeld
      <4> QED
        BY <2>1, <4>1, <4>4 DEF Has
    <3> QED
      BY <3>1, <3>2
  <2> QED
    BY <1>h, <2>2, <2>3, <2>4 DEF HandsStep
<1>3. ASSUME NEW c \in Chains, NEW f \in Frames, MarkEffect(c, f) PROVE HandsStep
  <2>1. StoredOld
    BY <1>0, <1>3 DEF MarkEffect, SameCalls, StoredOld, Same, Stored, Idle
  <2>2. \A x \in Chains : op'[x].at = "return" => op[x].at = "return" \/ \E g \in Frames : MarkEffect(x, g)
    <3>1. \A x \in Chains : x # c => op'[x] = op[x]
      BY <1>0, <1>3 DEF MarkEffect, SameCalls
    <3> QED
      BY <1>3, <3>1
  <2>3. cut' = cut /\ \A g \in Frames : frame'[g].page = frame[g].page /\ frame'[g].recs = frame[g].recs
    BY <1>3 DEF MarkEffect, SameFrames
  <2>4. StoredHeld'
    BY <1>0, <1>h, <2>1, <2>3, HeldCalm
  <2>5. \A x \in Chains \ taken' : op'[x].at = "return" => Same(x)
    BY <2>1 DEF StoredOld, Stored
  <2> QED
    BY <1>h, <2>2, <2>3, <2>4, <2>5 DEF HandsStep
<1>4. ASSUME NEW c \in Chains, NEW f \in Frames, ReturnEffect(c, f) PROVE HandsStep
  <2>1. StoredOld
    BY <1>0, <1>4 DEF ReturnEffect, SameCalls, StoredOld, Same, Stored, Idle
  <2>2. \A x \in Chains : op'[x].at = "return" => op[x].at = "return"
    BY <1>0, <1>4 DEF ReturnEffect, SameCalls, Idle
  <2>3. cut' = cut /\ \A g \in Frames : frame'[g].page = frame[g].page /\ frame'[g].recs = frame[g].recs
    BY <1>4 DEF ReturnEffect, SameFrames
  <2>4. StoredHeld'
    BY <1>0, <1>h, <2>1, <2>3, HeldCalm
  <2>5. \A x \in Chains \ taken' : op'[x].at = "return" => Same(x)
    BY <2>1 DEF StoredOld, Stored
  <2> QED
    BY <1>h, <2>2, <2>3, <2>4, <2>5 DEF HandsStep
<1>5. ASSUME NEW c \in Chains, NEW f \in Frames, ReinitEffect(c, f) PROVE HandsStep
  <2>1. StoredOld
    BY <1>0, <1>5 DEF ReinitEffect, SameCalls, StoredOld, Same, Stored, Idle
  <2>2. \A x \in Chains : op'[x].at = "return" => op[x].at = "return"
    BY <1>0, <1>5 DEF ReinitEffect, SameCalls, Idle
  <2>6. /\ Replaced(f) /\ cut' = cut /\ \A g \in Frames \ {f} : frame'[g] = frame[g]
    BY <1>0, <1>5 DEF ReinitEffect, Replaced, Claiming, SameFrames
  <2>3. \A x \in Chains \ taken : Stored(x) => frame'[op[x].f] = frame[op[x].f]
    BY <1>0, <1>h, <2>6 DEF HandsApart
  <2>4. StoredHeld'
    BY <1>0, <1>h, <2>1, <2>3, <2>6, HeldCalm
  <2>5. \A x \in Chains \ taken' : op'[x].at = "return" => Same(x)
    BY <2>1 DEF StoredOld, Stored
  <2> QED
    BY <1>h, <2>2, <2>3, <2>4, <2>5 DEF HandsStep
<1>6. ASSUME NEW c \in Chains, NEW f \in Frames, LinkEffect(c, f) PROVE HandsStep
  <2>1. StoredOld
    BY <1>0, <1>6 DEF LinkEffect, SameCalls, StoredOld, Same, Stored, Idle
  <2>2. \A x \in Chains : op'[x].at = "return" => op[x].at = "return"
    BY <1>0, <1>6 DEF LinkEffect, SameCalls, Idle
  <2>3. cut' = cut /\ \A g \in Frames : frame'[g].page = frame[g].page /\ frame'[g].recs = frame[g].recs
    BY <1>6 DEF LinkEffect, SameFrames
  <2>4. StoredHeld'
    BY <1>0, <1>h, <2>1, <2>3, HeldCalm
  <2>5. \A x \in Chains \ taken' : op'[x].at = "return" => Same(x)
    BY <2>1 DEF StoredOld, Stored
  <2> QED
    BY <1>h, <2>2, <2>3, <2>4, <2>5 DEF HandsStep
<1>7. ASSUME NEW c \in Chains, FetchEffect(c) PROVE HandsStep
  <2>1. StoredOld
    BY <1>0, <1>7 DEF FetchEffect, SameCalls, StoredOld, Same, Stored, Idle
  <2>2. \A x \in Chains : op'[x].at = "return" => op[x].at = "return"
    BY <1>0, <1>7 DEF FetchEffect, SameCalls, Idle
  <2>3. cut' = cut /\ \A g \in Frames : frame'[g].page = frame[g].page /\ frame'[g].recs = frame[g].recs
    BY <1>7 DEF FetchEffect, SameFrames
  <2>4. StoredHeld'
    BY <1>0, <1>h, <2>1, <2>3, HeldCalm
  <2>5. \A x \in Chains \ taken' : op'[x].at = "return" => Same(x)
    BY <2>1 DEF StoredOld, Stored
  <2> QED
    BY <1>h, <2>2, <2>3, <2>4, <2>5 DEF HandsStep
<1>8. ASSUME NEW o \in Owners, NEW f \in Frames, ClaimEffect(o, f) PROVE HandsStep
  <2>1. StoredOld
    BY <1>0, <1>8 DEF ClaimEffect, SameCalls, StoredOld, Same, Stored, Idle
  <2>2. \A x \in Chains : op'[x].at = "return" => op[x].at = "return"
    BY <1>0, <1>8 DEF ClaimEffect, SameCalls, Idle
  <2>3. cut' = cut /\ \A g \in Frames : frame'[g].page = frame[g].page /\ frame'[g].recs = frame[g].recs
    BY <1>8 DEF ClaimEffect, SameFrames
  <2>4. StoredHeld'
    BY <1>0, <1>h, <2>1, <2>3, HeldCalm
  <2>5. \A x \in Chains \ taken' : op'[x].at = "return" => Same(x)
    BY <2>1 DEF StoredOld, Stored
  <2> QED
    BY <1>h, <2>2, <2>3, <2>4, <2>5 DEF HandsStep
<1>9. ASSUME NEW o \in Owners, ThrowEffect(o) PROVE HandsStep
  <2>1. StoredOld
    BY <1>0, <1>9 DEF ThrowEffect, SameCalls, StoredOld, Same, Stored, Idle
  <2>2. \A x \in Chains : op'[x].at = "return" => op[x].at = "return"
    BY <1>0, <1>9 DEF ThrowEffect, SameCalls, Idle
  <2>3. cut' = cut /\ \A g \in Frames : frame'[g].page = frame[g].page /\ frame'[g].recs = frame[g].recs
    BY <1>9 DEF ThrowEffect, SameFrames
  <2>4. StoredHeld'
    BY <1>0, <1>h, <2>1, <2>3, HeldCalm
  <2>5. \A x \in Chains \ taken' : op'[x].at = "return" => Same(x)
    BY <2>1 DEF StoredOld, Stored
  <2> QED
    BY <1>h, <2>2, <2>3, <2>4, <2>5 DEF HandsStep
<1>10. ASSUME NEW o \in Owners, NEW f \in Frames, WriteBackEffect(o, f) PROVE HandsStep
  <2>1. StoredOld
    BY <1>0, <1>10 DEF WriteBackEffect, SameCalls, StoredOld, Same, Stored, Idle
  <2>2. \A x \in Chains : op'[x].at = "return" => op[x].at = "return"
    BY <1>0, <1>10 DEF WriteBackEffect, SameCalls, Idle
  <2>3. cut' = cut /\ \A g \in Frames : frame'[g].page = frame[g].page /\ frame'[g].recs = frame[g].recs
    BY <1>10 DEF WriteBackEffect, SameFrames
  <2>4. StoredHeld'
    BY <1>0, <1>h, <2>1, <2>3, HeldCalm
  <2>5. \A x \in Chains \ taken' : op'[x].at = "return" => Same(x)
    BY <2>1 DEF StoredOld, Stored
  <2> QED
    BY <1>h, <2>2, <2>3, <2>4, <2>5 DEF HandsStep
<1>11. ASSUME NEW r \in DOMAIN loc, NEW p \in DeltaNumbers, ReadEffect(r, p) PROVE HandsStep
  <2>1. StoredOld
    BY <1>0, <1>11 DEF ReadEffect, SameCalls, StoredOld, Same, Stored, Idle
  <2>2. \A x \in Chains : op'[x].at = "return" => op[x].at = "return"
    BY <1>0, <1>11 DEF ReadEffect, SameCalls, Idle
  <2>3. cut' = cut /\ \A g \in Frames : frame'[g].page = frame[g].page /\ frame'[g].recs = frame[g].recs
    BY <1>11 DEF ReadEffect, SameFrames
  <2>4. StoredHeld'
    BY <1>0, <1>h, <2>1, <2>3, HeldCalm
  <2>5. \A x \in Chains \ taken' : op'[x].at = "return" => Same(x)
    BY <2>1 DEF StoredOld, Stored
  <2> QED
    BY <1>h, <2>2, <2>3, <2>4, <2>5 DEF HandsStep
<1>12. ASSUME NEW f \in Frames, NEW p \in DeltaNumbers, FillEffect(f, p) PROVE HandsStep
  <2>1. StoredOld
    BY <1>0, <1>12 DEF FillEffect, SameCalls, StoredOld, Same, Stored, Idle
  <2>2. \A x \in Chains : op'[x].at = "return" => op[x].at = "return"
    BY <1>0, <1>12 DEF FillEffect, SameCalls, Idle
  <2>6. /\ Replaced(f) /\ cut' = cut /\ \A g \in Frames \ {f} : frame'[g] = frame[g]
    BY <1>0, <1>12 DEF FillEffect, Replaced, Claiming, SameFrames
  <2>3. \A x \in Chains \ taken : Stored(x) => frame'[op[x].f] = frame[op[x].f]
    BY <1>0, <1>h, <2>6 DEF HandsApart
  <2>4. StoredHeld'
    BY <1>0, <1>h, <2>1, <2>3, <2>6, HeldCalm
  <2>5. \A x \in Chains \ taken' : op'[x].at = "return" => Same(x)
    BY <2>1 DEF StoredOld, Stored
  <2> QED
    BY <1>h, <2>2, <2>3, <2>4, <2>5 DEF HandsStep
<1>13. ASSUME NEW f \in Frames, NEW i \in Nat, ClearEffect(f, i) PROVE HandsStep
  <2>1. StoredOld
    BY <1>0, <1>13 DEF ClearEffect, SameCalls, StoredOld, Same, Stored, Idle
  <2>2. \A x \in Chains \ taken' : op'[x].at = "return" => Same(x) /\ op[x].at = "return"
    <3>1. \A x \in Chains : op'[x] = op[x]
      BY <1>0, <1>13 DEF ClearEffect, SameCalls
    <3> QED
      BY <2>1, <3>1 DEF StoredOld, Stored
  <2>3. \A g \in Frames : frame'[g].page = frame[g].page
    BY <1>13 DEF ClearEffect, SameFrames
  <2>4. StoredHeld'
    <3> SUFFICES ASSUME NEW x \in Chains \ taken', Stored(x)' PROVE Has(frame[op[x].f].recs, op[x].i, op[x].r)'
      BY DEF StoredHeld
    <3>0. PICK s, g, k : s = op[x].r /\ g = op[x].f /\ k = op[x].i
      OBVIOUS
    <3>1. /\ op'[x].r = s /\ op'[x].f = g /\ op'[x].i = k /\ Stored(x) /\ x \notin taken /\ g \in Frames
          /\ g \in InHand(x) /\ g # NoFrame
      BY <1>h, <2>1, <3>0 DEF StoredOld, Same
    <3>2. Has(frame[g].recs, k, s)
      BY <1>0, <3>0, <3>1 DEF StoredHeld
    <3>3. /\ op[Reader].at = "hold" /\ op[Reader].f = f /\ i \in 1 .. Len(frame[f].recs)
          /\ cut' = cut \cup {frame[f].recs[i].r} /\ \A h \in Frames \ {f} : frame'[h] = frame[h]
      BY <1>13 DEF ClearEffect, CutAt, SameFrames
    <3>4. ASSUME frame[f].recs[i].r = s PROVE g = f /\ k = i
      <4>1. frame[g].page = frame[f].page /\ k = i
        BY <1>0, <1>c, <3>0, <3>1, <3>3, <3>4 DEF FramesInPlace, RecordInPlace
      <4>2. frame[g].page # 0 /\ ~Replaced(g)
        BY <1>0, <3>1 DEF HandsPaged, HandsApart
      <4>3. ~Replaced(f)
        BY <1>0, <3>3 DEF Replaced, Claiming, HoldersApart, HoldsFrame
      <4> QED
        BY <1>0, <3>1, <4>1, <4>2, <4>3 DEF FramesMapped
    <3>5. k \in 1 .. Len(frame[g].recs) /\ frame[g].recs[k].r = s /\ frame[g].recs[k].cut = (s \in cut)
      BY <3>2 DEF Has
    <3>6. CASE g # f
      <4>1. (s \in cut') = (s \in cut) /\ frame'[g] = frame[g]
        BY <3>1, <3>3, <3>4, <3>6
      <4> QED
        BY <3>1, <3>5, <4>1 DEF Has
    <3>7. CASE g = f
      <4>1. /\ Len(frame'[f].recs) = Len(frame[f].recs) /\ frame'[f].recs[k].r = s
            /\ frame'[f].recs[k].cut = (k = i \/ frame[f].recs[k].cut)
        BY <1>13, <3>5, <3>7 DEF ClearEffect, CutAt
      <4>2. s \in cut' <=> s \in cut \/ k = i
        BY <3>3, <3>4, <3>5, <3>7
      <4>3. frame'[f].recs[k].cut = (k = i \/ s \in cut)
        BY <3>5, <3>7, <4>1
      <4>4. frame'[f].recs[k].cut = (s \in cut')
        <5>1. CASE s \in cut'
          BY <4>2, <4>3, <5>1
        <5>2. CASE s \notin cut'
          BY <4>2, <4>3, <5>2
        <5> QED
          BY <5>1, <5>2
      <4>5. k \in 1 .. Len(frame'[f].recs)
        BY <3>5, <3>7, <4>1
      <4> QED
        BY <3>1, <3>7, <4>1, <4>4, <4>5 DEF Has
    <3> QED
      BY <3>6, <3>7
  <2> QED
    BY <1>h, <2>2, <2>3, <2>4 DEF HandsStep
<1>14. ASSUME NEW f \in Frames, UnlatchEffect(f) PROVE HandsStep
  <2>1. StoredOld
    BY <1>0, <1>14 DEF UnlatchEffect, SameCalls, StoredOld, Same, Stored, Idle
  <2>2. \A x \in Chains : op'[x].at = "return" => op[x].at = "return"
    BY <1>0, <1>14 DEF UnlatchEffect, SameCalls, Idle
  <2>3. cut' = cut /\ \A g \in Frames : frame'[g].page = frame[g].page /\ frame'[g].recs = frame[g].recs
    BY <1>14 DEF UnlatchEffect, SameFrames
  <2>4. StoredHeld'
    BY <1>0, <1>h, <2>1, <2>3, HeldCalm
  <2>5. \A x \in Chains \ taken' : op'[x].at = "return" => Same(x)
    BY <2>1 DEF StoredOld, Stored
  <2> QED
    BY <1>h, <2>2, <2>3, <2>4, <2>5 DEF HandsStep
<1>15. ASSUME NEW f \in Frames, FlushLatchEffect(f) PROVE HandsStep
  <2>1. StoredOld
    BY <1>0, <1>15 DEF FlushLatchEffect, SameCalls, StoredOld, Same, Stored, Idle
  <2>2. \A x \in Chains : op'[x].at = "return" => op[x].at = "return"
    BY <1>0, <1>15 DEF FlushLatchEffect, SameCalls, Idle
  <2>3. cut' = cut /\ \A g \in Frames : frame'[g].page = frame[g].page /\ frame'[g].recs = frame[g].recs
    BY <1>15 DEF FlushLatchEffect, SameFrames
  <2>4. StoredHeld'
    BY <1>0, <1>h, <2>1, <2>3, HeldCalm
  <2>5. \A x \in Chains \ taken' : op'[x].at = "return" => Same(x)
    BY <2>1 DEF StoredOld, Stored
  <2> QED
    BY <1>h, <2>2, <2>3, <2>4, <2>5 DEF HandsStep
<1>16. ASSUME NEW f \in Frames, NEW p \in DeltaNumbers, FlushWriteEffect(f, p) PROVE HandsStep
  <2>1. StoredOld
    BY <1>0, <1>16 DEF FlushWriteEffect, SameCalls, StoredOld, Same, Stored, Idle
  <2>2. \A x \in Chains : op'[x].at = "return" => op[x].at = "return"
    BY <1>0, <1>16 DEF FlushWriteEffect, SameCalls, Idle
  <2>3. cut' = cut /\ \A g \in Frames : frame'[g].page = frame[g].page /\ frame'[g].recs = frame[g].recs
    BY <1>16 DEF FlushWriteEffect, SameFrames
  <2>4. StoredHeld'
    BY <1>0, <1>h, <2>1, <2>3, HeldCalm
  <2>5. \A x \in Chains \ taken' : op'[x].at = "return" => Same(x)
    BY <2>1 DEF StoredOld, Stored
  <2> QED
    BY <1>h, <2>2, <2>3, <2>4, <2>5 DEF HandsStep
<1>17. ASSUME NEW f \in Frames, NEW p \in DeltaNumbers, FlushCleanEffect(f, p) PROVE HandsStep
  <2>1. StoredOld
    BY <1>0, <1>17 DEF FlushCleanEffect, SameCalls, StoredOld, Same, Stored, Idle
  <2>2. \A x \in Chains : op'[x].at = "return" => op[x].at = "return"
    BY <1>0, <1>17 DEF FlushCleanEffect, SameCalls, Idle
  <2>3. cut' = cut /\ \A g \in Frames : frame'[g].page = frame[g].page /\ frame'[g].recs = frame[g].recs
    BY <1>17 DEF FlushCleanEffect, SameFrames
  <2>4. StoredHeld'
    BY <1>0, <1>h, <2>1, <2>3, HeldCalm
  <2>5. \A x \in Chains \ taken' : op'[x].at = "return" => Same(x)
    BY <2>1 DEF StoredOld, Stored
  <2> QED
    BY <1>h, <2>2, <2>3, <2>4, <2>5 DEF HandsStep
<1>18. CASE UNCHANGED deltaVars
  <2>1. StoredOld
    BY <1>0, <1>18 DEF deltaVars, SameCalls, StoredOld, Same, Stored, Idle
  <2>2. \A x \in Chains : op'[x].at = "return" => op[x].at = "return"
    BY <1>0, <1>18 DEF deltaVars, SameCalls, Idle
  <2>3. cut' = cut /\ \A g \in Frames : frame'[g].page = frame[g].page /\ frame'[g].recs = frame[g].recs
    BY <1>18 DEF deltaVars, SameFrames
  <2>4. StoredHeld'
    BY <1>0, <1>h, <2>1, <2>3, HeldCalm
  <2>5. \A x \in Chains \ taken' : op'[x].at = "return" => Same(x)
    BY <2>1 DEF StoredOld, Stored
  <2> QED
    BY <1>h, <2>2, <2>3, <2>4, <2>5 DEF HandsStep
<1> QED
  BY StepEffects, <1>1, <1>2, <1>3, <1>4, <1>5, <1>6, <1>7, <1>8, <1>9, <1>10, <1>11, <1>12, <1>13, <1>14,
     <1>15, <1>16, <1>17, <1>18 DEF Effects

-----------------------------------------------------------------------------
(* The theorem *)

\* Every step keeps the records whose pages were marked, and marks one more.
LEMMA ReturningStays ==
  ASSUME DeltaInv, [Next]_deltaVars
  PROVE  ReturningKept'
<1> SUFFICES ASSUME NEW c \in Chains \ taken', op'[c].at = "return", frame'[op'[c].f].page \notin doubtful'.pages
             PROVE  KeptAt(op[c].r, frame[op[c].f].page, op[c].i)'
  BY DEF ReturningKept
<1>0. HandsStep /\ doubtful.pages \subseteq doubtful'.pages
  BY StepEffects, HandsSteps, DoubtStays DEF DeltaInv
<1>1. PICK r, f, p, j : r = op[c].r /\ f = op[c].f /\ p = frame[f].page /\ j = op[c].i
  OBVIOUS
<1>2. c \notin taken /\ Stored(c) /\ op'[c].f = f /\ op'[c].r = r /\ op'[c].i = j
  BY <1>0, <1>1 DEF HandsStep, Same
<1>3. frame'[f].page = p /\ p \notin doubtful'.pages
  BY <1>0, <1>1, <1>2 DEF HandsStep
<1>4. CASE op[c].at = "return"
  <2>1. KeptAt(r, p, j) /\ Known(r, p, j)
    BY <1>0, <1>1, <1>2, <1>3, <1>4, KnownReturning DEF DeltaInv, RecordsKept, ReturningKept
  <2>2. p \in DeltaNumbers
    BY <2>1 DEF Known
  <2>3. KeptAt(r, p, j)'
    BY <1>3, <2>1, <2>2, KeptStep
  <2> QED
    BY <1>2, <1>3, <2>3 DEF KeptAt, Has, Leaving
<1>5. ASSUME NEW g \in Frames, MarkEffect(c, g)
      PROVE  KeptAt(op[c].r, frame[op[c].f].page, op[c].i)'
  <2>1. g = f /\ f \in Frames /\ frame'[f].dirty = TRUE /\ frame'[f].recs = frame[f].recs /\ UNCHANGED <<map, cut>>
    BY <1>1, <1>5 DEF MarkEffect
  <2>2. Has(frame[f].recs, j, r)
    BY <1>1, <1>2 DEF DeltaInv, RecordsKept, StoredHeld
  <2>3. f # NoFrame /\ f \in InHand(c)
    BY <1>1, <1>2, <2>1 DEF DeltaInv, DeltaParameters, InHand, Stored
  <2>4. p # 0 /\ ~Replaced(f)
    BY <1>1, <1>2, <2>3 DEF DeltaInv, MapExact, HandsPaged, FramesApart, HandsApart
  <2>5. map[p] = f
    BY <1>1, <2>1, <2>4 DEF DeltaInv, MapExact, FramesMapped
  <2>6. Has(frame[map[p]].recs, j, r)' /\ map'[p] = f /\ frame'[map'[p]].dirty
    BY <2>1, <2>2, <2>5 DEF Has
  <2>7. KeptAt(r, p, j)'
    BY <2>3, <2>6 DEF KeptAt
  <2> QED
    BY <1>2, <1>3, <2>7 DEF KeptAt, Has, Leaving
<1> QED
  BY <1>0, <1>4, <1>5 DEF HandsStep

\* Every step keeps the invariant.
LEMMA DeltaInvStep ==
  ASSUME DeltaInv, [Next]_deltaVars
  PROVE  DeltaInv'
<1>1. DeltaParameters'
  BY DEF DeltaInv, DeltaParameters
<1>2. RecordsKept'
  BY LeavingKept, ReturnedStays, ReturningStays, HandsSteps DEF RecordsKept, HandsStep
<1> QED
  BY <1>1, <1>2, TypesKept, CallsKept, HoldersKept, MapKept, NumbersKept, ApartKept, PlacesKept DEF DeltaInv

\* The invariant holds at the start.
LEMMA DeltaInvInit ==
  ASSUME DeltaParameters, Init
  PROVE  DeltaInv
<1>0. /\ \A o \in Owners : op[o] = Idle /\ op[o].at = "idle"
      /\ \A c \in Chains : head[c] = NoFrame /\ op[c].at = "idle"
      /\ op[Reader].at = "idle"
      /\ \A f \in Frames : /\ frame[f].page = 0 /\ frame[f].recs = <<>> /\ frame[f].latch = "none"
                           /\ frame[f].dirty = FALSE
      /\ \A p \in DeltaNumbers : map[p] = NoFrame /\ disk[p] = <<>>
      /\ flush.at = "idle" /\ DOMAIN loc = {} /\ cut = {} /\ nrecs = 0 /\ npages = 0
  BY DEF Init, Idle, Owners
<1>1. DeltaTypeOK
  <2>1. <<>> \in Seq(Record) /\ <<>> \in Seq(Nat)
    OBVIOUS
  <2>2. [page |-> 0, recs |-> <<>>, next |-> NoFrame, dirty |-> FALSE, latch |-> "none"] \in FrameType
    BY <2>1 DEF FrameType, DeltaParameters
  <2>3. frame \in [Frames -> FrameType]
    BY <2>2 DEF Init
  <2>4. head \in [Chains -> Frames \cup {NoFrame}] /\ op \in [Owners -> Call \cup {Idle}]
        /\ map \in [DeltaNumbers -> Frames \cup {NoFrame}]
    BY DEF Init
  <2>5. disk \in [DeltaNumbers -> Seq(Record)] /\ made \in [Chains -> Seq(Nat)]
    BY <2>1 DEF Init
  <2>6. /\ npages \in Nat /\ nrecs \in Nat /\ loads \in Nat /\ flush = Idle /\ DOMAIN loc = {}
        /\ cut = {} /\ taken = {} /\ doubtful \in [recs : SUBSET Nat, pages : SUBSET Nat]
    BY DEF Init
  <2> QED
    BY <2>3, <2>4, <2>5, <2>6 DEF DeltaTypeOK
<1>2. CallsSound
  BY <1>0 DEF CallsSound, CallsPlaced, CallsFramed, ClaimsOld, RecordsNew, CallsIndexed, Writing, Claiming
<1>3. OneHolder
  BY <1>0 DEF OneHolder, ClaimsLatched, ReadLatched, FlushLatched, HoldersApart, FlushApart, HoldsFrame,
     Claiming
<1>4. MapExact
  BY <1>0 DEF MapExact, MapHolds, FramesMapped, DirtyPaged, HeldPaged, HandsPaged, ReaderMisses, InHand,
     Claiming
<1>5. NumbersFresh
  BY <1>0 DEF NumbersFresh, NumbersCounted, MapCounted, NumbersNew, NumbersApart
<1>6. FramesApart
  BY <1>0 DEF FramesApart, HandsApart, ClaimsApart, InHand
<1>7. OnePlace
  BY <1>0 DEF OnePlace, FramesInPlace, DiskInPlace, NewUncut
<1>8. RecordsKept
  BY <1>0 DEF RecordsKept, LeavingUnmapped, ReturnedKept, ReturningKept, StoredHeld, Stored
<1> QED
  BY <1>1, <1>2, <1>3, <1>4, <1>5, <1>6, <1>7, <1>8 DEF DeltaInv

\* A record that is kept is what a read of its page finds at its place.
LEMMA KeptIsRead ==
  ASSUME DeltaInv, NEW r, NEW p \in DeltaNumbers, NEW j, KeptAt(r, p, j)
  PROVE  j <= Len(Content(p)) /\ Content(p)[j] = [r |-> r, cut |-> r \in cut]
<1> DEFINE leaving == {o \in Owners : op[o].at = "write" /\ op[o].write /\ op[o].old = p}
           o0 == CHOOSE o \in leaving : TRUE
<1>0. Content(p) = IF map[p] # NoFrame THEN frame[map[p]].recs
                   ELSE IF leaving # {} THEN frame[op[o0].f].recs ELSE disk[p]
  BY DEF Content
<1>1. leaving # {} => o0 \in Owners /\ Leaving(o0, p) /\ op[o0].f \in Frames
  <2>1. leaving # {} => o0 \in leaving
    OBVIOUS
  <2> QED
    BY <2>1 DEF Leaving, DeltaInv, CallsSound, CallsFramed, Claiming
<1>2. leaving = {} => \A o \in Owners : ~Leaving(o, p)
  BY DEF Leaving
<1> HIDE DEF leaving, o0
<1>3. Has(Content(p), j, r) /\ Content(p) \in Seq(Record)
  <2>1. CASE map[p] # NoFrame
    <3>1. map[p] \in Frames
      BY <2>1 DEF DeltaInv, DeltaTypeOK
    <3> QED
      BY <1>0, <2>1, <3>1, FrameFields DEF DeltaInv, KeptAt
  <2>2. CASE map[p] = NoFrame /\ leaving # {}
    BY <1>0, <1>1, <2>2, FrameFields DEF DeltaInv, KeptAt
  <2>3. CASE map[p] = NoFrame /\ leaving = {}
    <3>1. Has(disk[p], j, r) /\ disk[p] \in Seq(Record)
      BY <1>2, <2>3 DEF KeptAt, DeltaInv, DeltaTypeOK
    <3> QED
      BY <1>0, <2>3, <3>1
  <2> QED
    BY <2>1, <2>2, <2>3
<1>4. j \in 1 .. Len(Content(p)) /\ Content(p)[j].r = r /\ Content(p)[j].cut = (r \in cut) /\ Content(p)[j] \in Record
  BY <1>3 DEF Has
<1>5. Content(p)[j] = [r |-> r, cut |-> r \in cut]
  BY <1>4 DEF Record
<1> QED
  BY <1>3, <1>4, <1>5

\* No eviction, load, flush or truncation loses a record: whatever frame its page
\* is in, or was written from, a read finds it at the location its insert returned
\* (io_delta.cc, claim_frame_for_reuse of the delta pool).
THEOREM DeltaRecordsReadable == DeltaParameters /\ Spec => []RecordsReadable
<1>1. DeltaParameters /\ Init => DeltaInv
  BY DeltaInvInit
<1>2. DeltaInv /\ [Next]_deltaVars => DeltaInv'
  BY DeltaInvStep
<1>3. DeltaInv => RecordsReadable
  <2> SUFFICES ASSUME DeltaInv, NEW r \in DOMAIN loc \ doubtful.recs, loc[r].page \notin doubtful.pages
               PROVE  /\ loc[r].i <= Len(Content(loc[r].page))
                      /\ Content(loc[r].page)[loc[r].i] = [r |-> r, cut |-> r \in cut]
    BY DEF RecordsReadable
  <2>1. KeptAt(r, loc[r].page, loc[r].i) /\ loc[r].page \in DeltaNumbers
    BY DEF DeltaInv, RecordsKept, ReturnedKept, DeltaTypeOK
  <2> QED
    BY <2>1, KeptIsRead
<1> QED
  BY <1>1, <1>2, <1>3, PTL DEF Spec
==============================================================================
