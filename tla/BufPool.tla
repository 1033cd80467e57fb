------------------------------- MODULE BufPool -------------------------------
(***************************************************************************)
(* buf_pool_t<csr_page_t>: a fixed set of frames caching disk pages, with  *)
(* cold loads that are shared between threads, clock replacement, write    *)
(* back of dirty victims, retirement of replaced pages and a background    *)
(* flusher.                                                                *)
(*                                                                         *)
(* A page's content is the set of updates it carries.  The list section of *)
(* claim_frame_for_reuse and of retire_page (both list latches held) is    *)
(* one action; page latches, the page map, the loading set and disk I/O    *)
(* are accessed in actions of their own.                                   *)
(***************************************************************************)
EXTENDS Integers, Sequences, FiniteSets, FiniteSetsExt

CONSTANTS
  Threads,    \* threads that call into the pool
  Frames,     \* frames of the pool, in no particular order
  NoFrame,    \* nullptr
  NumPages,   \* pages 1 .. NumPages; the pages above LivePages are free at the start
  LivePages,  \* pages that vertices refer to at the start
  Calls,      \* kinds of calls the threads make
  MaxCalls,   \* bound: calls started
  MaxRetires  \* bound: pages replaced and retired

ASSUME BufPoolAssumption ==
  /\ IsFiniteSet(Threads) /\ IsFiniteSet(Frames) /\ Frames # {} /\ NoFrame \notin Frames
  /\ NumPages \in Nat /\ LivePages \in 0 .. NumPages
  /\ Calls \subseteq {"read", "slot", "job", "cp", "scan"}
  /\ MaxCalls \in Nat /\ MaxRetires \in Nat

Pages == 1 .. NumPages

VARIABLES
  map,      \* page_map: page -> frame, or NoFrame
  frame,    \* frame -> page number, content, dirty, referenced, pins, latch
  lru,      \* LRU list, head first
  free,     \* free list, head first
  hand,     \* clock_hand_
  loading,  \* loading_pages_
  disk,     \* page -> content on disk
  th,       \* local state of the threads
  gc,       \* local state of the reclaimer: retire_page
  stat,     \* page -> "live", "old" (replaced), "free" (deallocated) or "new" (being built)
  truth,    \* history: page -> content the database has acknowledged
  ncalls,   \* calls started so far
  nretires, \* retirements started so far
  raced     \* history: the races that have happened

vars == <<map, frame, lru, free, hand, loading, disk, th, gc, stat, truth, ncalls, nretires,
          raced>>
lists == <<lru, free, hand>>
counts == <<ncalls, nretires>>

Idle == [pc |-> "idle"]
Empty == [page |-> 0, data |-> {}, dirty |-> FALSE, ref |-> FALSE, pins |-> 0, latch |-> 0]

\* A page latch holds -1 for a writer, otherwise its number of readers.
Unlatched(f) == frame[f].latch = 0

\* buf_pool_init and free_list_init.
Init ==
  /\ map = [p \in Pages |-> NoFrame]
  /\ frame = [f \in Frames |-> Empty]
  /\ lru = <<>>
  /\ free \in {s \in [1 .. Cardinality(Frames) -> Frames] : \A i, j \in DOMAIN s : s[i] = s[j] => i = j}
  /\ hand = NoFrame
  /\ loading = {}
  /\ disk = [p \in Pages |-> {}]
  /\ th = [t \in Threads |-> Idle]
  /\ gc = Idle
  /\ stat = [p \in Pages |-> IF p <= LivePages THEN "live" ELSE "free"]
  /\ truth = [p \in Pages |-> {}]
  /\ ncalls = 0
  /\ nretires = 0
  /\ raced = {}

-----------------------------------------------------------------------------
(* Calls *)

InCall(t) == th[t].pc # "idle"

\* buf_page_read on behalf of a vertex, with or without a job to start;
\* buf_page_read_for_slot_write; buf_page_cp of an SMO to a page number it
\* allocated; and a scan: buf_page_read of any page number, in use or not, by a
\* prefetch worker, a dense edge map, an edge scan or warm_up.
Call(t, kind, p) ==
  /\ ~InCall(t) /\ ncalls < MaxCalls
  /\ kind \in {"read", "slot", "job"} => stat[p] = "live"
  /\ kind = "cp" => stat[p] = "free"
  /\ th' = [th EXCEPT ![t] = [pc |-> IF kind = "cp" THEN "cp_find" ELSE "find", kind |-> kind,
                              p |-> p, f |-> NoFrame, loader |-> FALSE, wb |-> 0]]
  /\ stat' = IF kind = "cp" THEN [stat EXCEPT ![p] = "new"] ELSE stat
  /\ ncalls' = ncalls + 1
  /\ UNCHANGED <<lists, map, frame, loading, disk, gc, truth, nretires, raced>>

Writes(t) == th[t].kind = "slot"

\* A scan goes on to read a page although a copy to the same number, which
\* registers nowhere, is past the lookup that missed or is even mapped already:
\* the page gets two frames, of which one stays mapped.
PastMiss(t) == th[t].pc \in {"claim", "writeback", "fill", "publish"}
Crosses(t) ==
  \/ th[t].kind = "scan" /\ map[th[t].p] # NoFrame
  \/ \E u \in Threads : /\ PastMiss(u) /\ th[u].p = th[t].p
                        /\ {th[t].kind, th[u].kind} = {"cp", "scan"}
Missed(t) == IF Crosses(t) THEN raced \cup {"crossed"} ELSE raced

\* try_latch_cached_page: the lookup.
Find(t) ==
  LET f == map[th[t].p]
  IN /\ th[t].pc = "find"
     /\ th' = [th EXCEPT ![t].f = f,
                         ![t].pc = IF f = NoFrame THEN (IF th[t].loader THEN "claim" ELSE "register")
                                   ELSE IF Writes(t) THEN "latch" ELSE "pin"]
     /\ raced' = IF f = NoFrame /\ th[t].loader THEN Missed(t) ELSE raced
     /\ UNCHANGED <<lists, counts, map, frame, loading, disk, gc, stat, truth>>

\* page_t::r_latch increments the pin count before it waits for the latch.
Pin(t) ==
  /\ th[t].pc = "pin"
  /\ frame' = [frame EXCEPT ![th[t].f].pins = @ + 1]
  /\ th' = [th EXCEPT ![t].pc = "latch"]
  /\ UNCHANGED <<lists, counts, map, loading, disk, gc, stat, truth, raced>>

Latch(t) ==
  LET f == th[t].f
  IN /\ th[t].pc = "latch"
     /\ IF Writes(t) THEN Unlatched(f) ELSE frame[f].latch >= 0
     /\ frame' = [frame EXCEPT ![f].latch = IF Writes(t) THEN -1 ELSE @ + 1]
     /\ th' = [th EXCEPT ![t].pc = "verify"]
     /\ UNCHANGED <<lists, counts, map, loading, disk, gc, stat, truth, raced>>

\* The frame still holds the page.
VerifyNothing(t) == TRUE
Verified(t) == map[th[t].p] = th[t].f /\ frame[th[t].f].page = th[t].p

\* r_unlatch or w_unlatch of frame f by thread t.
Unlatch(t, f) == IF Writes(t) THEN [frame EXCEPT ![f].latch = 0]
                 ELSE [frame EXCEPT ![f].latch = @ - 1, ![f].pins = @ - 1]

\* try_latch_cached_page: the second lookup.  A hit of the registered loader
\* ends its load.
Verify(t) ==
  LET f == th[t].f
      p == th[t].p
  IN /\ th[t].pc = "verify"
     /\ IF Verified(t)
        THEN /\ frame' = [frame EXCEPT ![f].ref = TRUE]
             /\ th' = [th EXCEPT ![t].pc = "hold"]
             /\ loading' = IF th[t].loader THEN loading \ {p} ELSE loading
             /\ UNCHANGED raced
        ELSE /\ frame' = Unlatch(t, f)
             /\ th' = [th EXCEPT ![t].pc = IF th[t].loader THEN "claim" ELSE "register"]
             /\ raced' = IF th[t].loader THEN Missed(t) ELSE raced
             /\ UNCHANGED loading
     /\ UNCHANGED <<lists, counts, map, disk, gc, stat, truth>>

\* register_page_load: become the loader, or wait until the loader is done and
\* look again.
RegisterAnyway(p) == TRUE
FirstLoader(p) == p \notin loading

Register(t) ==
  LET p == th[t].p
  IN /\ th[t].pc = "register"
     /\ IF FirstLoader(p)
        THEN /\ loading' = loading \cup {p}
             /\ th' = [th EXCEPT ![t].pc = "find", ![t].loader = TRUE]
        ELSE /\ th' = [th EXCEPT ![t].pc = "wait"]
             /\ UNCHANGED loading
     /\ UNCHANGED <<lists, counts, map, frame, disk, gc, stat, truth, raced>>

Wait(t) ==
  /\ th[t].pc = "wait" /\ th[t].p \notin loading
  /\ th' = [th EXCEPT ![t].pc = "find"]
  /\ UNCHANGED <<lists, counts, map, frame, loading, disk, gc, stat, truth, raced>>

-----------------------------------------------------------------------------
(* Replacement *)

IndexIn(s, f) == CHOOSE i \in DOMAIN s : s[i] = f
Without(s, f) == LET i == IndexIn(s, f) IN SubSeq(s, 1, i - 1) \o SubSeq(s, i + 1, Len(s))

\* The frame after f on the LRU list, from the tail back to the head.
NextOf(f) == lru[(IndexIn(lru, f) % Len(lru)) + 1]

\* The LRU list in the order the clock visits it.
ClockOrder ==
  LET i == IndexIn(lru, hand) IN SubSeq(lru, i, Len(lru)) \o SubSeq(lru, 1, i - 1)

\* A frame that find_victim_page may take: try_w_latch succeeds and no pin.
TakePinned(f) == Unlatched(f)
Evictable(f) == frame[f].pins = 0 /\ Unlatched(f)

\* find_victim_page: one round of the clock, clearing reference bits, then a
\* scan from the head.  Gives the victim (NoFrame if every frame is in use),
\* the frames whose reference bit was cleared and the new hand.
find_victim_page ==
  LET c    == ClockOrder
      cold == {i \in DOMAIN c : Evictable(c[i]) /\ ~frame[c[i]].ref}
      warm == {i \in DOMAIN c : frame[c[i]].pins = 0 /\ frame[c[i]].ref}
      any  == {i \in DOMAIN lru : Evictable(lru[i])}
  IN IF cold # {}
     THEN [victim  |-> c[Min(cold)],
           cleared |-> {c[i] : i \in {j \in warm : j < Min(cold)}},
           hand    |-> NextOf(c[Min(cold)])]
     ELSE [victim  |-> IF any = {} THEN NoFrame ELSE lru[Min(any)],
           cleared |-> {c[i] : i \in warm},
           hand    |-> hand]

\* remove_from_lru_list moves the hand off the removed frame.
HandStays(h, f) == h
HandWithout(h, f) == IF h = f THEN NextOf(f) ELSE h

Cleared(s) == [g \in Frames |-> IF g \in s THEN [frame[g] EXCEPT !.ref = FALSE] ELSE frame[g]]

\* A victim whose content is not on disk although it is clean, or whose
\* content is about to be marked dirty by the thread that copied it.
Unsaved(f) == ~frame[f].dirty /\ frame[f].data # disk[frame[f].page]

\* claim_frame_for_reuse, list section: a free frame, or a victim that is
\* unmapped at once.  No frame at all makes the call throw.
ClaimFree(t) ==
  LET f == Head(free)
  IN /\ th[t].pc = "claim" /\ free # <<>>
     /\ Unlatched(f)
     /\ frame' = [frame EXCEPT ![f].latch = -1]
     /\ free' = Tail(free)
     /\ lru' = <<f>> \o lru
     /\ hand' = IF lru = <<>> THEN f ELSE hand
     /\ th' = [th EXCEPT ![t].pc = "fill", ![t].f = f]
     /\ UNCHANGED <<counts, map, loading, disk, gc, stat, truth, raced>>

\* page_map.erase(victim_page_no)
KeepMapped(f) == map
Unmapped(f) == [map EXCEPT ![frame[f].page] = NoFrame]

ClaimVictim(t) ==
  LET v == find_victim_page
      f == v.victim
  IN /\ th[t].pc = "claim" /\ free = <<>>
     /\ f # NoFrame
     /\ frame' = [Cleared(v.cleared) EXCEPT ![f].latch = -1]
     /\ lru' = <<f>> \o Without(lru, f)
     /\ hand' = HandWithout(v.hand, f)
     /\ map' = Unmapped(f)
     /\ th' = [th EXCEPT ![t].pc = IF frame[f].dirty THEN "writeback" ELSE "fill", ![t].f = f,
                         ![t].wb = IF frame[f].dirty THEN frame[f].page ELSE 0]
     /\ raced' = IF Unsaved(f) THEN raced \cup {"dropped"} ELSE raced
     /\ UNCHANGED <<counts, free, loading, disk, gc, stat, truth>>

\* "all pages are pinned, cannot allocate new page": the loader's exception
\* path ends the load; the page number of a copy stays allocated.
FinishKeepsLoading(p) == loading
FinishLoad(p) == loading \ {p}

ClaimThrow(t) ==
  LET v == find_victim_page
  IN /\ th[t].pc = "claim" /\ free = <<>>
     /\ v.victim = NoFrame
     /\ frame' = Cleared(v.cleared)
     /\ loading' = IF th[t].loader THEN FinishLoad(th[t].p) ELSE loading
     /\ th' = [th EXCEPT ![t] = Idle]
     /\ UNCHANGED <<lists, counts, map, disk, gc, stat, truth, raced>>

\* The dirty victim is written to its old place, outside the list latches.
WriteBackForgets(t) ==
  /\ th[t].pc = "writeback"
  /\ frame' = [frame EXCEPT ![th[t].f].dirty = FALSE]
  /\ th' = [th EXCEPT ![t].pc = "fill"]
  /\ UNCHANGED <<lists, counts, map, loading, disk, gc, stat, truth, raced>>

WriteBack(t) ==
  LET f == th[t].f
  IN /\ th[t].pc = "writeback"
     /\ disk' = [disk EXCEPT ![th[t].wb] = frame[f].data]
     /\ frame' = [frame EXCEPT ![f].dirty = FALSE]
     /\ th' = [th EXCEPT ![t].pc = "fill"]
     /\ UNCHANGED <<lists, counts, map, loading, gc, stat, truth, raced>>

WritingBack(p) == \E u \in Threads : th[u].pc = "writeback" /\ th[u].wb = p

\* read_page_internal: the page is read from disk into the frame.
Fill(t) ==
  LET f == th[t].f
      p == th[t].p
  IN /\ th[t].pc = "fill" /\ th[t].kind # "cp"
     /\ frame' = [frame EXCEPT ![f].page = p, ![f].data = disk[p], ![f].ref = TRUE]
     /\ th' = [th EXCEPT ![t].pc = "publish"]
     /\ raced' = IF WritingBack(p) THEN raced \cup {"overtook write-back"} ELSE raced
     /\ UNCHANGED <<lists, counts, map, loading, disk, gc, stat, truth>>

\* page_map.insert keeps a mapping that is already there.
Publish(t) ==
  LET p == th[t].p
  IN /\ th[t].pc = "publish" /\ th[t].kind # "cp"
     /\ map' = IF map[p] = NoFrame THEN [map EXCEPT ![p] = th[t].f] ELSE map
     /\ th' = [th EXCEPT ![t].pc = "finish"]
     /\ UNCHANGED <<lists, counts, frame, loading, disk, gc, stat, truth, raced>>

\* finish_page_load, then w_to_r_latch for a reader.
Finish(t) ==
  /\ th[t].pc = "finish"
  /\ loading' = FinishLoad(th[t].p)
  /\ frame' = IF Writes(t) THEN frame
              ELSE [frame EXCEPT ![th[t].f].latch = 1, ![th[t].f].pins = @ + 1]
  /\ th' = [th EXCEPT ![t].pc = "hold"]
  /\ UNCHANGED <<lists, counts, map, disk, gc, stat, truth, raced>>

\* insert_edge_in_slot: an update in place under the write latch.
SlotWrite(t) ==
  LET f == th[t].f
      p == th[t].p
  IN /\ th[t].pc = "hold" /\ Writes(t)
     /\ frame' = [frame EXCEPT ![f].data = @ \cup {ncalls}, ![f].latch = 0]
     /\ truth' = [truth EXCEPT ![p] = @ \cup {ncalls}]
     /\ th' = [th EXCEPT ![t] = Idle]
     /\ UNCHANGED <<lists, counts, map, loading, disk, gc, stat, raced>>

\* insert_edge pins the page for the job it starts before it lets the latch go;
\* consolidate_pages drops the pin when it leaves.
Keep(t) ==
  /\ th[t].pc = "hold" /\ th[t].kind = "job"
  /\ frame' = [frame EXCEPT ![th[t].f].latch = @ - 1]
  /\ th' = [th EXCEPT ![t].pc = "pinned"]
  /\ UNCHANGED <<lists, counts, map, loading, disk, gc, stat, truth, raced>>

Unpin(t) ==
  /\ th[t].pc = "pinned"
  /\ frame' = [frame EXCEPT ![th[t].f].pins = @ - 1]
  /\ th' = [th EXCEPT ![t] = Idle]
  /\ UNCHANGED <<lists, counts, map, loading, disk, gc, stat, truth, raced>>

Release(t) ==
  /\ th[t].pc = "hold" /\ th[t].kind \in {"read", "scan"}
  /\ frame' = Unlatch(t, th[t].f)
  /\ th' = [th EXCEPT ![t] = Idle]
  /\ UNCHANGED <<lists, counts, map, loading, disk, gc, stat, truth, raced>>

-----------------------------------------------------------------------------
(* buf_page_cp: the SMO copies a page it has built into the pool *)

\* A page number that is still cached is refused, and the job throws.
CpFind(t) ==
  LET p == th[t].p
  IN /\ th[t].pc = "cp_find"
     /\ IF map[p] # NoFrame
        THEN th' = [th EXCEPT ![t] = Idle] /\ raced' = raced \cup {"refused"}
        ELSE th' = [th EXCEPT ![t].pc = "claim"] /\ raced' = Missed(t)
     /\ UNCHANGED <<lists, counts, map, frame, loading, disk, gc, stat, truth>>

\* The content is copied and the frame is mapped and unlatched.  Retirement does
\* not wait for the write-back of an evicted page, so the number may be one whose
\* last content is still on its way to disk.
CpFill(t) ==
  LET f == th[t].f
      p == th[t].p
  IN /\ th[t].pc = "fill" /\ th[t].kind = "cp"
     /\ frame' = [frame EXCEPT ![f].page = p, ![f].data = {ncalls}, ![f].ref = TRUE]
     /\ truth' = [truth EXCEPT ![p] = {ncalls}]
     /\ th' = [th EXCEPT ![t].pc = "publish"]
     /\ raced' = IF WritingBack(p) THEN raced \cup {"overtook write-back"} ELSE raced
     /\ UNCHANGED <<lists, counts, map, loading, disk, gc, stat>>

CpPublish(t) ==
  LET f == th[t].f
      p == th[t].p
  IN /\ th[t].pc = "publish" /\ th[t].kind = "cp"
     /\ map' = IF map[p] = NoFrame THEN [map EXCEPT ![p] = f] ELSE map
     /\ frame' = [frame EXCEPT ![f].latch = 0]
     /\ th' = [th EXCEPT ![t].pc = "mark"]
     /\ UNCHANGED <<lists, counts, loading, disk, gc, stat, truth, raced>>

\* mark_dirty through the returned pointer, without a latch: by now the frame
\* may hold another page.  Then vertices are switched to the new page.
CpMark(t) ==
  LET f == th[t].f
  IN /\ th[t].pc = "mark"
     /\ raced' = IF map[th[t].p] = f THEN raced ELSE raced \cup {"late mark"}
     /\ frame' = [frame EXCEPT ![f].dirty = TRUE]
     /\ stat' = [stat EXCEPT ![th[t].p] = "live"]
     /\ th' = [th EXCEPT ![t] = Idle]
     /\ UNCHANGED <<lists, counts, map, loading, disk, gc, truth>>

-----------------------------------------------------------------------------
(* Retirement of a replaced page, and the flusher *)

\* The vertices of p have moved: no new call names it.
Replace(p) ==
  /\ stat[p] = "live" /\ nretires < MaxRetires
  /\ stat' = [stat EXCEPT ![p] = "old"]
  /\ nretires' = nretires + 1
  /\ UNCHANGED <<lists, map, frame, loading, disk, th, gc, truth, ncalls, raced>>

\* A call that looks p up on behalf of a vertex still protects the version; it
\* drops the protection once it holds the page.
Protected(p) ==
  \E t \in Threads : /\ th[t].pc \notin {"idle", "hold", "pinned"} /\ th[t].p = p
                     /\ th[t].kind \in {"read", "slot", "job"}

\* retire_page: the lookup ...
RetireFind(p) ==
  /\ gc.pc = "idle" /\ stat[p] = "old" /\ ~Protected(p)
  /\ IF map[p] = NoFrame
     THEN stat' = [stat EXCEPT ![p] = "free"] /\ UNCHANGED gc
     ELSE gc' = [pc |-> "retire", p |-> p, f |-> map[p]] /\ UNCHANGED stat
  /\ UNCHANGED <<lists, counts, map, frame, loading, disk, th, truth, raced>>

\* ... and the section under both list latches.  A page that moved to another
\* frame counts as gone; a page in use is tried again.
RetireLocked ==
  LET p == gc.p
      f == gc.f
  IN /\ gc.pc = "retire"
     /\ gc' = Idle
     /\ \/ /\ map[p] # f
           /\ stat' = [stat EXCEPT ![p] = "free"]
           /\ UNCHANGED <<lists, map, frame>>
        \/ /\ map[p] = f /\ ~Evictable(f)
           /\ UNCHANGED <<lists, map, frame, stat>>
        \/ /\ map[p] = f /\ Evictable(f)
           /\ map' = [map EXCEPT ![p] = NoFrame]
           /\ frame' = [frame EXCEPT ![f].dirty = FALSE, ![f].ref = FALSE]
           /\ lru' = Without(lru, f)
           /\ hand' = HandWithout(hand, f)
           /\ free' = Append(free, f)
           /\ stat' = [stat EXCEPT ![p] = "free"]
     /\ UNCHANGED <<counts, loading, disk, th, truth, raced>>

\* csr_page_t::flush_to_disk on a frame the flusher found dirty.
Flush(f) ==
  /\ Unlatched(f) /\ frame[f].dirty
  /\ disk' = [disk EXCEPT ![frame[f].page] = frame[f].data]
  /\ frame' = [frame EXCEPT ![f].dirty = FALSE]
  /\ UNCHANGED <<lists, counts, map, loading, th, gc, stat, truth, raced>>

-----------------------------------------------------------------------------
Step(t) ==
  \/ Find(t) \/ Pin(t) \/ Latch(t) \/ Verify(t) \/ Register(t) \/ Wait(t)
  \/ ClaimFree(t) \/ ClaimVictim(t) \/ ClaimThrow(t) \/ WriteBack(t) \/ Fill(t)
  \/ Publish(t) \/ Finish(t) \/ SlotWrite(t) \/ Keep(t) \/ Unpin(t) \/ Release(t)
  \/ CpFind(t) \/ CpFill(t) \/ CpPublish(t) \/ CpMark(t)

Next ==
  \/ \E t \in Threads, kind \in Calls, p \in Pages : Call(t, kind, p)
  \/ \E t \in Threads : Step(t)
  \/ \E p \in Pages : Replace(p) \/ RetireFind(p)
  \/ RetireLocked
  \/ \E f \in Frames : Flush(f)

Spec == Init /\ [][Next]_vars

\* A thread inside a call keeps running, and so does the reclamation that
\* retires a replaced page; new calls and updates are the caller's choice.
FairSpec ==
  /\ Spec
  /\ \A t \in Threads : WF_vars(Step(t))
  /\ WF_vars(RetireLocked)
  /\ \A p \in Pages : WF_vars(RetireFind(p))

-----------------------------------------------------------------------------
(* Properties *)

\* Types, and the bounds of the latch word and the pin count.
TypeOK ==
  /\ map \in [Pages -> Frames \cup {NoFrame}]
  /\ frame \in [Frames -> [page : 0 .. NumPages, data : SUBSET (1 .. MaxCalls), dirty : BOOLEAN,
                           ref : BOOLEAN, pins : Nat, latch : {-1} \cup Nat]]
  /\ lru \in Seq(Frames) /\ free \in Seq(Frames) /\ hand \in Frames \cup {NoFrame}
  /\ loading \subseteq Pages
  /\ disk \in [Pages -> SUBSET (1 .. MaxCalls)] /\ truth \in [Pages -> SUBSET (1 .. MaxCalls)]
  /\ stat \in [Pages -> {"live", "old", "free", "new"}]

\* The thread may use the frame: it holds the latch or the pin.
Using(t) == th[t].pc \in {"hold", "pinned"}

\* A page that a thread has latched or pinned stays where it is: no eviction,
\* retirement or reuse of the frame gets past the pin, the latch and the second
\* lookup (try_latch_cached_page, find_victim_page, retire_page), unless a scan's
\* load of a page number crossed the copy that takes the number into use.
PageStays ==
  "crossed" \in raced \/
  \A t \in Threads : Using(t) => map[th[t].p] = th[t].f /\ frame[th[t].f].page = th[t].p

\* Frames that were claimed and still carry the number of their last page.
Refilling == {th[t].f : t \in {u \in Threads : th[u].pc \in {"writeback", "fill"}}}

\* A page is in the pool at most once: the shared cold load never fills two
\* frames with the same page (register_page_load); only a copy, which does not
\* register, and a load that crosses it do.
OneCopy ==
  "crossed" \in raced \/
  \A f, g \in Frames :
    (frame[f].page = frame[g].page /\ frame[f].page # 0 /\ f # g) =>
      \/ {f, g} \cap Refilling # {}
      \/ \E i \in DOMAIN free : free[i] \in {f, g}

\* The types, so that no pin count or latch word underflows; every frame is on
\* exactly one list, the hand points into the LRU list, and a
\* frame on the free list is unmapped, and clean unless an SMO marked it after
\* it had lost its page.
ListsExact ==
  /\ TypeOK
  /\ Len(lru) + Len(free) = Cardinality(Frames)
  /\ {lru[i] : i \in DOMAIN lru} \cup {free[i] : i \in DOMAIN free} = Frames
  /\ lru = <<>> \/ \E i \in DOMAIN lru : lru[i] = hand
  /\ \A i \in DOMAIN free :
       /\ frame[free[i]].dirty => "late mark" \in raced
       /\ \A p \in Pages : map[p] # free[i]

\* The races after which a holder may see old content: a load or a copy overtook
\* the write-back of the same page number, a clean victim was not on disk, a mark
\* came after the page had left its frame, a load crossed a copy.
StaleRaces == {"overtook write-back", "dropped", "late mark", "crossed"}

\* What a holder sees is what the database acknowledged, and no acknowledged
\* content is lost, unless one of those races happened.  A scan sees it if the
\* page is one vertices are on, or were until their versions are retired.
ReadsCurrent ==
  raced \cap StaleRaces = {} =>
    \A t \in Threads : (Using(t) /\ (th[t].kind = "scan" => stat[th[t].p] \in {"live", "old"})) =>
                          frame[th[t].f].data = truth[th[t].p]

\* Every call into the pool ends, whichever loads wait for each other and
\* although a load may find every frame held and throw, and every replaced page
\* gives its frame and its number back.
PoolCallsEnd ==
  /\ \A t \in Threads : InCall(t) ~> ~InCall(t)
  /\ \A p \in Pages : stat[p] = "old" ~> stat[p] # "old"

\* A demand read never returns content older than an acknowledged update.
ReadsNeverStale ==
  \A t \in Threads : (Using(t) /\ "dropped" \notin raced) => frame[th[t].f].data = truth[th[t].p]
==============================================================================
