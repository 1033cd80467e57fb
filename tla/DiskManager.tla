----------------------------- MODULE DiskManager -----------------------------
(***************************************************************************)
(* disk_manager_t: page numbers handed out from a free list or from the    *)
(* end of the file, writes that extend the file, two page counters raised  *)
(* by compare-exchange, and a constructor that recovers the counters from  *)
(* the file.                                                               *)
(*                                                                         *)
(* A database is first built: worker threads write pages they number       *)
(* themselves.  Then the engine allocates, writes and deletes pages.  It   *)
(* is closed and opened again when nobody works.  Sizes count pages.  The  *)
(* callers delete a page once and not while it is being written, which is  *)
(* Consolidation's subject.                                                *)
(***************************************************************************)
EXTENDS Naturals, Sequences, SequencesExt, FiniteSets

CONSTANTS
  Threads,          \* threads that use the disk manager
  BuildPages,       \* pages the builder writes are 0 .. BuildPages - 1
  MaxPages,         \* bound: pages of the file
  DefaultCapacity,  \* BW_GRAPH_DEFAULT_DB_IO_SIZE, in pages
  MaxFailures,      \* bound: writes that fail
  MaxRestarts       \* bound: times the database is opened again

ASSUME DiskAssumption ==
  /\ BuildPages \in Nat /\ MaxPages \in Nat /\ DefaultCapacity \in Nat
  /\ MaxFailures \in Nat /\ MaxRestarts \in Nat /\ BuildPages <= MaxPages

DiskPages == 0 .. MaxPages - 1

VARIABLES
  data,      \* pages of the file that are not all zero
  size,      \* size of the file
  capacity,  \* page_capacity_
  global,    \* global_page_count_
  valid,     \* valid_page_count_
  free,      \* free_slots_
  todo,      \* pages the builder has still to write
  owned,     \* pages in use
  written,   \* pages in use whose last write succeeded
  failed,    \* pages in use whose last write failed, which is only logged
  missed,    \* history: a write failed that would have been the first of its page
  given,     \* history: the page the last allocation returned was in use
  call,      \* thread -> the write_page it is in: where, page, current count
  failures,  \* writes that failed
  restarts   \* times the database was opened again

diskVars ==
  <<data, size, capacity, global, valid, free, todo, owned, written, failed, missed, given, call, failures,
    restarts>>

Idle == [at |-> "idle", page |-> 0, cur |-> 0]
Building == todo # {} \/ \E t \in Threads : call[t].at # "idle" /\ call[t].page < BuildPages

DiskInit ==
  /\ data = {} /\ size = 0
  /\ capacity = DefaultCapacity
  /\ global = 0 /\ valid = 0
  /\ free = <<>>
  /\ todo = 0 .. BuildPages - 1
  /\ owned = {} /\ written = {} /\ failed = {} /\ missed = FALSE /\ given = FALSE
  /\ call = [t \in Threads |-> Idle]
  /\ failures = 0 /\ restarts = 0

-----------------------------------------------------------------------------
(* allocate_page and delete_page: one section under db_io_latch_ *)

\* Where a new page ends the file; the capacity may shrink to it.
Grown(page) == (IF page < capacity THEN page + 1 ELSE capacity) + 1

AllocateKeepsSlot(t) ==
  /\ ~Building /\ call[t] = Idle
  /\ free # <<>>
  /\ given' = (Last(free) \in owned)
  /\ owned' = owned \cup {Last(free)}
  /\ UNCHANGED <<data, size, capacity, global, valid, free, todo, written, failed, missed, call, failures,
                 restarts>>

AllocateFree(t) ==
  /\ ~Building /\ call[t] = Idle
  /\ free # <<>>
  /\ free' = Front(free)
  /\ given' = (Last(free) \in owned)
  /\ owned' = owned \cup {Last(free)}
  /\ UNCHANGED <<data, size, capacity, global, valid, todo, written, failed, missed, call, failures,
                 restarts>>

AllocateEnd(t) ==
  /\ ~Building /\ call[t] = Idle
  /\ free = <<>> /\ global < MaxPages
  /\ global' = global + 1
  /\ capacity' = Grown(global)
  /\ given' = (global \in owned)
  /\ owned' = owned \cup {global}
  /\ UNCHANGED <<data, size, valid, free, todo, written, failed, missed, call, failures, restarts>>

\* A page beyond the capacity is refused, and lost.
delete_page(t, p) ==
  /\ ~Building /\ call[t] = Idle
  /\ p \in owned /\ \A u \in Threads : call[u].at = "idle" \/ call[u].page # p
  /\ free' = IF p < capacity THEN Append(free, p) ELSE free
  /\ owned' = owned \ {p} /\ written' = written \ {p} /\ failed' = failed \ {p}
  /\ UNCHANGED <<data, size, capacity, global, valid, todo, missed, given, call, failures, restarts>>

-----------------------------------------------------------------------------
(* write_page *)

Goto(t, at, page, cur) == call' = [call EXCEPT ![t] = [at |-> at, page |-> page, cur |-> cur]]

\* The section that extends the capacity; fallocate may fail, which is logged.
Extend(t, p) ==
  /\ call[t] = Idle
  /\ \/ p \in todo /\ todo' = todo \ {p} /\ owned' = owned \cup {p}
     \/ p \in owned /\ ~Building /\ UNCHANGED <<todo, owned>>
  /\ \A u \in Threads : call[u].at = "idle" \/ call[u].page # p
  /\ IF p < capacity THEN UNCHANGED <<capacity, size>>
     ELSE /\ capacity' = IF p + 1 > 2 * capacity THEN p + 1 ELSE 2 * capacity
          /\ size' \in {size, IF size > capacity' THEN size ELSE capacity'}
  /\ Goto(t, "write", p, 0)
  /\ UNCHANGED <<data, global, valid, free, written, failed, missed, given, failures, restarts>>

\* pwrite, the statistics and the first load of global_page_count_.
Write(t) ==
  /\ call[t].at = "write"
  /\ data' = data \cup {call[t].page}
  /\ size' = IF size > call[t].page THEN size ELSE call[t].page + 1
  /\ Goto(t, "global", call[t].page, global)
  /\ UNCHANGED <<capacity, global, valid, free, todo, owned, written, failed, missed, given, failures,
                 restarts>>

\* A failed or short pwrite is logged and write_page returns: neither counter is
\* raised and the caller takes the page for written.  A short one may leave part
\* of the page in the file, or end the file within it (sizes are whole pages).
WriteFails(t) == LET p == call[t].page IN
  /\ call[t].at = "write" /\ failures < MaxFailures
  /\ failures' = failures + 1
  /\ IF p < size THEN data' \in {data, data \cup {p}} /\ UNCHANGED size
     ELSE size' \in {size, p} /\ UNCHANGED data
  /\ written' = written \ {p} /\ failed' = failed \cup {p}
  /\ missed' = (missed \/ p \notin data \/ global <= p)
  /\ call' = [call EXCEPT ![t] = Idle]
  /\ UNCHANGED <<capacity, global, valid, free, todo, owned, given, restarts>>

\* One turn of the loop that raises a counter to page + 1: the new value of the
\* counter, given its value and the value loaded before.
Raise(counter, c) == IF c.cur < c.page + 1 /\ counter = c.cur THEN c.page + 1 ELSE counter

\* A failed exchange (also a spurious one) reloads the counter.
BumpGlobal(t) ==
  /\ call[t].at = "global"
  /\ IF Raise(global, call[t]) # global \/ call[t].cur >= call[t].page + 1
     THEN global' = Raise(global, call[t]) /\ Goto(t, "valid", call[t].page, valid)
     ELSE UNCHANGED global /\ Goto(t, "global", call[t].page, global)
  /\ UNCHANGED <<data, size, capacity, valid, free, todo, owned, written, failed, missed, given, failures,
                 restarts>>

BumpValid(t) ==
  /\ call[t].at = "valid"
  /\ IF Raise(valid, call[t]) # valid \/ call[t].cur >= call[t].page + 1
     THEN /\ valid' = Raise(valid, call[t])
          /\ written' = written \cup {call[t].page} /\ failed' = failed \ {call[t].page}
          /\ call' = [call EXCEPT ![t] = Idle]
     ELSE UNCHANGED <<valid, written, failed>> /\ Goto(t, "valid", call[t].page, valid)
  /\ UNCHANGED <<data, size, capacity, global, free, todo, owned, missed, given, failures, restarts>>

\* read_page returns the content of the page and not zeros; get_page_count.
read_page(p) == p < capacity /\ p < size /\ p \in data
get_page_count == valid

-----------------------------------------------------------------------------
(* shutdown and the constructor on an existing file *)

\* The backward scan: one more than the last page that is not all zero.  A
\* short read ends the scan with nothing found.
CountFound(cap) ==
  IF cap > size \/ data = {} THEN 0
  ELSE CHOOSE n \in 1 .. cap : n - 1 \in data /\ \A p \in data : p < n

\* close() has every page in use written before it shuts the disk manager down,
\* and does not learn which writes failed.
Reopen ==
  /\ ~Building /\ \A t \in Threads : call[t] = Idle
  /\ written \cup failed = owned /\ restarts < MaxRestarts
  /\ capacity' = IF size = 0 THEN DefaultCapacity ELSE size
  /\ valid' = CountFound(capacity') /\ global' = valid'
  /\ free' = <<>>
  /\ restarts' = restarts + 1
  /\ UNCHANGED <<data, size, todo, owned, written, failed, missed, given, call, failures>>

-----------------------------------------------------------------------------
DiskNext ==
  \/ \E t \in Threads : \/ AllocateFree(t) \/ AllocateEnd(t)
                        \/ Write(t) \/ WriteFails(t) \/ BumpGlobal(t) \/ BumpValid(t)
                        \/ \E p \in DiskPages : delete_page(t, p) \/ Extend(t, p)
  \/ Reopen

DiskSpec == DiskInit /\ [][DiskNext]_diskVars

-----------------------------------------------------------------------------
(* Properties *)

\* No page is handed out while it is in use, not after a parallel build and not
\* after the database was opened again: the counters never fall behind a page
\* that was written, and a page in use is not on the free list, which holds no
\* page twice.
PagesOwnedOnce ==
  /\ ~given
  /\ Range(free) \cap owned = {}
  /\ \A i, j \in 1 .. Len(free) : free[i] = free[j] => i = j

\* read_page returns what was written: the page lies within the capacity,
\* although allocate_page may shrink it, and get_page_count covers it.
WrittenReadable == \A p \in written : read_page(p) /\ p < get_page_count /\ p < global

\* A page number has one owner at a time and its content can be read back, as
\* long as no first write of a page failed: such a page is not in the file, and
\* neither counter nor the next constructor knows it.  Failed writes of pages
\* the file already has do no harm to other pages.
DiskSound == ~missed => PagesOwnedOnce /\ WrittenReadable
==============================================================================
