------------------------------- MODULE Closing -------------------------------
(***************************************************************************)
(* Reclamation of replaced vertex versions and the closing of a database:  *)
(* consolidation tasks publish new versions and retire the old ones,       *)
(* readers protect versions with hazard pointers, garbage collection       *)
(* threads reclaim, and close() takes everything down in a fixed order     *)
(* while some of this may still be under way.                              *)
(*                                                                         *)
(* The hazard pointer library is external: retire hands a version over,    *)
(* and hazptr_cleanup reclaims, on the thread that calls it, every version *)
(* handed over that no hazard pointer names.  All waits of the code time   *)
(* out after two milliseconds, so no notification is modelled.             *)
(***************************************************************************)
EXTENDS Naturals, Sequences, FiniteSets

CONSTANTS
  Tasks,         \* consolidations
  Replaces,      \* task -> the versions its new ones replace
  GcThreads,     \* version_gc_threads_
  Readers,       \* threads that read vertices
  QueuedAtClose  \* TRUE if close() may be called while a task is still queued

Vers == UNION {Replaces[t] : t \in Tasks}
TaskOf(v) == CHOOSE t \in Tasks : v \in Replaces[t]
Closer == "closer"   \* the thread that calls close()
None == "none"

\* A consolidation replaces finitely many versions, at least one, and no version
\* is replaced twice.
ASSUME ClosingAssumption ==
  /\ Replaces \in [Tasks -> SUBSET Vers]
  /\ \A t \in Tasks : IsFiniteSet(Replaces[t]) /\ Replaces[t] # {}
  /\ \A s, t \in Tasks : Replaces[s] \cap Replaces[t] # {} => s = t
  /\ None \notin Vers /\ Closer \notin GcThreads

VARIABLES
  manual,     \* manual_version_switch_
  task,       \* none, queued, running, publish, test, call, done or, early, ended
  switches,   \* pending_version_switches_
  left,       \* task -> versions its publication has still to replace
  hand,       \* task -> version counted as pending, not yet handed over
  current,    \* old versions that are still current
  guard,      \* reader -> the version it loaded and how far it is
  pending,    \* pending_version_count_
  queue,      \* retired_versions_
  retired,    \* versions handed to the hazard pointer library
  deleted,    \* versions deleted
  remaining,  \* task -> vertex_version_reclaim_batch_t::remaining
  completed,  \* task -> calls of on_complete
  stopped,    \* version_gc_stop_
  gc,         \* thread -> loop, submit, cleanup or exited
  took,       \* thread -> the version it took from the queue
  cb,         \* thread -> the reclaim callback it is in
  closer,     \* where close() is
  flusherSet, \* smo_ctl_t::csr_flusher_ is not null
  alive,      \* parts not yet destroyed
  saved,      \* tasks whose versions are in the saved vertex index
  misused     \* history: a part was used after it was destroyed

reclaimVars == <<pending, queue, retired, deleted, remaining, completed, stopped, gc, took, cb>>
taskVars == <<manual, task, switches, left, hand, current>>
closeVars == <<closer, flusherSet, alive, saved>>
closingVars == <<taskVars, guard, reclaimVars, closeVars, misused>>

NoCall == [at |-> None, v |-> None]
Use(parts) == misused' = (misused \/ ~(parts \subseteq alive))

ClosingInit ==
  /\ manual \in BOOLEAN
  /\ task = [t \in Tasks |-> "none"] /\ switches = {}
  /\ left = Replaces /\ hand = [t \in Tasks |-> None]
  /\ current = Vers
  /\ guard = [r \in Readers |-> NoCall]
  /\ pending = 0 /\ queue = <<>> /\ retired = {} /\ deleted = {}
  /\ remaining = [t \in Tasks |-> Cardinality(Replaces[t])]
  /\ completed = [t \in Tasks |-> 0]
  /\ stopped = FALSE
  /\ gc = [g \in GcThreads |-> "loop"] /\ took = [g \in GcThreads |-> None]
  /\ cb = [g \in GcThreads \cup {Closer} |-> NoCall]
  /\ closer = "open" /\ flusherSet = TRUE /\ alive = {"flusher", "index", "pool"}
  /\ saved = {} /\ misused = FALSE

-----------------------------------------------------------------------------
(* Consolidations: queued in the arena, run in the task group *)

Task(t, from, to) == task[t] = from /\ task' = [task EXCEPT ![t] = to]

consolidate_pages_async(t) ==
  /\ closer = "open" /\ Task(t, "none", "queued")
  /\ UNCHANGED <<manual, switches, left, hand, current, guard, reclaimVars, closeVars, misused>>

\* The lambda enqueued in the arena puts the task into the task group.
EnterGroup(t) ==
  /\ Task(t, "queued", "running")
  /\ UNCHANGED <<manual, switches, left, hand, current, guard, reclaimVars, closeVars, misused>>

\* The new pages are built; their versions are published, or kept for later.
Merge(t) ==
  /\ IF manual THEN Task(t, "running", "test") /\ switches' = switches \cup {t}
               ELSE Task(t, "running", "publish") /\ UNCHANGED switches
  /\ Use({"pool", "index"})
  /\ UNCHANGED <<manual, left, hand, current, guard, reclaimVars, closeVars>>

\* consolidate_pages leaves with nothing to publish: the chain has become short,
\* all its records are deferred, the merged page is empty, or a call throws.
EndEarly(t) ==
  /\ Task(t, "running", "ended")
  /\ Use({"pool", "index"})
  /\ UNCHANGED <<manual, switches, left, hand, current, guard, reclaimVars, closeVars>>

Publishing(t) == task[t] = "publish" \/ (t \in switches /\ closer \in {"switches", "smo"})

\* publish_prepared_version: the exchange of cur and the pending count ...
publish_prepared_version(t, v) ==
  /\ Publishing(t) /\ hand[t] = None /\ v \in left[t]
  /\ left' = [left EXCEPT ![t] = @ \ {v}]
  /\ current' = current \ {v}
  /\ pending' = pending + 1
  /\ hand' = [hand EXCEPT ![t] = v]
  /\ Use({"index"})
  /\ UNCHANGED <<manual, task, switches, guard, queue, retired, deleted, remaining, completed, stopped,
                 gc, took, cb, closeVars>>

\* ... and the version goes to the queue, or to the library when there are no
\* threads any more.
retire_version(t) ==
  /\ hand[t] # None
  /\ IF closer \in {"smo", "pool", "index", "closed"}
     THEN retired' = retired \cup {hand[t]} /\ UNCHANGED queue
     ELSE queue' = Append(queue, hand[t]) /\ UNCHANGED retired
  /\ hand' = [hand EXCEPT ![t] = None]
  /\ Use({"index"})
  /\ UNCHANGED <<manual, task, switches, left, current, guard, pending, deleted, remaining, completed,
                 stopped, gc, took, cb, closeVars>>

Published(t) == left[t] = {} /\ hand[t] = None

\* The index pages are updated; a task whose update throws calls no flusher.
EndPublish(t) ==
  /\ Publishing(t) /\ Published(t)
  /\ IF task[t] = "publish"
     THEN (\E to \in {"test", "done"} : Task(t, "publish", to)) /\ UNCHANGED switches
     ELSE switches' = switches \ {t} /\ UNCHANGED task
  /\ UNCHANGED <<manual, left, hand, current, guard, reclaimVars, closeVars, misused>>

\* csr_flusher_ is tested, then called.
TestFlusher(t) ==
  /\ Task(t, "test", IF flusherSet THEN "call" ELSE "done")
  /\ UNCHANGED <<manual, switches, left, hand, current, guard, reclaimVars, closeVars, misused>>

trigger_async_flush(t) ==
  /\ Task(t, "call", "done")
  /\ Use({"flusher"})
  /\ UNCHANGED <<manual, switches, left, hand, current, guard, reclaimVars, closeVars>>

-----------------------------------------------------------------------------
(* Readers: hazptr_holder::protect *)

Guard(r, at, v) == guard' = [guard EXCEPT ![r] = [at |-> at, v |-> v]]

ReaderLoad(r, v) ==
  /\ closer = "open" /\ guard[r] = NoCall /\ v \in current
  /\ Guard(r, "loaded", v)
  /\ UNCHANGED <<taskVars, reclaimVars, closeVars, misused>>

SetHazard(r) ==
  /\ guard[r].at = "loaded" /\ Guard(r, "hazard", guard[r].v)
  /\ UNCHANGED <<taskVars, reclaimVars, closeVars, misused>>

\* The version must still be current after the hazard pointer was set.
StillCurrent(r) == guard[r].v \in current

Validate(r) ==
  /\ guard[r].at = "hazard"
  /\ IF StillCurrent(r) THEN Guard(r, "held", guard[r].v) ELSE guard' = [guard EXCEPT ![r] = NoCall]
  /\ UNCHANGED <<taskVars, reclaimVars, closeVars, misused>>

reset_protection(r) ==
  /\ guard[r].at = "held" /\ guard' = [guard EXCEPT ![r] = NoCall]
  /\ UNCHANGED <<taskVars, reclaimVars, closeVars, misused>>

-----------------------------------------------------------------------------
(* Reclamation *)

Reclaimable == {v \in retired : \A r \in Readers : guard[r].at \in {"hazard", "held"} => guard[r].v # v}
Calling(h, at) == cb[h].at = at
Call(h, at, v) == cb' = [cb EXCEPT ![h] = [at |-> at, v |-> v]]

\* The threads that are inside hazptr_cleanup.
Cleaning(h) == IF h = Closer THEN closer \in {"drain", "gcwait", "index"} /\ pending # 0
                             ELSE gc[h] = "cleanup"

\* The callback of submit_version_to_hazptr: delete the version and count it, ...
Reclaim(h, v) ==
  /\ Cleaning(h) /\ Calling(h, None) /\ v \in Reclaimable
  /\ retired' = retired \ {v} /\ deleted' = deleted \cup {v}
  /\ Call(h, "batch", v)
  /\ Use({"index"})
  /\ UNCHANGED <<taskVars, guard, pending, queue, remaining, completed, stopped, gc, took, closeVars>>

\* ... take it from its batch, ...
LastOfBatch(t) == remaining[t] = 1

CountBatch(h) ==
  /\ Calling(h, "batch")
  /\ LET t == TaskOf(cb[h].v) IN
       /\ remaining' = [remaining EXCEPT ![t] = @ - 1]
       /\ Call(h, IF LastOfBatch(t) THEN "complete" ELSE "pending", cb[h].v)
  /\ UNCHANGED <<taskVars, guard, pending, queue, retired, deleted, completed, stopped, gc, took,
                 closeVars, misused>>

\* ... retire and free the page when it was the last one, ...
on_complete(h) ==
  /\ Calling(h, "complete")
  /\ completed' = [completed EXCEPT ![TaskOf(cb[h].v)] = @ + 1]
  /\ Call(h, "pending", cb[h].v)
  /\ Use({"pool"})
  /\ UNCHANGED <<taskVars, guard, pending, queue, retired, deleted, remaining, stopped, gc, took,
                 closeVars>>

\* ... lower the pending count ...
CountPending(h) ==
  /\ Calling(h, "pending")
  /\ pending' = pending - 1
  /\ Call(h, "notify", cb[h].v)
  /\ Use({"index"})
  /\ UNCHANGED <<taskVars, guard, queue, retired, deleted, remaining, completed, stopped, gc, took,
                 closeVars>>

\* ... and notify, which touches the index once more.
NotifyIdle(h) ==
  /\ Calling(h, "notify")
  /\ cb' = [cb EXCEPT ![h] = NoCall]
  /\ Use({"index"})
  /\ UNCHANGED <<taskVars, guard, pending, queue, retired, deleted, remaining, completed, stopped, gc,
                 took, closeVars>>

Callback(h) ==
  (\E v \in retired : Reclaim(h, v)) \/ CountBatch(h) \/ on_complete(h) \/ CountPending(h) \/ NotifyIdle(h)

Gc(g, from, to) == gc[g] = from /\ gc' = [gc EXCEPT ![g] = to]

\* version_gc_loop: one turn under the mutex, ...
version_gc_loop(g) ==
  /\ gc[g] = "loop"
  /\ \/ /\ queue # <<>> /\ Gc(g, "loop", "submit")
        /\ took' = [took EXCEPT ![g] = Head(queue)] /\ queue' = Tail(queue)
     \/ queue = <<>> /\ stopped /\ pending = 0 /\ Gc(g, "loop", "exited") /\ UNCHANGED <<took, queue>>
     \/ queue = <<>> /\ ~(stopped /\ pending = 0) /\ Gc(g, "loop", "cleanup")
        /\ UNCHANGED <<took, queue>>
  /\ Use({"index"})
  /\ UNCHANGED <<taskVars, guard, pending, retired, deleted, remaining, completed, stopped, cb, closeVars>>

\* ... retire, and hazptr_cleanup, which returns when nothing is reclaimable.
submit_version_to_hazptr(g) ==
  /\ Gc(g, "submit", "cleanup")
  /\ retired' = retired \cup {took[g]} /\ took' = [took EXCEPT ![g] = None]
  /\ UNCHANGED <<taskVars, guard, pending, queue, deleted, remaining, completed, stopped, cb, closeVars,
                 misused>>

CleanupDone(g) ==
  /\ Gc(g, "cleanup", "loop") /\ cb[g] = NoCall /\ Reclaimable = {}
  /\ UNCHANGED <<taskVars, guard, pending, queue, retired, deleted, remaining, completed, stopped, took,
                 cb, closeVars, misused>>

-----------------------------------------------------------------------------
(* close() *)

Close(from, to) == closer = from /\ closer' = to

\* publish_pending_versions: wait for the task group, publish the switches kept,
\* and wait for their reclamation.
GroupEmpty == \A t \in Tasks : task[t] \in {"none", "queued", "ended", "done"}

close ==
  /\ Close("open", "wait")
  /\ QueuedAtClose \/ \A t \in Tasks : task[t] # "queued"
  /\ UNCHANGED <<taskVars, guard, reclaimVars, flusherSet, alive, saved, misused>>

wait_all_consolidations ==
  /\ Close("wait", "switches") /\ GroupEmpty
  /\ UNCHANGED <<taskVars, guard, reclaimVars, flusherSet, alive, saved, misused>>

publish_pending_versions ==
  /\ Close("switches", IF manual THEN "drain" ELSE "withdraw") /\ switches = {}
  /\ UNCHANGED <<taskVars, guard, reclaimVars, flusherSet, alive, saved, misused>>

wait_for_version_gc ==
  /\ Close("drain", "withdraw") /\ pending = 0 /\ cb[Closer] = NoCall
  /\ UNCHANGED <<taskVars, guard, reclaimVars, flusherSet, alive, saved, misused>>

\* set_csr_flusher(nullptr), then the flusher is destroyed.
WithdrawFlusher ==
  /\ Close("withdraw", "reset") /\ flusherSet' = FALSE
  /\ UNCHANGED <<taskVars, guard, reclaimVars, alive, saved, misused>>

ResetFlushers ==
  /\ Close("reset", "save") /\ alive' = alive \ {"flusher"}
  /\ UNCHANGED <<taskVars, guard, reclaimVars, flusherSet, saved, misused>>

save_vertex_index ==
  /\ Close("save", "gcwait") /\ saved' = {t \in Tasks : Published(t)}
  /\ UNCHANGED <<taskVars, guard, reclaimVars, flusherSet, alive, misused>>

\* shutdown_version_gc: wait, stop, join.
StopGc ==
  /\ Close("gcwait", "join") /\ pending = 0 /\ cb[Closer] = NoCall
  /\ stopped' = TRUE
  /\ UNCHANGED <<taskVars, guard, pending, queue, retired, deleted, remaining, completed, gc, took, cb,
                 flusherSet, alive, saved, misused>>

JoinSkipped == TRUE
GcJoined == \A g \in GcThreads : gc[g] = "exited"

JoinGc ==
  /\ Close("join", "smo") /\ GcJoined
  /\ UNCHANGED <<taskVars, guard, reclaimVars, flusherSet, alive, saved, misused>>

\* delete smo_ctl publishes what is left once more.
DeleteSmo ==
  /\ Close("smo", "pool") /\ GroupEmpty /\ switches = {}
  /\ UNCHANGED <<taskVars, guard, reclaimVars, flusherSet, alive, saved, misused>>

DeletePools ==
  /\ Close("pool", "index") /\ alive' = alive \ {"pool"}
  /\ UNCHANGED <<taskVars, guard, reclaimVars, flusherSet, saved, misused>>

\* The destructor of the index waits once more.
DeleteIndex ==
  /\ Close("index", "closed") /\ pending = 0 /\ cb[Closer] = NoCall
  /\ alive' = alive \ {"index"}
  /\ UNCHANGED <<taskVars, guard, reclaimVars, flusherSet, saved, misused>>

-----------------------------------------------------------------------------
TaskStep(t) ==
  \/ EnterGroup(t) \/ Merge(t) \/ EndEarly(t) \/ retire_version(t) \/ EndPublish(t) \/ TestFlusher(t)
  \/ trigger_async_flush(t) \/ \E v \in left[t] : publish_prepared_version(t, v)

ReaderEnds(r) == SetHazard(r) \/ Validate(r) \/ reset_protection(r)

GcStep(g) == version_gc_loop(g) \/ submit_version_to_hazptr(g) \/ CleanupDone(g) \/ Callback(g)

CloseStep ==
  \/ wait_all_consolidations \/ publish_pending_versions \/ wait_for_version_gc \/ WithdrawFlusher
  \/ ResetFlushers \/ save_vertex_index \/ StopGc \/ JoinGc \/ DeleteSmo \/ DeletePools \/ DeleteIndex

ClosingNext ==
  \/ \E t \in Tasks : consolidate_pages_async(t) \/ TaskStep(t)
  \/ \E r \in Readers : ReaderEnds(r) \/ \E v \in Vers : ReaderLoad(r, v)
  \/ \E g \in GcThreads : GcStep(g)
  \/ close \/ CloseStep \/ Callback(Closer)

\* Threads run, and a reader that protects a version finishes.
ClosingFairness ==
  /\ \A t \in Tasks : WF_closingVars(TaskStep(t))
  /\ \A r \in Readers : WF_closingVars(ReaderEnds(r))
  /\ \A g \in GcThreads : WF_closingVars(GcStep(g))
  /\ WF_closingVars(CloseStep) /\ WF_closingVars(Callback(Closer))

ClosingSpec == ClosingInit /\ [][ClosingNext]_closingVars /\ ClosingFairness

-----------------------------------------------------------------------------
(* Properties *)

\* A version is deleted only when no reader holds it, and the page of a
\* consolidation is freed once, after the last version that points to it.
ReclaimExact ==
  /\ \A r \in Readers : guard[r].at = "held" => guard[r].v \notin deleted
  /\ \A t \in Tasks : completed[t] <= 1 /\ (completed[t] = 1 => Replaces[t] \subseteq deleted)

\* So versions and pages are reclaimed, nothing is used after close() destroyed
\* it, and when close() is over every consolidation that came to publish is in the
\* saved vertex index and every version it replaced is reclaimed, its page freed.
CloseSafe ==
  /\ ReclaimExact
  /\ ~misused
  /\ closer = "closed" => \A t \in Tasks : task[t] \notin {"none", "ended"} =>
       t \in saved /\ Replaces[t] \subseteq deleted /\ completed[t] = 1

\* What must follow the call of close().
CloseCalled == closer # "open"
Closed == closer = "closed"

\* wait_all_consolidations blocks until all pending consolidations finish.
WaitsForAll == closer \notin {"open", "wait"} => \A t \in Tasks : task[t] \in {"none", "ended", "done"}
==============================================================================
