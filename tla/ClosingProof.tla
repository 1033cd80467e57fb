---------------------------- MODULE ClosingProof ----------------------------
(***************************************************************************)
(* Proofs about the reclamation of versions and the closing of a database, *)
(* for every set of consolidations, reclamation threads and readers, when  *)
(* no consolidation is still queued at the call of close().  ClosingInv    *)
(* follows each replaced version through the hands it passes: published,   *)
(* queued, taken, retired, deleted, counted.                               *)
(***************************************************************************)
EXTENDS Closing, FiniteSetTheorems, SequenceTheorems, TLAPS

Threads == GcThreads \cup {Closer}
Phases == {"open", "wait", "switches", "drain", "withdraw", "reset", "save", "gcwait", "join", "smo",
           "pool", "index", "closed"}

ClosingTypeOK ==
  /\ manual \in BOOLEAN /\ switches \in SUBSET Tasks /\ saved \in SUBSET Tasks
  /\ task \in [Tasks -> {"none", "queued", "running", "publish", "test", "call", "ended", "done"}]
  /\ left \in [Tasks -> SUBSET Vers] /\ hand \in [Tasks -> Vers \cup {None}]
  /\ current \in SUBSET Vers /\ retired \in SUBSET Vers /\ deleted \in SUBSET Vers
  /\ guard \in [Readers -> [at : {None, "loaded", "hazard", "held"}, v : Vers \cup {None}]]
  /\ pending \in Nat /\ queue \in Seq(Vers)
  /\ remaining \in [Tasks -> Nat] /\ completed \in [Tasks -> Nat]
  /\ gc \in [GcThreads -> {"loop", "submit", "cleanup", "exited"}]
  /\ took \in [GcThreads -> Vers \cup {None}]
  /\ cb \in [Threads -> [at : {None, "batch", "complete", "pending", "notify"}, v : Vers \cup {None}]]
  /\ closer \in Phases /\ alive \in SUBSET {"flusher", "index", "pool"}

-----------------------------------------------------------------------------
(* Where a version is: it has one place at a time *)

LeftExact == \A t \in Tasks : left[t] = Replaces[t] \cap current

HandsApart ==
  \A t \in Tasks : hand[t] # None =>
    /\ hand[t] \in Replaces[t] /\ hand[t] \notin current \cup retired \cup deleted
    /\ \A i \in 1 .. Len(queue) : queue[i] # hand[t]
    /\ \A g \in GcThreads : took[g] # hand[t]

QueueApart ==
  /\ \A i, j \in 1 .. Len(queue) : queue[i] = queue[j] => i = j
  /\ \A i \in 1 .. Len(queue) : /\ queue[i] \notin current \cup retired \cup deleted
                                /\ \A g \in GcThreads : took[g] # queue[i]

TookApart ==
  \A g \in GcThreads :
    /\ took[g] # None <=> gc[g] = "submit"
    /\ took[g] \notin current \cup retired \cup deleted
    /\ \A x \in GcThreads : (took[g] # None /\ took[x] = took[g]) => x = g

SetsApart ==
  /\ current \cap retired = {} /\ current \cap deleted = {} /\ retired \cap deleted = {}

\* A version is in one reclaim callback, after its deletion.
CallsApart ==
  \A h \in Threads : cb[h].at # None =>
    /\ cb[h].v \in deleted
    /\ \A x \in Threads : (cb[x].at # None /\ cb[x].v = cb[h].v) => x = h

VersionsApart == LeftExact /\ HandsApart /\ QueueApart /\ TookApart /\ SetsApart /\ CallsApart

\* A hazard pointer that was validated in time protects its version.
GuardsHold == \A r \in Readers : guard[r].at = "held" => guard[r].v \notin deleted

-----------------------------------------------------------------------------
(* What the counters count *)

\* Versions replaced whose callback has still to lower the pending count.
Outstanding ==
  {v \in Vers \ current :
     v \in deleted => \E h \in Threads : cb[h].at \in {"batch", "complete", "pending"} /\ cb[h].v = v}
PendingExact == IsFiniteSet(Outstanding) /\ pending = Cardinality(Outstanding)

\* Versions of a consolidation whose callback has still to take them from the batch.
Unbatched(t) ==
  {v \in Replaces[t] : v \in deleted => \E h \in Threads : cb[h].at = "batch" /\ cb[h].v = v}
BatchesExact == \A t \in Tasks : remaining[t] = Cardinality(Unbatched(t))

\* The page of a consolidation is freed, or about to be, by the callback that
\* emptied the batch and by no other.
Completing(t, h) == cb[h].at = "complete" /\ cb[h].v \in Replaces[t]
CompletedExact ==
  \A t \in Tasks :
    /\ Unbatched(t) # {} => completed[t] = 0 /\ \A h \in Threads : ~Completing(t, h)
    /\ Unbatched(t) = {} => \/ completed[t] = 1 /\ \A h \in Threads : ~Completing(t, h)
                            \/ completed[t] = 0 /\ \E h \in Threads : Completing(t, h)
    /\ \A g, h \in Threads : Completing(t, g) /\ Completing(t, h) => g = h

CountsExact == PendingExact /\ BatchesExact /\ CompletedExact

-----------------------------------------------------------------------------
(* What close() may rely on at each of its points *)

\* A task publishes in one of two ways, and its versions are all published when
\* it is done and not kept for close().
TasksPublish ==
  \A t \in Tasks :
    /\ task[t] \in {"none", "queued", "running", "ended"} => hand[t] = None /\ left[t] = Replaces[t]
    /\ t \in switches => task[t] \in {"test", "call", "done"}
    /\ (task[t] \in {"test", "call", "done"} /\ t \notin switches) => Published(t)
    /\ hand[t] # None => Publishing(t)

\* No task is left behind: the wait for the task group is final, and so is the
\* publication of the versions kept.
TasksEnd ==
  /\ closer # "open" => \A t \in Tasks : task[t] # "queued"
  /\ closer \notin {"open", "wait"} => \A t \in Tasks : task[t] \in {"none", "ended", "done"}
  /\ closer \notin {"open", "wait", "switches"} => switches = {}
  /\ closer \notin {"open", "wait", "switches", "drain", "withdraw", "reset", "save"} =>
       \A t \in Tasks : task[t] = "done" => t \in saved

\* Callbacks run inside hazptr_cleanup, and the threads are gone before the
\* pools are.
CallsEnd ==
  /\ \A g \in GcThreads : cb[g].at # None => gc[g] = "cleanup"
  /\ cb[Closer].at # None => closer \in {"drain", "gcwait"}
  /\ closer \in {"join", "smo", "pool", "index", "closed"} => pending = 0
  /\ closer \in {"smo", "pool", "index", "closed"} => GcJoined

PartsAlive ==
  /\ closer \in {"open", "wait", "switches", "drain", "withdraw", "reset"} => "flusher" \in alive
  /\ closer \notin {"index", "closed"} => "pool" \in alive
  /\ closer # "closed" => "index" \in alive

Orderly == TasksPublish /\ TasksEnd /\ CallsEnd /\ PartsAlive /\ ~misused

\* The inductive invariant.
ClosingInv == ClosingTypeOK /\ VersionsApart /\ GuardsHold /\ CountsExact /\ Orderly

-----------------------------------------------------------------------------
(* Lemmas *)

USE DEF None

LEMMA TaskOfVersion ==
  ASSUME NEW v \in Vers
  PROVE  TaskOf(v) \in Tasks /\ v \in Replaces[TaskOf(v)]
<1>1. \E t \in Tasks : v \in Replaces[t]
  BY DEF Vers
<1>2. QED
  BY <1>1 DEF TaskOf

\* Only the task of a version has it among the versions it replaces.
LEMMA OneTask ==
  ASSUME NEW t \in Tasks, NEW v \in Replaces[t]
  PROVE  TaskOf(v) = t /\ v \in Vers
<1>1. v \in Vers
  BY DEF Vers
<1>2. TaskOf(v) \in Tasks /\ v \in Replaces[TaskOf(v)]
  BY <1>1, TaskOfVersion
<1>3. Replaces[TaskOf(v)] \cap Replaces[t] # {}
  BY <1>2
<1>4. QED
  BY <1>1, <1>2, <1>3, ClosingAssumption

\* Publication ends before the flusher is withdrawn.
LEMMA PublishesEarly ==
  ASSUME ClosingInv, NEW t \in Tasks, Publishing(t)
  PROVE  closer \in {"open", "wait", "switches"}
  BY DEF ClosingInv, Orderly, TasksEnd, Publishing

LEMMA HandsEarly ==
  ASSUME ClosingInv, NEW t \in Tasks, hand[t] # None
  PROVE  Publishing(t) /\ closer \in {"open", "wait", "switches"}
<1>1. Publishing(t)
  BY DEF ClosingInv, Orderly, TasksPublish
<1>2. QED
  BY <1>1, PublishesEarly

\* Callbacks end before the reclamation threads are joined.
LEMMA CallsEarly ==
  ASSUME ClosingInv, NEW h \in Threads, cb[h].at # None
  PROVE  closer \notin {"smo", "pool", "index", "closed"}
<1>1. CASE h = Closer
  BY <1>1 DEF ClosingInv, Orderly, CallsEnd
<1>2. CASE h \in GcThreads
  BY <1>2 DEF ClosingInv, Orderly, CallsEnd, GcJoined
<1>3. QED
  BY <1>1, <1>2 DEF Threads

\* The state of the versions, the counters and the readers without the steps
\* that move a version.
LEMMA VersionsKept ==
  ASSUME ClosingInv, UNCHANGED <<left, hand, current, queue, took, retired, deleted, cb>>,
         \A g \in GcThreads : gc'[g] = "submit" <=> gc[g] = "submit"
  PROVE  VersionsApart'
<1>1. LeftExact' /\ HandsApart' /\ QueueApart'
  BY DEF ClosingInv, VersionsApart, LeftExact, HandsApart, QueueApart
<1>2. TookApart' /\ SetsApart' /\ CallsApart'
  BY DEF ClosingInv, VersionsApart, TookApart, SetsApart, CallsApart
<1>3. QED
  BY <1>1, <1>2 DEF VersionsApart

LEMMA CountsKept ==
  ASSUME ClosingInv, UNCHANGED <<current, deleted, cb, pending, remaining, completed>>
  PROVE  CountsExact'
<1>1. Outstanding' = Outstanding /\ \A t \in Tasks : Unbatched(t)' = Unbatched(t)
  BY DEF Outstanding, Unbatched
<1>2. \A t \in Tasks, h \in Threads : Completing(t, h)' <=> Completing(t, h)
  BY DEF Completing
<1>3. PendingExact' /\ BatchesExact'
  BY <1>1 DEF ClosingInv, CountsExact, PendingExact, BatchesExact
<1>4. CompletedExact'
  BY <1>1, <1>2 DEF ClosingInv, CountsExact, CompletedExact
<1>5. QED
  BY <1>3, <1>4 DEF CountsExact

LEMMA GuardsKept ==
  ASSUME ClosingInv, UNCHANGED <<guard, deleted>>
  PROVE  GuardsHold'
  BY DEF ClosingInv, GuardsHold

\* A part that is alive may be used.
LEMMA UseAlive ==
  ASSUME NEW parts, Use(parts), ~misused, parts \subseteq alive
  PROVE  ~misused'
  BY DEF Use

-----------------------------------------------------------------------------
LEMMA ClosingStart ==
  ASSUME ClosingInit
  PROVE  ClosingInv
<1>1. /\ \A r \in Readers : guard[r].at = None
      /\ \A h \in Threads : cb[h].at = None
      /\ \A t \in Tasks : hand[t] = None /\ task[t] = "none"
      /\ queue = <<>> /\ Len(queue) = 0
  BY DEF ClosingInit, NoCall, Threads
<1>2. Outstanding = {} /\ \A t \in Tasks : Unbatched(t) = Replaces[t]
  BY DEF ClosingInit, Outstanding, Unbatched
<1>3. \A t \in Tasks : IsFiniteSet(Replaces[t]) /\ Cardinality(Replaces[t]) \in Nat
                       /\ Replaces[t] \subseteq Vers /\ Replaces[t] # {}
  BY FS_CardinalityType, ClosingAssumption
<1>4. ClosingTypeOK
  <2>1. NoCall \in [at : {None, "loaded", "hazard", "held"}, v : Vers \cup {None}]
    BY DEF NoCall
  <2>2. NoCall \in [at : {None, "batch", "complete", "pending", "notify"}, v : Vers \cup {None}]
    BY DEF NoCall
  <2>3. remaining \in [Tasks -> Nat] /\ left \in [Tasks -> SUBSET Vers]
    BY <1>3, ClosingAssumption DEF ClosingInit
  <2>4. QED
    BY <2>1, <2>2, <2>3 DEF ClosingInit, ClosingTypeOK, Threads, Phases
<1>5. VersionsApart
  <2>1. LeftExact
    BY <1>3 DEF ClosingInit, LeftExact
  <2>2. QED
    BY <1>1, <2>1, ClosingAssumption
    DEF ClosingInit, VersionsApart, HandsApart, QueueApart, TookApart, SetsApart,
        CallsApart
<1>6. CountsExact
  <2>1. PendingExact
    BY <1>2, FS_EmptySet DEF ClosingInit, PendingExact
  <2>2. BatchesExact
    BY <1>2 DEF ClosingInit, BatchesExact
  <2>3. CompletedExact
    BY <1>1, <1>2, <1>3 DEF ClosingInit, CompletedExact, Completing
  <2>4. QED
    BY <2>1, <2>2, <2>3 DEF CountsExact
<1>7. GuardsHold
  BY <1>1 DEF GuardsHold
<1>8. Orderly
  BY <1>1 DEF ClosingInit, Orderly, TasksPublish, TasksEnd, CallsEnd, PartsAlive, Threads
<1>9. QED
  BY <1>4, <1>5, <1>6, <1>7, <1>8 DEF ClosingInv

-----------------------------------------------------------------------------
(* Consolidations *)

\* The steps of a task that move no version.
LEMMA QuietTaskSteps ==
  ASSUME ClosingInv, NEW t \in Tasks,
         \/ consolidate_pages_async(t) \/ EnterGroup(t) \/ Merge(t) \/ EndEarly(t) \/ EndPublish(t)
         \/ TestFlusher(t) \/ trigger_async_flush(t)
  PROVE  ClosingInv'
<1> USE DEF Task
<1>1. UNCHANGED <<left, hand, current, guard, queue, took, gc, retired, deleted, cb>>
  BY DEF consolidate_pages_async, EnterGroup, Merge, EndEarly, EndPublish, TestFlusher, trigger_async_flush,
         reclaimVars
<1>2. UNCHANGED <<pending, remaining, completed, closer, alive, saved, manual>>
  BY DEF consolidate_pages_async, EnterGroup, Merge, EndEarly, EndPublish, TestFlusher, trigger_async_flush,
         reclaimVars, closeVars
<1>3. VersionsApart' /\ CountsExact' /\ GuardsHold'
  BY <1>1, <1>2, VersionsKept, CountsKept, GuardsKept
<1>4. /\ task' \in [Tasks -> {"none", "queued", "running", "publish", "test", "call", "ended", "done"}]
      /\ \A s \in Tasks \ {t} : task'[s] = task[s] /\ (s \in switches' <=> s \in switches)
      /\ switches' \in SUBSET Tasks
  <2>1. /\ switches' \in {switches, switches \cup {t}, switches \ {t}}
        /\ \/ task' = task
           \/ \E x \in {"queued", "running", "publish", "test", "call", "ended", "done"} :
                task' = [task EXCEPT ![t] = x]
    BY DEF consolidate_pages_async, EnterGroup, Merge, EndEarly, EndPublish, TestFlusher, trigger_async_flush
  <2>2. switches' \in SUBSET Tasks /\ \A s \in Tasks \ {t} : s \in switches' <=> s \in switches
    BY <2>1 DEF ClosingInv, ClosingTypeOK
  <2>3. task \in [Tasks -> {"none", "queued", "running", "publish", "test", "call", "ended", "done"}]
    BY DEF ClosingInv, ClosingTypeOK
  <2>4. QED
    BY <2>1, <2>2, <2>3
<1>5. ClosingTypeOK'
  BY <1>1, <1>2, <1>4 DEF ClosingInv, ClosingTypeOK
<1>6. CallsEnd' /\ PartsAlive'
  BY <1>1, <1>2 DEF ClosingInv, Orderly, CallsEnd, PartsAlive, GcJoined
<1>7. /\ task[t] = "none" => closer = "open" /\ task'[t] = "queued" /\ UNCHANGED switches
      /\ task[t] = "queued" => task'[t] = "running" /\ UNCHANGED switches
      /\ task[t] = "running" => \/ task'[t] = "test" /\ switches' = switches \cup {t}
                                \/ task'[t] \in {"publish", "ended"} /\ UNCHANGED switches
      /\ task[t] = "publish" => task'[t] \in {"test", "done"} /\ UNCHANGED switches /\ Published(t)
      /\ task[t] = "test" /\ task'[t] # "test" => task'[t] \in {"call", "done"} /\ UNCHANGED switches
      /\ task[t] = "call" /\ task'[t] # "call" => task'[t] = "done" /\ UNCHANGED switches
      /\ task[t] = "done" => task'[t] = "done"
      /\ task[t] # "ended"
      /\ task[t] \in {"test", "call", "done"} /\ task'[t] = task[t] =>
           switches' = switches \ {t} /\ Published(t)
  BY DEF ClosingInv, ClosingTypeOK, Orderly, TasksPublish, TasksEnd, consolidate_pages_async, EnterGroup, Merge, EndEarly, EndPublish, TestFlusher,
         trigger_async_flush, Publishing
<1>8. TasksPublish'
  <2>1. ASSUME NEW s \in Tasks, s # t
        PROVE  /\ task'[s] \in {"none", "queued", "running", "ended"} => hand'[s] = None /\ left'[s] = Replaces[s]
               /\ s \in switches' => task'[s] \in {"test", "call", "done"}
               /\ (task'[s] \in {"test", "call", "done"} /\ s \notin switches') => Published(s)'
               /\ hand'[s] # None => Publishing(s)'
    BY <1>1, <1>2, <1>4, <2>1 DEF ClosingInv, Orderly, TasksPublish, Published, Publishing
  <2>2. /\ task'[t] \in {"none", "queued", "running", "ended"} => hand'[t] = None /\ left'[t] = Replaces[t]
        /\ t \in switches' => task'[t] \in {"test", "call", "done"}
        /\ (task'[t] \in {"test", "call", "done"} /\ t \notin switches') => Published(t)'
        /\ hand'[t] # None => Publishing(t)'
    BY <1>1, <1>2, <1>4, <1>7
    DEF ClosingInv, ClosingTypeOK, Orderly, TasksPublish, Published, Publishing
  <2>3. QED
    BY <2>1, <2>2 DEF TasksPublish
<1>9. TasksEnd'
  <2>1. TasksEnd /\ task \in [Tasks -> {"none", "queued", "running", "publish", "test", "call", "ended", "done"}]
    BY DEF ClosingInv, ClosingTypeOK, Orderly
  <2>2. /\ closer # "open" => task'[t] # "queued"
        /\ closer \notin {"open", "wait"} =>
             task[t] \in {"none", "ended", "done"} /\ task'[t] = task[t] /\ t \notin switches'
    BY <1>7, <2>1 DEF TasksEnd
  <2>3. closer \notin {"open", "wait", "switches"} => switches' = {}
    BY <1>4, <2>1, <2>2 DEF TasksEnd
  <2>4. \A s \in Tasks : task'[s] = task[s] \/ s = t
    BY <1>4
  <2>5. QED
    BY <1>2, <2>1, <2>2, <2>3, <2>4 DEF TasksEnd
<1>10. ~misused'
  <2>1. CASE Merge(t) \/ EndEarly(t)
    <3>1. "pool" \in alive /\ "index" \in alive
      BY <2>1 DEF ClosingInv, Orderly, TasksEnd, PartsAlive, Merge, EndEarly
    <3>2. QED
      BY <2>1, <3>1, UseAlive DEF ClosingInv, Orderly, Merge, EndEarly
  <2>2. CASE trigger_async_flush(t)
    <3>1. "flusher" \in alive
      BY <2>2 DEF ClosingInv, Orderly, TasksEnd, PartsAlive, trigger_async_flush
    <3>2. QED
      BY <2>2, <3>1, UseAlive DEF ClosingInv, Orderly, trigger_async_flush
  <2>3. CASE ~Merge(t) /\ ~EndEarly(t) /\ ~trigger_async_flush(t)
    BY <2>3
    DEF ClosingInv, Orderly, consolidate_pages_async, EnterGroup, EndPublish, TestFlusher
  <2>4. QED
    BY <2>1, <2>2, <2>3
<1>11. QED
  BY <1>3, <1>5, <1>6, <1>8, <1>9, <1>10 DEF ClosingInv, Orderly

\* publish_prepared_version: the version leaves cur and is counted.
LEMMA PublishStep ==
  ASSUME ClosingInv, NEW t \in Tasks, NEW v \in left[t],
         publish_prepared_version(t, v)
  PROVE  ClosingInv'
<1>1. /\ Publishing(t) /\ hand[t] = None
      /\ left' = [left EXCEPT ![t] = @ \ {v}] /\ hand' = [hand EXCEPT ![t] = v]
      /\ current' = current \ {v} /\ pending' = pending + 1 /\ Use({"index"})
  BY DEF publish_prepared_version
<1>2. UNCHANGED <<manual, task, switches, guard, queue, retired, deleted, remaining, completed, gc, took,
                  cb, closer, alive, saved>>
  BY DEF publish_prepared_version, closeVars
<1>3. v \in Replaces[t] /\ v \in current /\ v \in Vers /\ v # None
  BY ClosingAssumption DEF ClosingInv, ClosingTypeOK, VersionsApart, LeftExact
<1>4. closer \in {"open", "wait", "switches"}
  BY <1>1, PublishesEarly
<1>5. ClosingTypeOK'
  BY <1>1, <1>2, <1>3 DEF ClosingInv, ClosingTypeOK
<1>6. /\ hand'[t] = v /\ \A s \in Tasks \ {t} : hand'[s] = hand[s]
      /\ left'[t] = left[t] \ {v} /\ \A s \in Tasks \ {t} : left'[s] = left[s]
  <2>1. left \in [Tasks -> SUBSET Vers] /\ hand \in [Tasks -> Vers \cup {None}]
    BY DEF ClosingInv, ClosingTypeOK
  <2>2. QED
    BY <1>1, <2>1
<1>7. VersionsApart'
  <2>1. LeftExact'
    <3>1. \A s \in Tasks \ {t} : v \notin Replaces[s]
      BY <1>3, OneTask
    <3>2. \A s \in Tasks : left[s] = Replaces[s] \cap current
      BY DEF ClosingInv, VersionsApart, LeftExact
    <3>3. left'[t] = Replaces[t] \cap current'
      BY <1>1, <1>6, <3>2
    <3>4. \A s \in Tasks \ {t} : left'[s] = Replaces[s] \cap current'
      BY <1>1, <1>6, <3>1, <3>2
    <3>5. QED
      BY <3>3, <3>4 DEF LeftExact
  <2>2. HandsApart'
    <3>1. /\ v \notin retired \cup deleted
          /\ \A i \in 1 .. Len(queue) : queue[i] # v
          /\ \A g \in GcThreads : took[g] # v
      BY <1>3 DEF ClosingInv, VersionsApart, SetsApart, QueueApart, TookApart
    <3>2. QED
      BY <1>1, <1>2, <1>3, <1>6, <3>1 DEF ClosingInv, VersionsApart, HandsApart
  <2>3. QueueApart' /\ TookApart' /\ SetsApart' /\ CallsApart'
    BY <1>1, <1>2 DEF ClosingInv, VersionsApart, QueueApart, TookApart, SetsApart, CallsApart
  <2>4. QED
    BY <2>1, <2>2, <2>3 DEF VersionsApart
<1>8. CountsExact'
  <2>1. v \notin Outstanding /\ v \notin deleted
    BY <1>3 DEF ClosingInv, VersionsApart, SetsApart, Outstanding
  <2>2. Outstanding' = Outstanding \cup {v}
    BY <1>1, <1>2, <1>3, <2>1 DEF Outstanding
  <2>3. PendingExact'
    BY <1>1, <2>1, <2>2, FS_AddElement DEF ClosingInv, CountsExact, PendingExact
  <2>4. \A s \in Tasks : Unbatched(s)' = Unbatched(s)
    BY <1>2 DEF Unbatched
  <2>5. BatchesExact' /\ CompletedExact'
    BY <1>2, <2>4 DEF ClosingInv, CountsExact, BatchesExact, CompletedExact, Completing
  <2>6. QED
    BY <2>3, <2>5 DEF CountsExact
<1>9. GuardsHold'
  BY <1>2, GuardsKept
<1>10. TasksPublish'
  <2>1. Publishing(t)' /\ task[t] \notin {"none", "queued", "running", "ended"}
    BY <1>1, <1>2 DEF Publishing, ClosingInv, Orderly, TasksPublish
  <2>2. ~Published(t)
    BY DEF Published
  <2>3. task[t] \in {"test", "call", "done"} => t \in switches
    BY <2>2 DEF ClosingInv, Orderly, TasksPublish
  <2>4. \A s \in Tasks \ {t} : (Published(s) => Published(s)') /\ (Publishing(s) => Publishing(s)')
    BY <1>2, <1>6 DEF Published, Publishing
  <2>5. TasksPublish
    BY DEF ClosingInv, Orderly
  <2>6. QED
    BY <1>2, <1>6, <2>1, <2>3, <2>4, <2>5 DEF TasksPublish
<1>11. TasksEnd' /\ CallsEnd' /\ PartsAlive'
  BY <1>2, <1>4 DEF ClosingInv, Orderly, TasksEnd, CallsEnd, PartsAlive, GcJoined
<1>12. ~misused'
  BY <1>1, <1>4, UseAlive DEF ClosingInv, Orderly, PartsAlive
<1>13. QED
  BY <1>5, <1>7, <1>8, <1>9, <1>10, <1>11, <1>12 DEF ClosingInv, Orderly

\* retire_version: the version goes to the queue; the threads are still there.
LEMMA RetireStep ==
  ASSUME ClosingInv, NEW t \in Tasks, retire_version(t)
  PROVE  ClosingInv'
<1>1. PICK v : v = hand[t]
  OBVIOUS
<1>2. v # None
  BY <1>1 DEF retire_version
<1>3. Publishing(t) /\ closer \in {"open", "wait", "switches"}
  BY <1>1, <1>2, HandsEarly
<1>4. /\ queue' = Append(queue, v) /\ hand' = [hand EXCEPT ![t] = None] /\ Use({"index"})
  BY <1>1, <1>3 DEF retire_version
<1>5. UNCHANGED <<manual, task, switches, left, current, guard, pending, retired, deleted, remaining,
                  completed, gc, took, cb, closer, alive, saved>>
  BY <1>3 DEF retire_version, closeVars
<1>6. /\ v \in Replaces[t] /\ v \notin current \cup retired \cup deleted
      /\ \A i \in 1 .. Len(queue) : queue[i] # v
      /\ \A g \in GcThreads : took[g] # v
  BY <1>1, <1>2 DEF ClosingInv, VersionsApart, HandsApart
<1>7. v \in Vers /\ queue \in Seq(Vers)
  BY <1>6, OneTask DEF ClosingInv, ClosingTypeOK
<1>8. hand'[t] = None /\ \A s \in Tasks \ {t} : hand'[s] = hand[s]
  BY <1>4 DEF ClosingInv, ClosingTypeOK
<1>9. ClosingTypeOK'
  <2>1. queue' \in Seq(Vers)
    BY <1>4, <1>7
  <2>2. hand' \in [Tasks -> Vers \cup {None}]
    BY <1>4 DEF ClosingInv, ClosingTypeOK
  <2>3. QED
    BY <1>5, <2>1, <2>2 DEF ClosingInv, ClosingTypeOK
<1>10. VersionsApart'
  <2>1. /\ Len(queue') = Len(queue) + 1 /\ queue'[Len(queue) + 1] = v /\ Len(queue) \in Nat
        /\ \A i \in 1 .. Len(queue) : queue'[i] = queue[i]
    BY <1>4, <1>7
  <2>2. QueueApart'
    BY <1>5, <1>6, <2>1 DEF ClosingInv, VersionsApart, QueueApart
  <2>3. HandsApart'
    <3>1. \A s \in Tasks \ {t} : hand[s] # None => hand[s] # v
      BY <1>6, OneTask DEF ClosingInv, VersionsApart, HandsApart
    <3>2. QED
      BY <1>5, <1>8, <2>1, <3>1 DEF ClosingInv, VersionsApart, HandsApart
  <2>4. LeftExact' /\ TookApart' /\ SetsApart' /\ CallsApart'
    BY <1>5 DEF ClosingInv, VersionsApart, LeftExact, TookApart, SetsApart, CallsApart
  <2>5. QED
    BY <2>2, <2>3, <2>4 DEF VersionsApart
<1>11. CountsExact' /\ GuardsHold'
  BY <1>5, CountsKept, GuardsKept
<1>12. TasksPublish'
  <2>1. TasksPublish /\ Publishing(t)
    BY <1>3 DEF ClosingInv, Orderly
  <2>2. \A s \in Tasks : (Published(s) => Published(s)') /\ (Publishing(s) => Publishing(s)')
    BY <1>5, <1>8 DEF Published, Publishing
  <2>3. QED
    BY <1>5, <1>8, <2>1, <2>2 DEF TasksPublish
<1>13. TasksEnd' /\ CallsEnd' /\ PartsAlive'
  BY <1>5 DEF ClosingInv, Orderly, TasksEnd, CallsEnd, PartsAlive, GcJoined
<1>14. ~misused'
  BY <1>3, <1>4, UseAlive DEF ClosingInv, Orderly, PartsAlive
<1>15. QED
  BY <1>9, <1>10, <1>11, <1>12, <1>13, <1>14 DEF ClosingInv, Orderly

-----------------------------------------------------------------------------
(* Readers *)

LEMMA ReaderSteps ==
  ASSUME ClosingInv, NEW r \in Readers,
         ReaderEnds(r) \/ \E v \in Vers : ReaderLoad(r, v)
  PROVE  ClosingInv'
<1>1. UNCHANGED <<taskVars, reclaimVars, closeVars, misused>>
  BY DEF ReaderEnds, SetHazard, Validate, reset_protection, ReaderLoad
<1>2. UNCHANGED <<left, hand, current, queue, took, gc, retired, deleted, cb, pending, remaining,
                  completed, manual, task, switches, closer, alive, saved, misused>>
  BY <1>1 DEF taskVars, reclaimVars, closeVars
<1>3. VersionsApart' /\ CountsExact'
  BY <1>2, VersionsKept, CountsKept
<1>4. Orderly'
  BY <1>2 DEF ClosingInv, Orderly, TasksPublish, Published, Publishing, TasksEnd, CallsEnd, PartsAlive,
              GcJoined
<1> DEFINE States == [at : {None, "loaded", "hazard", "held"}, v : Vers \cup {None}]
<1>5. PICK x \in States : /\ guard' = [guard EXCEPT ![r] = x]
                          /\ x.at = "held" => x.v \in current \/ (guard[r].at = "held" /\ guard[r].v = x.v)
  <2>1. guard[r] \in States /\ NoCall \in States /\ NoCall.at = None
    BY DEF NoCall, ClosingInv, ClosingTypeOK
  <2>2. CASE \E v \in Vers : ReaderLoad(r, v)
    BY <2>2 DEF ReaderLoad, Guard
  <2>3. CASE SetHazard(r)
    <3> DEFINE y == [at |-> "hazard", v |-> guard[r].v]
    <3>1. y \in States /\ y.at = "hazard"
      BY <2>1
    <3>2. guard' = [guard EXCEPT ![r] = y]
      BY <2>3 DEF SetHazard, Guard
    <3>3. QED
      BY <3>1, <3>2
  <2>4. CASE Validate(r)
    <3>1. CASE StillCurrent(r)
      <4> DEFINE y == [at |-> "held", v |-> guard[r].v]
      <4>1. y \in States /\ y.at = "held" /\ y.v \in current
        BY <2>1, <3>1 DEF StillCurrent
      <4>2. guard' = [guard EXCEPT ![r] = y]
        BY <2>4, <3>1 DEF Validate, Guard
      <4>3. QED
        BY <4>1, <4>2
    <3>2. CASE ~StillCurrent(r)
      BY <2>1, <2>4, <3>2 DEF Validate
    <3>3. QED
      BY <3>1, <3>2
  <2>5. CASE reset_protection(r)
    BY <2>1, <2>5 DEF reset_protection
  <2>6. QED
    BY <2>2, <2>3, <2>4, <2>5 DEF ReaderEnds
<1>6. guard \in [Readers -> States]
  BY DEF ClosingInv, ClosingTypeOK
<1>7. guard' \in [Readers -> States] /\ guard'[r] = x /\ \A q \in Readers \ {r} : guard'[q] = guard[q]
  BY <1>5, <1>6
<1>8. ClosingTypeOK'
  BY <1>2, <1>7 DEF ClosingInv, ClosingTypeOK
<1>9. GuardsHold'
  BY <1>2, <1>5, <1>7 DEF ClosingInv, GuardsHold, VersionsApart, SetsApart
<1>10. QED
  BY <1>3, <1>4, <1>8, <1>9 DEF ClosingInv

-----------------------------------------------------------------------------
(* Reclaim callbacks *)

Calls == [at : {None, "batch", "complete", "pending", "notify"}, v : Vers \cup {None}]

\* What a step inside a callback leaves alone, whatever it counts.
LEMMA CallAdvances ==
  ASSUME ClosingInv, NEW h \in Threads, NEW x \in Calls, cb[h].at # None,
         cb' = [cb EXCEPT ![h] = x], x.at # None => x.v = cb[h].v,
         UNCHANGED <<taskVars, guard, queue, retired, deleted, gc, took, closeVars>>
  PROVE  /\ VersionsApart' /\ GuardsHold' /\ TasksPublish' /\ TasksEnd' /\ PartsAlive'
         /\ cb' \in [Threads -> Calls] /\ cb'[h] = x /\ \A k \in Threads \ {h} : cb'[k] = cb[k]
         /\ (pending' = pending \/ pending # 0) => CallsEnd'
<1>1. UNCHANGED <<left, hand, current, task, switches, manual, closer, alive, saved>>
  BY DEF taskVars, closeVars
<1>2. cb' \in [Threads -> Calls] /\ cb'[h] = x /\ \A k \in Threads \ {h} : cb'[k] = cb[k]
  BY DEF ClosingInv, ClosingTypeOK, Calls
<1>3. VersionsApart'
  <2>1. LeftExact' /\ HandsApart' /\ QueueApart'
    BY <1>1 DEF ClosingInv, VersionsApart, LeftExact, HandsApart, QueueApart
  <2>2. TookApart' /\ SetsApart'
    BY <1>1 DEF ClosingInv, VersionsApart, TookApart, SetsApart
  <2>3. CallsApart'
    BY <1>1, <1>2 DEF ClosingInv, VersionsApart, CallsApart
  <2>4. QED
    BY <2>1, <2>2, <2>3 DEF VersionsApart
<1>4. GuardsHold'
  BY GuardsKept
<1>5. TasksPublish' /\ TasksEnd' /\ PartsAlive'
  BY <1>1 DEF ClosingInv, Orderly, TasksPublish, Published, Publishing, TasksEnd, PartsAlive
<1>6. ASSUME pending' = pending \/ pending # 0
      PROVE  CallsEnd'
  <2>1. CallsEnd
    BY DEF ClosingInv, Orderly
  <2>2. \A g \in GcThreads : cb'[g].at # None => gc'[g] = "cleanup"
    BY <1>2, <2>1 DEF CallsEnd, Threads
  <2>3. cb'[Closer].at # None => closer' \in {"drain", "gcwait"}
    BY <1>1, <1>2, <2>1 DEF CallsEnd, Threads
  <2>4. QED
    BY <1>1, <1>6, <2>1, <2>2, <2>3 DEF CallsEnd, GcJoined
<1>7. QED
  BY <1>2, <1>3, <1>4, <1>5, <1>6

\* The version of a callback under way, and its task.
LEMMA CallOf ==
  ASSUME ClosingInv, NEW h \in Threads, cb[h].at # None
  PROVE  /\ cb[h].v \in deleted /\ cb[h].v \in Vers
         /\ TaskOf(cb[h].v) \in Tasks /\ cb[h].v \in Replaces[TaskOf(cb[h].v)]
         /\ \A k \in Threads : (cb[k].at # None /\ cb[k].v = cb[h].v) => k = h
<1>1. cb[h].v \in deleted /\ \A k \in Threads : (cb[k].at # None /\ cb[k].v = cb[h].v) => k = h
  BY DEF ClosingInv, VersionsApart, CallsApart
<1>2. cb[h].v \in Vers
  BY <1>1 DEF ClosingInv, ClosingTypeOK
<1>3. QED
  BY <1>1, <1>2, TaskOfVersion

\* Parts in use by callbacks are alive.
LEMMA CallParts ==
  ASSUME ClosingInv, NEW h \in Threads, cb[h].at # None
  PROVE  "index" \in alive /\ "pool" \in alive
  BY CallsEarly DEF ClosingInv, Orderly, PartsAlive

LEMMA CountBatchStep ==
  ASSUME ClosingInv, NEW h \in Threads, CountBatch(h)
  PROVE  ClosingInv'
<1>1. PICK v : v = cb[h].v
  OBVIOUS
<1>2. PICK t : t = TaskOf(v)
  OBVIOUS
<1>3. PICK x : x = [at |-> IF LastOfBatch(t) THEN "complete" ELSE "pending", v |-> v]
  OBVIOUS
<1>4. /\ cb[h].at = "batch" /\ cb' = [cb EXCEPT ![h] = x]
      /\ remaining' = [remaining EXCEPT ![t] = @ - 1] /\ UNCHANGED <<pending, completed, misused>>
      /\ UNCHANGED <<taskVars, guard, queue, retired, deleted, gc, took, closeVars>>
  BY <1>1, <1>2, <1>3 DEF CountBatch, Calling, Call
<1>5. /\ v \in deleted /\ v \in Vers /\ t \in Tasks /\ v \in Replaces[t]
      /\ \A k \in Threads : (cb[k].at # None /\ cb[k].v = v) => k = h
  BY <1>1, <1>2, <1>4, CallOf
<1>6. x \in Calls /\ x.v = v /\ x.at = IF LastOfBatch(t) THEN "complete" ELSE "pending"
  BY <1>3, <1>5 DEF Calls
<1>7. /\ VersionsApart' /\ GuardsHold' /\ TasksPublish' /\ TasksEnd' /\ PartsAlive' /\ CallsEnd'
      /\ cb' \in [Threads -> Calls] /\ cb'[h] = x /\ \A k \in Threads \ {h} : cb'[k] = cb[k]
  BY <1>1, <1>4, <1>6, CallAdvances
<1>8. UNCHANGED <<current, deleted>>
  BY <1>4 DEF taskVars
<1>9. PendingExact'
  <2>1. Outstanding' = Outstanding
    BY <1>1, <1>4, <1>6, <1>7, <1>8 DEF Outstanding
  <2>2. QED
    BY <1>4, <2>1 DEF ClosingInv, CountsExact, PendingExact
<1>10. Unbatched(t)' = Unbatched(t) \ {v} /\ v \in Unbatched(t)
  BY <1>1, <1>4, <1>5, <1>6, <1>7, <1>8 DEF Unbatched
<1>11. \A s \in Tasks \ {t} : v \notin Replaces[s]
  BY <1>2, OneTask
<1>12. \A s \in Tasks \ {t} : Unbatched(s)' = Unbatched(s)
  BY <1>1, <1>4, <1>6, <1>7, <1>8, <1>11 DEF Unbatched
<1>13. IsFiniteSet(Unbatched(t)) /\ remaining[t] = Cardinality(Unbatched(t)) /\ remaining[t] \in Nat
  <2>1. IsFiniteSet(Replaces[t])
    BY <1>5, ClosingAssumption
  <2>2. Unbatched(t) \subseteq Replaces[t]
    BY DEF Unbatched
  <2>3. QED
    BY <1>5, <2>1, <2>2, FS_Subset DEF ClosingInv, ClosingTypeOK, CountsExact, BatchesExact
<1>14. /\ IsFiniteSet(Unbatched(t)') /\ Cardinality(Unbatched(t)') = remaining[t] - 1
       /\ remaining[t] - 1 \in Nat
  <2>1. IsFiniteSet(Unbatched(t)') /\ Cardinality(Unbatched(t)') = remaining[t] - 1
    BY <1>10, <1>13, FS_RemoveElement
  <2>2. QED
    BY <2>1, FS_CardinalityType
<1>15. Unbatched(t)' = {} <=> LastOfBatch(t)
  BY <1>13, <1>14, FS_EmptySet DEF LastOfBatch
<1>16. remaining'[t] = remaining[t] - 1 /\ \A s \in Tasks \ {t} : remaining'[s] = remaining[s]
  BY <1>4, <1>5 DEF ClosingInv, ClosingTypeOK
<1>17. remaining' \in [Tasks -> Nat]
  BY <1>4, <1>5, <1>14 DEF ClosingInv, ClosingTypeOK
<1>18. BatchesExact'
  BY <1>12, <1>14, <1>16 DEF ClosingInv, CountsExact, BatchesExact
<1>19. CompletedExact'
  <2>1. \A s \in Tasks \ {t}, k \in Threads : Completing(s, k)' <=> Completing(s, k)
    BY <1>1, <1>4, <1>6, <1>7, <1>11 DEF Completing
  <2>2. completed[t] = 0 /\ \A k \in Threads : ~Completing(t, k)
    BY <1>5, <1>10 DEF ClosingInv, CountsExact, CompletedExact
  <2>3. \A k \in Threads : Completing(t, k)' <=> k = h /\ LastOfBatch(t)
    BY <1>5, <1>6, <1>7, <2>2 DEF Completing
  <2>4. completed' = completed /\ CompletedExact
    BY <1>4 DEF ClosingInv, CountsExact
  <2>5. QED
    BY <1>12, <1>15, <2>1, <2>2, <2>3, <2>4 DEF CompletedExact
<1>20. ClosingTypeOK'
  BY <1>4, <1>7, <1>17 DEF ClosingInv, ClosingTypeOK, taskVars, closeVars, Calls
<1>21. QED
  BY <1>4, <1>7, <1>9, <1>18, <1>19, <1>20 DEF ClosingInv, CountsExact, Orderly

LEMMA OnCompleteStep ==
  ASSUME ClosingInv, NEW h \in Threads, on_complete(h)
  PROVE  ClosingInv'
<1>1. PICK v : v = cb[h].v
  OBVIOUS
<1>2. PICK t : t = TaskOf(v)
  OBVIOUS
<1>3. PICK x : x = [at |-> "pending", v |-> v]
  OBVIOUS
<1>4. /\ cb[h].at = "complete" /\ cb' = [cb EXCEPT ![h] = x]
      /\ completed' = [completed EXCEPT ![t] = @ + 1] /\ UNCHANGED <<pending, remaining>>
      /\ UNCHANGED <<taskVars, guard, queue, retired, deleted, gc, took, closeVars>>
  BY <1>1, <1>2, <1>3 DEF on_complete, Calling, Call
<1>5. /\ v \in deleted /\ v \in Vers /\ t \in Tasks /\ v \in Replaces[t]
      /\ \A k \in Threads : (cb[k].at # None /\ cb[k].v = v) => k = h
  BY <1>1, <1>2, <1>4, CallOf
<1>6. x \in Calls /\ x.v = v /\ x.at = "pending"
  BY <1>3, <1>5 DEF Calls
<1>7. /\ VersionsApart' /\ GuardsHold' /\ TasksPublish' /\ TasksEnd' /\ PartsAlive' /\ CallsEnd'
      /\ cb' \in [Threads -> Calls] /\ cb'[h] = x /\ \A k \in Threads \ {h} : cb'[k] = cb[k]
  BY <1>1, <1>4, <1>6, CallAdvances
<1>8. UNCHANGED <<current, deleted>>
  BY <1>4 DEF taskVars
<1>9. PendingExact'
  <2>1. Outstanding' = Outstanding
    BY <1>1, <1>4, <1>6, <1>7, <1>8 DEF Outstanding
  <2>2. QED
    BY <1>4, <2>1 DEF ClosingInv, CountsExact, PendingExact
<1>10. \A s \in Tasks : Unbatched(s)' = Unbatched(s)
  BY <1>4, <1>6, <1>7, <1>8 DEF Unbatched
<1>11. BatchesExact'
  BY <1>4, <1>10 DEF ClosingInv, CountsExact, BatchesExact
<1>12. CompletedExact'
  <2>1. \A s \in Tasks \ {t} : v \notin Replaces[s]
    BY <1>2, OneTask
  <2>2. \A s \in Tasks \ {t}, k \in Threads : Completing(s, k)' <=> Completing(s, k)
    BY <1>1, <1>4, <1>6, <1>7, <2>1 DEF Completing
  <2>3. CompletedExact /\ Completing(t, h)
    BY <1>1, <1>4, <1>5 DEF ClosingInv, CountsExact, Completing
  <2>4. Unbatched(t) = {} /\ completed[t] = 0 /\ \A k \in Threads : Completing(t, k) => k = h
    BY <1>5, <2>3 DEF CompletedExact
  <2>5. \A k \in Threads : ~Completing(t, k)'
    BY <1>6, <1>7, <2>4 DEF Completing
  <2>6. completed'[t] = 1 /\ \A s \in Tasks \ {t} : completed'[s] = completed[s]
    BY <1>4, <1>5, <2>4 DEF ClosingInv, ClosingTypeOK
  <2>7. QED
    BY <1>10, <2>2, <2>3, <2>4, <2>5, <2>6 DEF CompletedExact
<1>13. ClosingTypeOK'
  <2>1. completed' \in [Tasks -> Nat]
    BY <1>4, <1>5 DEF ClosingInv, ClosingTypeOK
  <2>2. QED
    BY <1>4, <1>7, <2>1 DEF ClosingInv, ClosingTypeOK, taskVars, closeVars, Calls
<1>14. ~misused'
  BY <1>4, CallParts, UseAlive DEF on_complete, ClosingInv, Orderly
<1>15. QED
  BY <1>7, <1>9, <1>11, <1>12, <1>13, <1>14 DEF ClosingInv, CountsExact, Orderly

LEMMA CountPendingStep ==
  ASSUME ClosingInv, NEW h \in Threads, CountPending(h)
  PROVE  ClosingInv'
<1>1. PICK v : v = cb[h].v
  OBVIOUS
<1>2. PICK x : x = [at |-> "notify", v |-> v]
  OBVIOUS
<1>3. /\ cb[h].at = "pending" /\ cb' = [cb EXCEPT ![h] = x]
      /\ pending' = pending - 1 /\ UNCHANGED <<completed, remaining>>
      /\ UNCHANGED <<taskVars, guard, queue, retired, deleted, gc, took, closeVars>>
  BY <1>1, <1>2 DEF CountPending, Calling, Call
<1>4. /\ v \in deleted /\ v \in Vers
      /\ \A k \in Threads : (cb[k].at # None /\ cb[k].v = v) => k = h
  BY <1>1, <1>3, CallOf
<1>5. UNCHANGED <<current, deleted>>
  BY <1>3 DEF taskVars
<1>6. v \in Outstanding
  BY <1>1, <1>3, <1>4 DEF Outstanding, ClosingInv, VersionsApart, SetsApart
<1>7. IsFiniteSet(Outstanding) /\ pending = Cardinality(Outstanding)
  BY DEF ClosingInv, CountsExact, PendingExact
<1>8. pending # 0 /\ pending - 1 \in Nat
  <2>1. pending \in Nat
    BY DEF ClosingInv, ClosingTypeOK
  <2>2. pending # 0
    BY <1>6, <1>7, FS_EmptySet
  <2>3. QED
    BY <2>1, <2>2
<1>9. x \in Calls /\ x.v = v /\ x.at = "notify"
  BY <1>2, <1>4 DEF Calls
<1>10. /\ VersionsApart' /\ GuardsHold' /\ TasksPublish' /\ TasksEnd' /\ PartsAlive' /\ CallsEnd'
       /\ cb' \in [Threads -> Calls] /\ cb'[h] = x /\ \A k \in Threads \ {h} : cb'[k] = cb[k]
  BY <1>1, <1>3, <1>8, <1>9, CallAdvances
<1>11. PendingExact'
  <2>1. Outstanding' = Outstanding \ {v}
    BY <1>1, <1>3, <1>4, <1>5, <1>9, <1>10 DEF Outstanding
  <2>2. IsFiniteSet(Outstanding') /\ Cardinality(Outstanding') = pending - 1
    BY <1>6, <1>7, <2>1, FS_RemoveElement
  <2>3. QED
    BY <1>3, <2>2 DEF PendingExact
<1>12. \A s \in Tasks : Unbatched(s)' = Unbatched(s)
  BY <1>3, <1>5, <1>9, <1>10 DEF Unbatched
<1>13. \A s \in Tasks, k \in Threads : Completing(s, k)' <=> Completing(s, k)
  BY <1>3, <1>9, <1>10 DEF Completing
<1>14. BatchesExact' /\ CompletedExact'
  BY <1>3, <1>12, <1>13 DEF ClosingInv, CountsExact, BatchesExact, CompletedExact
<1>15. ClosingTypeOK'
  BY <1>3, <1>8, <1>10 DEF ClosingInv, ClosingTypeOK, taskVars, closeVars, Calls
<1>16. ~misused'
  BY <1>3, CallParts, UseAlive DEF CountPending, ClosingInv, Orderly
<1>17. QED
  BY <1>10, <1>11, <1>14, <1>15, <1>16 DEF ClosingInv, CountsExact, Orderly

LEMMA NotifyIdleStep ==
  ASSUME ClosingInv, NEW h \in Threads, NotifyIdle(h)
  PROVE  ClosingInv'
<1>1. NoCall \in Calls /\ NoCall.at = None
  BY DEF NoCall, Calls
<1>2. /\ cb[h].at = "notify" /\ cb' = [cb EXCEPT ![h] = NoCall]
      /\ UNCHANGED <<pending, completed, remaining>>
      /\ UNCHANGED <<taskVars, guard, queue, retired, deleted, gc, took, closeVars>>
  BY DEF NotifyIdle, Calling
<1>3. /\ VersionsApart' /\ GuardsHold' /\ TasksPublish' /\ TasksEnd' /\ PartsAlive' /\ CallsEnd'
      /\ cb' \in [Threads -> Calls] /\ cb'[h] = NoCall /\ \A k \in Threads \ {h} : cb'[k] = cb[k]
  BY <1>1, <1>2, CallAdvances
<1>4. UNCHANGED <<current, deleted>>
  BY <1>2 DEF taskVars
<1>5. Outstanding' = Outstanding
  BY <1>1, <1>2, <1>3, <1>4 DEF Outstanding
<1>6. \A s \in Tasks : Unbatched(s)' = Unbatched(s)
  BY <1>1, <1>2, <1>3, <1>4 DEF Unbatched
<1>7. \A s \in Tasks, k \in Threads : Completing(s, k)' <=> Completing(s, k)
  BY <1>1, <1>2, <1>3 DEF Completing
<1>8. PendingExact' /\ BatchesExact' /\ CompletedExact'
  BY <1>2, <1>5, <1>6, <1>7
  DEF ClosingInv, CountsExact, PendingExact, BatchesExact, CompletedExact
<1>9. ClosingTypeOK'
  BY <1>2, <1>3 DEF ClosingInv, ClosingTypeOK, taskVars, closeVars, Calls
<1>10. ~misused'
  BY <1>2, CallParts, UseAlive DEF NotifyIdle, ClosingInv, Orderly
<1>11. QED
  BY <1>3, <1>8, <1>9, <1>10 DEF ClosingInv, CountsExact, Orderly

\* The callback begins: no hazard pointer names the version, so nobody holds it.
LEMMA ReclaimStep ==
  ASSUME ClosingInv, NEW h \in Threads, NEW v \in retired, Reclaim(h, v)
  PROVE  ClosingInv'
<1>1. PICK x : x = [at |-> "batch", v |-> v]
  OBVIOUS
<1>2. /\ cb[h].at = None /\ cb' = [cb EXCEPT ![h] = x] /\ Cleaning(h) /\ v \in Reclaimable
      /\ retired' = retired \ {v} /\ deleted' = deleted \cup {v} /\ Use({"index"})
      /\ UNCHANGED <<taskVars, guard, pending, queue, remaining, completed, gc, took, closeVars>>
  BY <1>1 DEF Reclaim, Calling, Call
<1>3. UNCHANGED <<left, hand, current, task, switches, manual, closer, alive, saved>>
  BY <1>2 DEF taskVars, closeVars
<1>4. v \in Vers /\ v \notin current /\ v \notin deleted
  BY DEF ClosingInv, ClosingTypeOK, VersionsApart, SetsApart
<1>5. x \in Calls /\ x.v = v /\ x.at = "batch"
  BY <1>1, <1>4 DEF Calls
<1>6. cb' \in [Threads -> Calls] /\ cb'[h] = x /\ \A k \in Threads \ {h} : cb'[k] = cb[k]
  BY <1>2, <1>5 DEF ClosingInv, ClosingTypeOK, Calls
<1>7. ClosingTypeOK'
  BY <1>2, <1>3, <1>4, <1>6 DEF ClosingInv, ClosingTypeOK, Calls
<1>8. VersionsApart'
  <2>1. retired' \cup deleted' = retired \cup deleted
    BY <1>2
  <2>2. LeftExact' /\ HandsApart' /\ QueueApart' /\ TookApart'
    BY <1>2, <1>3, <2>1 DEF ClosingInv, VersionsApart, LeftExact, HandsApart, QueueApart, TookApart
  <2>3. SetsApart'
    BY <1>2, <1>3, <1>4 DEF ClosingInv, VersionsApart, SetsApart
  <2>4. CallsApart'
    BY <1>2, <1>4, <1>5, <1>6 DEF ClosingInv, VersionsApart, CallsApart
  <2>5. QED
    BY <2>2, <2>3, <2>4 DEF VersionsApart
<1>9. GuardsHold'
  <2>1. \A r \in Readers : guard[r].at = "held" => guard[r].v # v
    BY <1>2 DEF Reclaimable
  <2>2. QED
    BY <1>2, <2>1 DEF ClosingInv, GuardsHold
<1>10. Outstanding' = Outstanding
  BY <1>2, <1>3, <1>4, <1>5, <1>6 DEF Outstanding
<1>11. \A s \in Tasks : Unbatched(s)' = Unbatched(s)
  BY <1>2, <1>4, <1>5, <1>6 DEF Unbatched
<1>12. \A s \in Tasks, k \in Threads : Completing(s, k)' <=> Completing(s, k)
  BY <1>2, <1>5, <1>6 DEF Completing
<1>13. PendingExact' /\ BatchesExact' /\ CompletedExact'
  BY <1>2, <1>10, <1>11, <1>12
  DEF ClosingInv, CountsExact, PendingExact, BatchesExact, CompletedExact
<1>14. TasksPublish' /\ TasksEnd' /\ PartsAlive'
  BY <1>3 DEF ClosingInv, Orderly, TasksPublish, Published, Publishing, TasksEnd, PartsAlive
<1>15. /\ h = Closer => closer \in {"drain", "gcwait"}
       /\ h # Closer => h \in GcThreads /\ gc[h] = "cleanup"
  BY <1>2 DEF Cleaning, ClosingInv, Orderly, CallsEnd, Threads
<1>16. CallsEnd'
  <2>1. CallsEnd
    BY DEF ClosingInv, Orderly
  <2>2. \A g \in GcThreads : cb'[g].at # None => gc'[g] = "cleanup"
    BY <1>2, <1>6, <1>15, <2>1, ClosingAssumption DEF CallsEnd, Threads
  <2>3. cb'[Closer].at # None => closer' \in {"drain", "gcwait"}
    BY <1>3, <1>6, <1>15, <2>1 DEF CallsEnd, Threads
  <2>4. QED
    BY <1>2, <1>3, <2>1, <2>2, <2>3 DEF CallsEnd, GcJoined
<1>17. ~misused'
  <2>1. closer # "closed"
    BY <1>15 DEF ClosingInv, Orderly, CallsEnd, GcJoined
  <2>2. QED
    BY <1>2, <2>1, UseAlive DEF ClosingInv, Orderly, PartsAlive
<1>18. QED
  BY <1>7, <1>8, <1>9, <1>13, <1>14, <1>16, <1>17 DEF ClosingInv, CountsExact, Orderly

LEMMA CallbackSteps ==
  ASSUME ClosingInv, NEW h \in Threads, Callback(h)
  PROVE  ClosingInv'
  BY ReclaimStep, CountBatchStep, OnCompleteStep, CountPendingStep, NotifyIdleStep DEF Callback

-----------------------------------------------------------------------------
(* Reclamation threads *)

\* A thread takes the first version of the queue.
LEMMA TakeStep ==
  ASSUME ClosingInv, NEW g \in GcThreads, version_gc_loop(g), queue # <<>>
  PROVE  ClosingInv'
<1>1. PICK v : v = Head(queue)
  OBVIOUS
<1>2. /\ gc[g] = "loop" /\ gc' = [gc EXCEPT ![g] = "submit"] /\ took' = [took EXCEPT ![g] = v]
      /\ queue' = Tail(queue) /\ Use({"index"})
      /\ UNCHANGED <<taskVars, guard, pending, retired, deleted, remaining, completed, cb, closeVars>>
  BY <1>1 DEF version_gc_loop, Gc
<1>3. UNCHANGED <<left, hand, current, task, switches, manual, closer, alive, saved>>
  BY <1>2 DEF taskVars, closeVars
<1>4. /\ queue \in Seq(Vers) /\ Len(queue) \in Nat \ {0} /\ v = queue[1] /\ v \in Vers
      /\ Len(queue') = Len(queue) - 1 /\ queue' \in Seq(Vers)
      /\ \A i \in 1 .. Len(queue') : queue'[i] = queue[i + 1] /\ i + 1 \in 2 .. Len(queue)
  BY <1>1, <1>2 DEF ClosingInv, ClosingTypeOK
<1>5. /\ took'[g] = v /\ \A k \in GcThreads \ {g} : took'[k] = took[k]
      /\ gc'[g] = "submit" /\ \A k \in GcThreads \ {g} : gc'[k] = gc[k]
  BY <1>2 DEF ClosingInv, ClosingTypeOK
<1>6. ClosingTypeOK'
  BY <1>2, <1>3, <1>4 DEF ClosingInv, ClosingTypeOK
<1>7. /\ v \notin current \cup retired \cup deleted /\ v # None
      /\ \A k \in GcThreads : took[k] # v
      /\ \A i \in 2 .. Len(queue) : queue[i] # v
      /\ \A t \in Tasks : hand[t] # None => hand[t] # v
  BY <1>4, ClosingAssumption DEF ClosingInv, VersionsApart, QueueApart, HandsApart
<1>8. VersionsApart'
  <2>1. QueueApart'
    <3>1. QueueApart
      BY DEF ClosingInv, VersionsApart
    <3>2. \A i, j \in 1 .. Len(queue') : queue'[i] = queue'[j] => i = j
      <4> SUFFICES ASSUME NEW i \in 1 .. Len(queue'), NEW j \in 1 .. Len(queue'),
                          queue'[i] = queue'[j]
                   PROVE  i = j
        OBVIOUS
      <4>1. i + 1 \in 1 .. Len(queue) /\ j + 1 \in 1 .. Len(queue) /\ queue[i + 1] = queue[j + 1]
        BY <1>4
      <4>2. i + 1 = j + 1
        BY <3>1, <4>1 DEF QueueApart
      <4>3. QED
        BY <4>2
    <3>3. ASSUME NEW i \in 1 .. Len(queue')
          PROVE  /\ queue'[i] \notin current' \cup retired' \cup deleted'
                 /\ \A k \in GcThreads : took'[k] # queue'[i]
      <4>1. i + 1 \in 1 .. Len(queue) /\ i + 1 \in 2 .. Len(queue) /\ queue'[i] = queue[i + 1]
        BY <1>4
      <4>2. /\ queue[i + 1] \notin current \cup retired \cup deleted
            /\ \A k \in GcThreads : took[k] # queue[i + 1]
        BY <3>1, <4>1 DEF QueueApart
      <4>3. queue[i + 1] # v
        BY <1>7, <4>1
      <4>4. QED
        BY <1>2, <1>3, <1>5, <4>1, <4>2, <4>3
    <3>4. QED
      BY <3>2, <3>3 DEF QueueApart
  <2>2. HandsApart'
    <3>1. HandsApart
      BY DEF ClosingInv, VersionsApart
    <3>2. \A t \in Tasks : hand[t] # None => \A i \in 1 .. Len(queue') : queue'[i] # hand[t]
      BY <1>4, <3>1 DEF HandsApart
    <3>3. QED
      BY <1>2, <1>3, <1>5, <1>7, <3>1, <3>2 DEF HandsApart
  <2>3. TookApart'
    BY <1>2, <1>3, <1>5, <1>7 DEF ClosingInv, VersionsApart, TookApart
  <2>4. LeftExact' /\ SetsApart' /\ CallsApart'
    BY <1>2, <1>3 DEF ClosingInv, VersionsApart, LeftExact, SetsApart, CallsApart
  <2>5. QED
    BY <2>1, <2>2, <2>3, <2>4 DEF VersionsApart
<1>9. CountsExact' /\ GuardsHold'
  BY <1>2, <1>3, CountsKept, GuardsKept
<1>10. TasksPublish' /\ TasksEnd' /\ PartsAlive'
  BY <1>3 DEF ClosingInv, Orderly, TasksPublish, Published, Publishing, TasksEnd, PartsAlive
<1>11. CallsEnd' /\ closer # "closed"
  BY <1>2, <1>3, <1>5 DEF ClosingInv, Orderly, CallsEnd, GcJoined
<1>12. ~misused'
  BY <1>2, <1>11, UseAlive DEF ClosingInv, Orderly, PartsAlive
<1>13. QED
  BY <1>6, <1>8, <1>9, <1>10, <1>11, <1>12 DEF ClosingInv, Orderly

\* It hands the version it took to the library.
LEMMA SubmitStep ==
  ASSUME ClosingInv, NEW g \in GcThreads, submit_version_to_hazptr(g)
  PROVE  ClosingInv'
<1>1. PICK v : v = took[g]
  OBVIOUS
<1>2. /\ gc[g] = "submit" /\ gc' = [gc EXCEPT ![g] = "cleanup"]
      /\ took' = [took EXCEPT ![g] = None] /\ retired' = retired \cup {v}
      /\ UNCHANGED <<taskVars, guard, pending, queue, deleted, remaining, completed, cb, closeVars,
                     misused>>
  BY <1>1 DEF submit_version_to_hazptr, Gc
<1>3. UNCHANGED <<left, hand, current, task, switches, manual, closer, alive, saved>>
  BY <1>2 DEF taskVars, closeVars
<1>4. /\ v # None /\ v \notin current \cup retired \cup deleted
      /\ \A k \in GcThreads \ {g} : took[k] # v
      /\ \A i \in 1 .. Len(queue) : queue[i] # v
      /\ \A t \in Tasks : hand[t] # None => hand[t] # v
  BY <1>1, <1>2 DEF ClosingInv, VersionsApart, TookApart, QueueApart, HandsApart
<1>5. v \in Vers
  BY <1>1, <1>4 DEF ClosingInv, ClosingTypeOK
<1>6. /\ took'[g] = None /\ \A k \in GcThreads \ {g} : took'[k] = took[k]
      /\ gc'[g] = "cleanup" /\ \A k \in GcThreads \ {g} : gc'[k] = gc[k]
  BY <1>2 DEF ClosingInv, ClosingTypeOK
<1>7. ClosingTypeOK'
  BY <1>2, <1>3, <1>5 DEF ClosingInv, ClosingTypeOK
<1>8. VersionsApart'
  <2>1. LeftExact' /\ SetsApart' /\ CallsApart'
    BY <1>2, <1>3, <1>4 DEF ClosingInv, VersionsApart, LeftExact, SetsApart, CallsApart
  <2>2. \A i \in 1 .. Len(queue) : queue[i] \in Vers
    BY DEF ClosingInv, ClosingTypeOK
  <2>3. None \notin Vers /\ None \notin current \cup retired' \cup deleted
    BY <1>2, <1>4, ClosingAssumption DEF ClosingInv, ClosingTypeOK
  <2>4. QueueApart'
    BY <1>2, <1>3, <1>4, <1>6, <2>2, <2>3 DEF ClosingInv, VersionsApart, QueueApart
  <2>5. HandsApart'
    BY <1>2, <1>3, <1>4, <1>6 DEF ClosingInv, VersionsApart, HandsApart
  <2>6. TookApart'
    BY <1>2, <1>3, <1>4, <1>6, <2>3 DEF ClosingInv, VersionsApart, TookApart
  <2>7. QED
    BY <2>1, <2>4, <2>5, <2>6 DEF VersionsApart
<1>9. CountsExact' /\ GuardsHold'
  BY <1>2, <1>3, CountsKept, GuardsKept
<1>10. TasksPublish' /\ TasksEnd' /\ PartsAlive'
  BY <1>3 DEF ClosingInv, Orderly, TasksPublish, Published, Publishing, TasksEnd, PartsAlive
<1>11. CallsEnd'
  BY <1>2, <1>3, <1>6 DEF ClosingInv, Orderly, CallsEnd, GcJoined
<1>12. QED
  BY <1>2, <1>7, <1>8, <1>9, <1>10, <1>11 DEF ClosingInv, Orderly

\* The other turns of the loop: the thread leaves, begins or ends a cleanup.
LEMMA TurnStep ==
  ASSUME ClosingInv, NEW g \in GcThreads,
         (version_gc_loop(g) /\ queue = <<>>) \/ CleanupDone(g)
  PROVE  ClosingInv'
<1>1. /\ UNCHANGED <<taskVars, guard, pending, queue, took, retired, deleted, remaining, completed, cb,
                      closeVars>>
      /\ \/ gc[g] = "loop" /\ gc' = [gc EXCEPT ![g] = "exited"]
         \/ gc[g] = "loop" /\ gc' = [gc EXCEPT ![g] = "cleanup"]
         \/ gc[g] = "cleanup" /\ gc' = [gc EXCEPT ![g] = "loop"] /\ cb[g] = NoCall
  BY DEF version_gc_loop, CleanupDone, Gc
<1>2. UNCHANGED <<left, hand, current, task, switches, manual, closer, alive, saved>>
  BY <1>1 DEF taskVars, closeVars
<1>3. /\ gc' \in [GcThreads -> {"loop", "submit", "cleanup", "exited"}]
      /\ \A k \in GcThreads \ {g} : gc'[k] = gc[k]
      /\ gc[g] \in {"loop", "cleanup"} /\ gc'[g] \in {"loop", "cleanup", "exited"}
      /\ gc[g] = "cleanup" => cb[g].at = None
  <2>1. NoCall.at = None
    BY DEF NoCall
  <2>2. gc \in [GcThreads -> {"loop", "submit", "cleanup", "exited"}]
    BY DEF ClosingInv, ClosingTypeOK
  <2>3. QED
    BY <1>1, <2>1, <2>2
<1>4. ClosingTypeOK'
  BY <1>1, <1>2, <1>3 DEF ClosingInv, ClosingTypeOK
<1>5. \A k \in GcThreads : gc'[k] = "submit" <=> gc[k] = "submit"
  BY <1>3
<1>6. VersionsApart' /\ CountsExact' /\ GuardsHold'
  BY <1>1, <1>2, <1>5, VersionsKept, CountsKept, GuardsKept
<1>7. TasksPublish' /\ TasksEnd' /\ PartsAlive'
  BY <1>2 DEF ClosingInv, Orderly, TasksPublish, Published, Publishing, TasksEnd, PartsAlive
<1>8. CallsEnd /\ PartsAlive /\ ~misused
  BY DEF ClosingInv, Orderly
<1>9. closer \notin {"smo", "pool", "index", "closed"}
  BY <1>3, <1>8 DEF CallsEnd, GcJoined
<1>10. CallsEnd'
  BY <1>1, <1>2, <1>3, <1>8, <1>9 DEF CallsEnd
<1>11. ~misused'
  BY <1>8, <1>9, UseAlive DEF PartsAlive, version_gc_loop, CleanupDone
<1>12. QED
  BY <1>4, <1>6, <1>7, <1>10, <1>11 DEF ClosingInv, Orderly

-----------------------------------------------------------------------------
(* close() *)

LEMMA CloseSteps ==
  ASSUME ~QueuedAtClose, ClosingInv, close \/ CloseStep
  PROVE  ClosingInv'
<1> USE DEF Close
<1>1. /\ UNCHANGED <<taskVars, guard, misused>>
      /\ UNCHANGED <<pending, queue, retired, deleted, remaining, completed, gc, took, cb>>
  BY DEF CloseStep, close, wait_all_consolidations, publish_pending_versions, wait_for_version_gc,
         WithdrawFlusher, ResetFlushers, save_vertex_index, StopGc, JoinGc, DeleteSmo, DeletePools,
         DeleteIndex, reclaimVars
<1>2. UNCHANGED <<left, hand, current, task, switches, manual>>
  BY <1>1 DEF taskVars
<1>3. VersionsApart' /\ CountsExact' /\ GuardsHold'
  BY <1>1, <1>2, VersionsKept, CountsKept, GuardsKept
<1>4. /\ closer' \in Phases /\ alive' \in SUBSET {"flusher", "index", "pool"}
      /\ saved' \in SUBSET Tasks
  BY DEF CloseStep, close, wait_all_consolidations, publish_pending_versions, wait_for_version_gc,
         WithdrawFlusher, ResetFlushers, save_vertex_index, StopGc, JoinGc, DeleteSmo, DeletePools,
         DeleteIndex, ClosingInv, ClosingTypeOK, Phases
<1>5. ClosingTypeOK'
  BY <1>1, <1>2, <1>4 DEF ClosingInv, ClosingTypeOK
<1>6. PartsAlive'
  BY DEF CloseStep, close, wait_all_consolidations, publish_pending_versions, wait_for_version_gc,
         WithdrawFlusher, ResetFlushers, save_vertex_index, StopGc, JoinGc, DeleteSmo, DeletePools,
         DeleteIndex, ClosingInv, Orderly, PartsAlive
<1>7. TasksPublish'
  <2>1. TasksPublish /\ TasksEnd
    BY DEF ClosingInv, Orderly
  <2>2. closer = "switches" => switches = {}
    BY DEF CloseStep, close, wait_all_consolidations, publish_pending_versions, wait_for_version_gc,
           WithdrawFlusher, ResetFlushers, save_vertex_index, StopGc, JoinGc, DeleteSmo, DeletePools,
           DeleteIndex
  <2>3. \A t \in Tasks : Publishing(t) => Publishing(t)'
    BY <1>2, <2>1, <2>2 DEF TasksEnd, Publishing
  <2>4. \A t \in Tasks : Published(t) => Published(t)'
    BY <1>2 DEF Published
  <2>5. QED
    BY <1>2, <2>1, <2>3, <2>4 DEF TasksPublish
<1>8. TasksEnd'
  <2>1. TasksPublish /\ TasksEnd
    BY DEF ClosingInv, Orderly
  <2>2. closer' # "open" => \A t \in Tasks : task[t] # "queued"
    BY <2>1
    DEF CloseStep, close, wait_all_consolidations, publish_pending_versions, wait_for_version_gc,
        WithdrawFlusher, ResetFlushers, save_vertex_index, StopGc, JoinGc, DeleteSmo, DeletePools,
        DeleteIndex, TasksEnd
  <2>3. closer' \notin {"open", "wait"} => \A t \in Tasks : task[t] \in {"none", "ended", "done"}
    BY <2>1
    DEF CloseStep, close, wait_all_consolidations, publish_pending_versions, wait_for_version_gc,
        WithdrawFlusher, ResetFlushers, save_vertex_index, StopGc, JoinGc, DeleteSmo, DeletePools,
        DeleteIndex, TasksEnd, GroupEmpty
  <2>4. closer' \notin {"open", "wait", "switches"} => switches = {}
    BY <2>1
    DEF CloseStep, close, wait_all_consolidations, publish_pending_versions, wait_for_version_gc,
        WithdrawFlusher, ResetFlushers, save_vertex_index, StopGc, JoinGc, DeleteSmo, DeletePools,
        DeleteIndex, TasksEnd
  <2>5. CASE save_vertex_index
    <3>1. switches = {} /\ saved' = {t \in Tasks : Published(t)}
      BY <2>1, <2>5 DEF save_vertex_index, TasksEnd
    <3>2. \A t \in Tasks : task[t] = "done" => t \in saved'
      BY <2>1, <3>1 DEF TasksPublish
    <3>3. QED
      BY <1>2, <2>2, <2>3, <2>4, <3>2 DEF TasksEnd
  <2>6. CASE ~save_vertex_index
    <3>1. closer' \notin {"open", "wait", "switches", "drain", "withdraw", "reset", "save"} =>
            closer \notin {"open", "wait", "switches", "drain", "withdraw", "reset", "save"}
            /\ saved' = saved
      BY <2>6
      DEF CloseStep, close, wait_all_consolidations, publish_pending_versions, wait_for_version_gc,
          WithdrawFlusher, ResetFlushers, StopGc, JoinGc, DeleteSmo, DeletePools, DeleteIndex
    <3>2. QED
      BY <1>2, <2>1, <2>2, <2>3, <2>4, <3>1 DEF TasksEnd
  <2>7. QED
    BY <2>5, <2>6
<1>9. CallsEnd'
  <2>1. CallsEnd
    BY DEF ClosingInv, Orderly
  <2>2. cb[Closer].at # None => closer' \in {"drain", "gcwait"}
    BY <2>1
    DEF CloseStep, close, wait_all_consolidations, publish_pending_versions, wait_for_version_gc,
        WithdrawFlusher, ResetFlushers, save_vertex_index, StopGc, JoinGc, DeleteSmo, DeletePools,
        DeleteIndex, CallsEnd, NoCall
  <2>3. /\ closer' \in {"join", "smo", "pool", "index", "closed"} => pending = 0
        /\ closer' \in {"smo", "pool", "index", "closed"} => GcJoined
    BY <2>1
    DEF CloseStep, close, wait_all_consolidations, publish_pending_versions, wait_for_version_gc,
        WithdrawFlusher, ResetFlushers, save_vertex_index, StopGc, JoinGc, DeleteSmo, DeletePools,
        DeleteIndex, CallsEnd
  <2>4. QED
    BY <1>1, <2>1, <2>2, <2>3 DEF CallsEnd, GcJoined
<1>10. QED
  BY <1>1, <1>3, <1>5, <1>6, <1>7, <1>8, <1>9 DEF ClosingInv, Orderly

-----------------------------------------------------------------------------
LEMMA ClosingSteps ==
  ASSUME ~QueuedAtClose, ClosingInv, [ClosingNext]_closingVars
  PROVE  ClosingInv'
<1>1. CASE \E t \in Tasks : consolidate_pages_async(t) \/ TaskStep(t)
  BY <1>1, QuietTaskSteps, PublishStep, RetireStep DEF TaskStep
<1>2. CASE \E r \in Readers : ReaderEnds(r) \/ \E v \in Vers : ReaderLoad(r, v)
  BY <1>2, ReaderSteps
<1>3. CASE \E g \in GcThreads : GcStep(g)
  BY <1>3, TakeStep, TurnStep, SubmitStep, CallbackSteps DEF GcStep, Threads
<1>4. CASE close \/ CloseStep
  BY <1>4, CloseSteps
<1>5. CASE Callback(Closer)
  BY <1>5, CallbackSteps DEF Threads
<1>6. CASE UNCHANGED closingVars
  <2>1. /\ UNCHANGED <<left, hand, current, task, switches, manual, guard, misused>>
        /\ UNCHANGED <<pending, queue, retired, deleted, remaining, completed, gc, took, cb>>
        /\ UNCHANGED <<closer, alive, saved>>
    BY <1>6 DEF closingVars, taskVars, reclaimVars, closeVars
  <2>2. VersionsApart' /\ CountsExact' /\ GuardsHold'
    BY <2>1, VersionsKept, CountsKept, GuardsKept
  <2>3. Orderly'
    BY <2>1 DEF ClosingInv, Orderly, TasksPublish, Published, Publishing, TasksEnd, CallsEnd, PartsAlive,
                GcJoined
  <2>4. ClosingTypeOK'
    BY <2>1 DEF ClosingInv, ClosingTypeOK
  <2>5. QED
    BY <2>2, <2>3, <2>4 DEF ClosingInv
<1>7. QED
  BY <1>1, <1>2, <1>3, <1>4, <1>5, <1>6 DEF ClosingNext

\* A page is freed by the callback of the last of its versions.
LEMMA InvReclaimExact ==
  ASSUME ClosingInv
  PROVE  ReclaimExact
<1>1. \A r \in Readers : guard[r].at = "held" => guard[r].v \notin deleted
  BY DEF ClosingInv, GuardsHold
<1>2. ASSUME NEW t \in Tasks
      PROVE  completed[t] <= 1 /\ (completed[t] = 1 => Replaces[t] \subseteq deleted)
  <2>1. completed[t] \in {0, 1} /\ (completed[t] = 1 => Unbatched(t) = {})
    BY DEF ClosingInv, CountsExact, CompletedExact
  <2>2. Unbatched(t) = {} => Replaces[t] \subseteq deleted
    BY DEF Unbatched
  <2>3. QED
    BY <2>1, <2>2
<1>3. QED
  BY <1>1, <1>2 DEF ReclaimExact

LEMMA InvCloseSafe ==
  ASSUME ClosingInv
  PROVE  CloseSafe
<1>1. ~misused
  BY DEF ClosingInv, Orderly
<1>2. ASSUME closer = "closed", NEW t \in Tasks, task[t] \notin {"none", "ended"}
      PROVE  t \in saved /\ Replaces[t] \subseteq deleted /\ completed[t] = 1
  <2>1. task[t] = "done" /\ t \in saved /\ t \notin switches
    BY <1>2 DEF ClosingInv, Orderly, TasksEnd
  <2>2. Replaces[t] \cap current = {}
    BY <2>1 DEF ClosingInv, Orderly, TasksPublish, Published, VersionsApart, LeftExact
  <2>3. Outstanding = {}
    BY <1>2, FS_EmptySet DEF ClosingInv, Orderly, CallsEnd, CountsExact, PendingExact
  <2>4. \A v \in Replaces[t] : /\ v \in deleted
                               /\ \A h \in Threads : cb[h].v = v =>
                                    cb[h].at \notin {"batch", "complete", "pending"}
    BY <2>2, <2>3, OneTask DEF Outstanding
  <2>5. Unbatched(t) = {} /\ \A h \in Threads : ~Completing(t, h)
    BY <2>4 DEF Unbatched, Completing
  <2>6. completed[t] = 1
    BY <2>5 DEF ClosingInv, CountsExact, CompletedExact
  <2>7. QED
    BY <2>1, <2>4, <2>6
<1>3. QED
  BY <1>1, <1>2, InvReclaimExact DEF CloseSafe

\* For any consolidations, reclamation threads and readers, when no consolidation
\* is still queued as close() is called: a version is deleted only when no reader
\* holds it, the page of a consolidation is freed once and after its last
\* version, nothing is used after close() has destroyed it, and when close() is
\* over every consolidation is saved and all it replaced reclaimed.
THEOREM ClosingSafety ==
  ASSUME ~QueuedAtClose
  PROVE  ClosingSpec => []CloseSafe
<1>1. ClosingInit => ClosingInv
  BY ClosingStart
<1>2. ClosingInv /\ [ClosingNext]_closingVars => ClosingInv'
  BY ClosingSteps
<1>3. ClosingInv => CloseSafe
  BY InvCloseSafe
<1>4. QED
  BY <1>1, <1>2, <1>3, PTL DEF ClosingSpec
=============================================================================
