------------------------------ MODULE Prefetch -------------------------------
(***************************************************************************)
(* The prefetch queue of buf_pool_t: callers enqueue page numbers, worker  *)
(* threads started on first use load them, stop_prefetch_workers joins the *)
(* workers and wait_for_prefetch_idle waits for an empty queue.            *)
(*                                                                         *)
(* A section under prefetch_mutex_ is one action.  Both condition          *)
(* variables are modelled by who sleeps on them; a notification outside    *)
(* the mutex is an action of its own.  The load itself (buf_page_read) is  *)
(* BufPool's subject.                                                      *)
(***************************************************************************)
EXTENDS Naturals, Sequences, FiniteSets, SequencesExt

CONSTANTS
  Workers,     \* worker threads
  Callers,     \* threads that call buf_page_prefetch
  Waiters,     \* threads that call wait_for_prefetch_idle
  Pages,       \* page numbers
  NoPage,      \* a worker without a job
  Capacity,    \* prefetch_queue_capacity_
  MaxRequests  \* bound: requests accepted

ASSUME PrefetchAssumption ==
  /\ IsFiniteSet(Workers) /\ Workers # {} /\ NoPage \notin Pages
  /\ Capacity \in Nat \ {0} /\ MaxRequests \in Nat

VARIABLES
  queue,     \* prefetch_queue_
  queued,    \* queued_prefetch_pages_
  active,    \* prefetch_active_count_
  stopping,  \* prefetch_stop_
  worker,    \* worker -> none, check, sleep, load, exited
  job,       \* worker -> the page it loads
  caller,    \* caller -> idle or notify
  waiter,    \* waiter -> idle, check, sleep or done
  stopper,   \* stop_prefetch_workers: idle, notify, join or done
  cached,    \* pages that are cached or being loaded
  requests   \* requests accepted so far

prefetchVars == <<queue, queued, active, stopping, worker, job, caller, waiter, stopper, cached, requests>>

Started == \E w \in Workers : worker[w] # "none"

PrefetchInit ==
  /\ queue = <<>> /\ queued = {} /\ active = 0 /\ stopping = FALSE
  /\ worker = [w \in Workers |-> "none"]
  /\ job = [w \in Workers |-> NoPage]
  /\ caller = [c \in Callers |-> "idle"]
  /\ waiter = [w \in Waiters |-> "idle"]
  /\ stopper = "idle"
  /\ cached = {}
  /\ requests = 0

-----------------------------------------------------------------------------
(* buf_page_prefetch *)

\* ensure_prefetch_workers, on the way to the first request.
ensure_prefetch_workers ==
  /\ ~Started /\ ~stopping /\ requests < MaxRequests
  /\ worker' = [w \in Workers |-> "check"]
  /\ UNCHANGED <<queue, queued, active, stopping, job, caller, waiter, stopper, cached, requests>>

\* A request is dropped unless all of this holds.
AcceptsDuplicates(p) == Len(queue) < Capacity /\ p \notin cached
Accepts(p) == p \notin queued /\ Len(queue) < Capacity /\ p \notin cached

buf_page_prefetch(c, p) ==
  /\ caller[c] = "idle" /\ requests < MaxRequests
  /\ Started /\ ~stopping /\ Accepts(p)
  /\ queued' = queued \cup {p}
  /\ queue' = Append(queue, p)
  /\ caller' = [caller EXCEPT ![c] = "notify"]
  /\ requests' = requests + 1
  /\ UNCHANGED <<active, stopping, worker, job, waiter, stopper, cached>>

Sleeping == {w \in Workers : worker[w] = "sleep"}

\* notify_one
NotifyForgotten(c) ==
  /\ caller[c] = "notify"
  /\ caller' = [caller EXCEPT ![c] = "idle"]
  /\ UNCHANGED <<queue, queued, active, stopping, worker, job, waiter, stopper, cached, requests>>
NotifyOne(c) ==
  /\ caller[c] = "notify"
  /\ caller' = [caller EXCEPT ![c] = "idle"]
  /\ \/ Sleeping = {} /\ UNCHANGED worker
     \/ \E w \in Sleeping : worker' = [worker EXCEPT ![w] = "check"]
  /\ UNCHANGED <<queue, queued, active, stopping, job, waiter, stopper, cached, requests>>

\* Other threads load and evict pages.
Elsewhere(p) ==
  /\ cached' \in {cached \cup {p}, cached \ {p}}
  /\ UNCHANGED <<queue, queued, active, stopping, worker, job, caller, waiter, stopper, requests>>

-----------------------------------------------------------------------------
(* prefetch_worker_loop *)

WorkerSleep(w) ==
  /\ worker[w] = "check" /\ ~stopping /\ queue = <<>>
  /\ worker' = [worker EXCEPT ![w] = "sleep"]
  /\ UNCHANGED <<queue, queued, active, stopping, job, caller, waiter, stopper, cached, requests>>

WorkerExit(w) ==
  /\ worker[w] = "check" /\ stopping /\ queue = <<>>
  /\ worker' = [worker EXCEPT ![w] = "exited"]
  /\ UNCHANGED <<queue, queued, active, stopping, job, caller, waiter, stopper, cached, requests>>

WorkerTake(w) ==
  /\ worker[w] = "check" /\ queue # <<>>
  /\ job' = [job EXCEPT ![w] = Head(queue)]
  /\ queue' = Tail(queue)
  /\ active' = active + 1
  /\ worker' = [worker EXCEPT ![w] = "load"]
  /\ UNCHANGED <<queued, stopping, caller, waiter, stopper, cached, requests>>

\* The load succeeds, or fails and is ignored; then the request is settled and
\* the last worker wakes those who wait for an idle queue.
IdleNotify == IF queue = <<>> /\ active = 1
              THEN [w \in Waiters |-> IF waiter[w] = "sleep" THEN "check" ELSE waiter[w]]
              ELSE waiter

WorkerDone(w) ==
  /\ worker[w] = "load"
  /\ cached' \in {cached, cached \cup {job[w]}}
  /\ queued' = queued \ {job[w]}
  /\ active' = active - 1
  /\ waiter' = IdleNotify
  /\ job' = [job EXCEPT ![w] = NoPage]
  /\ worker' = [worker EXCEPT ![w] = "check"]
  /\ UNCHANGED <<queue, stopping, caller, stopper, requests>>

-----------------------------------------------------------------------------
(* wait_for_prefetch_idle and stop_prefetch_workers *)

WaitBegin(w) ==
  /\ waiter[w] = "idle"
  /\ waiter' = [waiter EXCEPT ![w] = "check"]
  /\ UNCHANGED <<queue, queued, active, stopping, worker, job, caller, stopper, cached, requests>>

WaitCheck(w) ==
  /\ waiter[w] = "check"
  /\ waiter' = [waiter EXCEPT ![w] = IF queue = <<>> /\ active = 0 THEN "done" ELSE "sleep"]
  /\ UNCHANGED <<queue, queued, active, stopping, worker, job, caller, stopper, cached, requests>>

\* The destructor stops the workers; without workers there is nothing to join.
Stop ==
  /\ stopper = "idle"
  /\ stopping' = TRUE
  /\ IF Started
     THEN stopper' = "notify" /\ UNCHANGED <<queue, queued>>
     ELSE stopper' = "done" /\ queue' = <<>> /\ queued' = {}
  /\ UNCHANGED <<active, worker, job, caller, waiter, cached, requests>>

StopNotify ==
  /\ stopper = "notify"
  /\ worker' = [w \in Workers |-> IF worker[w] = "sleep" THEN "check" ELSE worker[w]]
  /\ stopper' = "join"
  /\ UNCHANGED <<queue, queued, active, stopping, job, caller, waiter, cached, requests>>

StopNotWaiting == stopper = "join"
AllJoined == stopper = "join" /\ \A w \in Workers : worker[w] = "exited"

StopJoin ==
  /\ AllJoined
  /\ stopper' = "done"
  /\ UNCHANGED <<queue, queued, active, stopping, worker, job, caller, waiter, cached, requests>>

-----------------------------------------------------------------------------
WorkerStep(w) == WorkerSleep(w) \/ WorkerExit(w) \/ WorkerTake(w) \/ WorkerDone(w)

PrefetchNext ==
  \/ ensure_prefetch_workers
  \/ \E c \in Callers : NotifyOne(c) \/ \E p \in Pages : buf_page_prefetch(c, p)
  \/ \E p \in Pages : Elsewhere(p)
  \/ \E w \in Workers : WorkerStep(w)
  \/ \E w \in Waiters : WaitBegin(w) \/ WaitCheck(w)
  \/ Stop \/ StopNotify \/ StopJoin

PrefetchSpec == PrefetchInit /\ [][PrefetchNext]_prefetchVars

\* Running threads keep running.
PrefetchFairness ==
  /\ \A w \in Workers : WF_prefetchVars(WorkerStep(w))
  /\ \A c \in Callers : WF_prefetchVars(NotifyOne(c))
  /\ \A w \in Waiters : WF_prefetchVars(WaitCheck(w))
  /\ WF_prefetchVars(StopNotify) /\ WF_prefetchVars(StopJoin)

-----------------------------------------------------------------------------
(* Properties *)

Loading == {w \in Workers : worker[w] = "load"}

\* The set that suppresses duplicates is exactly what is queued or being
\* loaded, each page once, and the counter that idle waiters rely on is the
\* number of loading workers.
QueueExact ==
  /\ queued = Range(queue) \cup {job[w] : w \in Loading}
  /\ Len(queue) + Cardinality(Loading) = Cardinality(queued)
  /\ active = Cardinality(Loading)

\* When stop_prefetch_workers has returned, no worker is left that could touch
\* the pool, and no accepted request is left behind.
StopIsFinal ==
  stopper = "done" => /\ \A w \in Workers : worker[w] \in {"none", "exited"}
                      /\ queue = <<>> /\ queued = {}

\* Every accepted request is taken up, whatever workers sleep when it arrives;
\* wait_for_prefetch_idle returns once requests stop coming; and the destructor
\* of the pool does not hang.
PrefetchSettles ==
  /\ \A p \in Pages : p \in queued ~> p \notin queued
  /\ \A w \in Waiters : waiter[w] = "check" ~> waiter[w] = "done"
  /\ stopper = "notify" ~> stopper = "done"
==============================================================================
