------------------------------- MODULE Flusher -------------------------------
(***************************************************************************)
(* csr_flusher_t and delta_flusher_t: a thread that sleeps on a condition  *)
(* variable, wakes by timeout, trigger or stop, and writes the dirty pages *)
(* of a pool; stop() ends the thread and flushes once more itself.         *)
(*                                                                         *)
(* The delta flusher has no trigger (Triggers = {}).  A section under      *)
(* cv_mutex_ is one action; notify_all and notify_one come after it, in an *)
(* action of their own.                                                    *)
(***************************************************************************)
EXTENDS Naturals, FiniteSets

CONSTANTS
  PoolPages,     \* pages of the pool
  Triggers,  \* threads that call trigger_async_flush
  MaxStarts, \* bound: calls of start
  MaxUses    \* bound: latches taken by users of pages

ASSUME FlusherAssumption == IsFiniteSet(PoolPages) /\ MaxStarts \in Nat /\ MaxUses \in Nat

Scanners == {"loop", "stop", "sync"}

VARIABLES
  running,  \* running_
  stop,     \* stop_
  wake,     \* wake_requested_
  thread,   \* flush_thread_: none, check, sleep, woken, scan, exited
  owner,    \* the thread that starts and stops: off, starting, on, notify, join, final
  trig,     \* trigger thread -> idle, set or notify
  scan,     \* scanner -> dirty pages of its snapshot still to be flushed
  syncing,  \* a call of flush_all is under way
  dirty,    \* pages marked dirty
  busy,     \* pages latched by a user
  starts,   \* calls of start so far
  uses,     \* latches taken so far
  asked,    \* history: a request to the started thread that no scan has answered yet
  touched   \* history: pages latched or marked since stop() was called

flusherVars == <<running, stop, wake, thread, owner, trig, scan, syncing, dirty, busy, starts, uses, asked,
          touched>>
flags == <<running, stop, wake>>
users == <<dirty, busy, uses, touched>>

FlusherInit ==
  /\ running = FALSE /\ stop = FALSE /\ wake = FALSE
  /\ thread = "none" /\ owner = "off"
  /\ trig = [t \in Triggers |-> "idle"]
  /\ scan = [s \in Scanners |-> {}]
  /\ syncing = FALSE
  /\ dirty = {} /\ busy = {}
  /\ starts = 0 /\ uses = 0
  /\ asked = FALSE
  /\ touched = {}

-----------------------------------------------------------------------------
(* Start, stop, trigger *)

\* start: the exchange of running_ ...
Start ==
  /\ owner = "off" /\ ~running /\ starts < MaxStarts
  /\ running' = TRUE
  /\ owner' = "starting"
  /\ starts' = starts + 1
  /\ UNCHANGED <<users, stop, wake, thread, trig, scan, syncing, asked>>

\* ... and the section that resets the flags before the thread is created: a
\* request made in between is erased.
StartThread ==
  /\ owner = "starting"
  /\ stop' = FALSE /\ wake' = FALSE
  /\ thread' = "check" /\ owner' = "on"
  /\ UNCHANGED <<users, running, trig, scan, syncing, starts, asked>>

FlusherStop ==
  /\ owner = "on"
  /\ stop' = TRUE /\ wake' = TRUE
  /\ owner' = "notify"
  /\ touched' = busy
  /\ UNCHANGED <<running, thread, trig, scan, syncing, dirty, busy, starts, uses, asked>>

\* notify_all, notify_one: a sleeping thread checks its predicate again.
NotifyNobody == thread
Notify == IF thread = "sleep" THEN "woken" ELSE thread

FlusherStopNotify ==
  /\ owner = "notify"
  /\ thread' = Notify
  /\ owner' = "join"
  /\ UNCHANGED <<flags, users, trig, scan, syncing, starts, asked>>

\* join, then the final scan begins.
JoinSkipped == owner = "join"
Joined == owner = "join" /\ thread = "exited"

\* The snapshot flush_dirty_pages takes of the dirty pages.
NoFinalScan == {}
DirtyPages == dirty

FlusherStopJoin ==
  /\ Joined
  /\ running' = FALSE
  /\ thread' = IF thread = "exited" THEN "none" ELSE thread
  /\ scan' = [scan EXCEPT !["stop"] = DirtyPages]
  /\ owner' = "final"
  /\ asked' = FALSE
  /\ UNCHANGED <<users, stop, wake, trig, syncing, starts>>

StopReturn ==
  /\ owner = "final" /\ scan["stop"] = {}
  /\ owner' = "off"
  /\ UNCHANGED <<flags, users, thread, trig, scan, syncing, starts, asked>>

\* trigger_async_flush, called by consolidations: running_ is loaded without the
\* mutex ...
Trigger(t) ==
  /\ trig[t] = "idle" /\ running
  /\ trig' = [trig EXCEPT ![t] = "set"]
  /\ UNCHANGED <<flags, users, thread, owner, scan, syncing, starts, asked>>

\* ... and the request is made under it, by when the flusher may have stopped or
\* be starting again.
TriggerSet(t) ==
  /\ trig[t] = "set"
  /\ wake' = TRUE
  /\ trig' = [trig EXCEPT ![t] = "notify"]
  /\ asked' = (asked \/ owner \in {"on", "notify", "join"})
  /\ UNCHANGED <<users, running, stop, thread, owner, scan, syncing, starts>>

TriggerNotify(t) ==
  /\ trig[t] = "notify"
  /\ thread' = Notify
  /\ trig' = [trig EXCEPT ![t] = "idle"]
  /\ UNCHANGED <<flags, users, owner, scan, syncing, starts, asked>>

-----------------------------------------------------------------------------
(* flush_loop *)

\* The predicate of wait_for; the delta flusher's is stop_ alone.
Ready == stop \/ (wake /\ Triggers # {})

\* wait_for found its predicate false and sleeps.
LoopSleep ==
  /\ thread \in {"check", "woken"} /\ ~Ready
  /\ thread' = "sleep"
  /\ UNCHANGED <<flags, users, owner, trig, scan, syncing, starts, asked>>

\* wait_for returned: leave on stop_, otherwise clear the request and scan.
Proceed ==
  /\ IF stop
     THEN thread' = "exited" /\ UNCHANGED <<wake, scan, asked>>
     ELSE /\ thread' = "scan"
          /\ wake' = FALSE /\ asked' = FALSE
          /\ scan' = [scan EXCEPT !["loop"] = DirtyPages]
  /\ UNCHANGED <<users, running, stop, owner, trig, syncing, starts>>

LoopAwake == thread \in {"check", "woken"} /\ Ready /\ Proceed
LoopTimeout == thread = "sleep" /\ Proceed

LoopAgain ==
  /\ thread = "scan" /\ scan["loop"] = {}
  /\ thread' = "check"
  /\ UNCHANGED <<flags, users, owner, trig, scan, syncing, starts, asked>>

-----------------------------------------------------------------------------
(* flush_dirty_pages, for the loop, for stop() and for flush_all() *)

\* flush_to_disk gives up on a page whose latch is taken.
FlushOne(s, p) ==
  /\ p \in scan[s]
  /\ scan' = [scan EXCEPT ![s] = @ \ {p}]
  /\ dirty' = IF p \in busy THEN dirty ELSE dirty \ {p}
  /\ UNCHANGED <<flags, thread, owner, trig, syncing, busy, starts, uses, asked, touched>>

FlushAll ==
  /\ ~syncing
  /\ syncing' = TRUE
  /\ scan' = [scan EXCEPT !["sync"] = DirtyPages]
  /\ UNCHANGED <<flags, users, thread, owner, trig, starts, asked>>

FlushAllReturn ==
  /\ syncing /\ scan["sync"] = {}
  /\ syncing' = FALSE
  /\ UNCHANGED <<flags, users, thread, owner, trig, scan, starts, asked>>

\* Users latch pages, to read them or to change and mark them.
Latch(p) ==
  /\ p \notin busy /\ uses < MaxUses
  /\ busy' = busy \cup {p}
  /\ uses' = uses + 1
  /\ touched' = touched \cup {p}
  /\ UNCHANGED <<flags, thread, owner, trig, scan, syncing, dirty, starts, asked>>

Unlatch(p) ==
  /\ p \in busy
  /\ busy' = busy \ {p}
  /\ dirty' \in {dirty, dirty \cup {p}}
  /\ UNCHANGED <<flags, thread, owner, trig, scan, syncing, starts, uses, asked, touched>>

-----------------------------------------------------------------------------
OwnerStep == StartThread \/ FlusherStopNotify \/ FlusherStopJoin \/ StopReturn
TriggerStep(t) == TriggerSet(t) \/ TriggerNotify(t)
LoopStep == LoopSleep \/ LoopAwake \/ LoopAgain
Flushing == (\E s \in Scanners, p \in PoolPages : FlushOne(s, p)) \/ FlushAllReturn

FlusherNext ==
  \/ Start \/ FlusherStop \/ OwnerStep
  \/ \E t \in Triggers : Trigger(t) \/ TriggerStep(t)
  \/ LoopStep \/ LoopTimeout
  \/ Flushing \/ FlushAll
  \/ \E p \in PoolPages : Latch(p) \/ Unlatch(p)

FlusherSpec == FlusherInit /\ [][FlusherNext]_flusherVars

\* Running threads keep running; the timeout may be as long as it likes, and
\* nobody is obliged to call anything.
FlusherFairness ==
  /\ WF_flusherVars(OwnerStep) /\ WF_flusherVars(LoopStep)
  /\ \A t \in Triggers : WF_flusherVars(TriggerStep(t))
  /\ \A s \in Scanners : WF_flusherVars(\E p \in PoolPages : FlushOne(s, p))

-----------------------------------------------------------------------------
(* Properties *)

\* Once stop() has joined, no background scan touches a page: the pool and the
\* disk manager may be destroyed.
NoScanAfterStop == owner \in {"off", "starting", "final"} => thread = "none" /\ scan["loop"] = {}

\* When stop() returns, a page that is still dirty was latched or changed by
\* somebody since stop() was called.
StopFlushesQuietPages == owner = "off" => dirty \subseteq touched \/ starts = 0

\* A request made of a flusher that has started and not yet joined its thread is
\* answered by a scan, of the loop or of stop() itself, however long the timeout,
\* and stop() returns: neither is lost between the predicate of the loop and its
\* sleep (flush_loop, stop, trigger_async_flush).  Requests that fall between the
\* exchange and the reset of start(), or that come after the join from a caller
\* that had found the flusher running, are not among them: nobody answers those.
FlusherAnswers == (asked ~> ~asked) /\ (owner = "notify" ~> owner = "off")
==============================================================================
