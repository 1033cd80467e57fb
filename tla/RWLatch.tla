------------------------------- MODULE RWLatch -------------------------------
(***************************************************************************)
(* rw_latch_t: a reader-writer latch in one machine word, the write flag   *)
(* in the top bit and the reader count below it.  Every action is one      *)
(* atomic access to the word.  Threads use it as the callers do: a thread  *)
(* takes the latch once and releases what it took.                         *)
(***************************************************************************)
EXTENDS Integers, FiniteSets

CONSTANTS
  Threads,          \* the threads that share the latch
  WRITE_LOCK_FLAG   \* value of the top bit (2^31 in the code)

ASSUME LatchAssumption ==
  /\ IsFiniteSet(Threads)
  /\ WRITE_LOCK_FLAG \in Nat /\ WRITE_LOCK_FLAG > 1

READ_COUNT_MASK == WRITE_LOCK_FLAG - 1
Words == 0 .. 2 * WRITE_LOCK_FLAG - 1

VARIABLES
  word,   \* lock_state_
  pc,     \* where each thread is
  exp,    \* expected / current_state: the word as the thread last loaded it
  block   \* TRUE in r_lock and w_lock, which retry; FALSE in the try_ calls

latchVars == <<word, pc, exp, block>>

\* The two fields of a word: w & WRITE_LOCK_FLAG and w & READ_COUNT_MASK.
Flagged(w) == w >= WRITE_LOCK_FLAG
Count(w) == IF Flagged(w) THEN w - WRITE_LOCK_FLAG ELSE w

Holders(s) == {t \in Threads : pc[t] \in s}
Writing == Holders({"writing", "convert"})
Reading == Holders({"reading"})

LatchInit ==
  /\ word = 0
  /\ pc = [t \in Threads |-> "idle"]
  /\ exp = [t \in Threads |-> 0]
  /\ block = [t \in Threads |-> FALSE]

-----------------------------------------------------------------------------
\* A thread calls w_lock or r_lock (b) or their try_ forms (~b).
Call(t, mode, b) ==
  /\ pc[t] = "idle"
  /\ pc' = [pc EXCEPT ![t] = mode]
  /\ block' = [block EXCEPT ![t] = b]
  /\ UNCHANGED <<word, exp>>

\* The failure of a try: a blocking call spins and starts over.
Failed(t, mode) == pc' = [pc EXCEPT ![t] = IF block[t] THEN mode ELSE "idle"]

\* try_w_lock: one compare-exchange of 0.
TryWriteOverReaders(t) ==
  /\ pc[t] = "w_try"
  /\ IF ~Flagged(word) THEN word' = WRITE_LOCK_FLAG /\ pc' = [pc EXCEPT ![t] = "writing"]
     ELSE Failed(t, "w_try") /\ UNCHANGED word
  /\ UNCHANGED <<exp, block>>
try_w_lock(t) ==
  /\ pc[t] = "w_try"
  /\ IF word = 0 THEN word' = WRITE_LOCK_FLAG /\ pc' = [pc EXCEPT ![t] = "writing"]
     ELSE Failed(t, "w_try") /\ UNCHANGED word
  /\ UNCHANGED <<exp, block>>

\* try_r_lock, the load before the loop.
ReadLoad(t) ==
  /\ pc[t] = "r_load"
  /\ exp' = [exp EXCEPT ![t] = word]
  /\ pc' = [pc EXCEPT ![t] = "r_check"]
  /\ UNCHANGED <<word, block>>

\* No reader may enter: a writer is inside or the counter is full.
RefuseWritersOnly(w) == Flagged(w)
RefuseReader(w) == Flagged(w) \/ Count(w) = READ_COUNT_MASK

\* try_r_lock, head of the loop.
ReadCheck(t) ==
  /\ pc[t] = "r_check"
  /\ IF RefuseReader(exp[t]) THEN Failed(t, "r_load") /\ exp' = [exp EXCEPT ![t] = 0]
     ELSE pc' = [pc EXCEPT ![t] = "r_cas"] /\ UNCHANGED exp
  /\ UNCHANGED <<word, block>>

\* try_r_lock, the weak compare-exchange: it increments the word the thread
\* has seen, or fails (possibly spuriously) and reloads it.
ReadEnter(t) ==
  /\ pc[t] = "r_cas" /\ word = exp[t]
  /\ word' = exp[t] + 1
  /\ pc' = [pc EXCEPT ![t] = "reading"]
  /\ UNCHANGED <<exp, block>>

ReadReload(t) ==
  /\ pc[t] = "r_cas"
  /\ exp' = [exp EXCEPT ![t] = word]
  /\ pc' = [pc EXCEPT ![t] = "r_check"]
  /\ UNCHANGED <<word, block>>

\* The call's own variables are gone once it is over.
Return(t) == exp' = [exp EXCEPT ![t] = 0] /\ block' = [block EXCEPT ![t] = FALSE]

\* fetch_sub(1): the word wraps at its width.
ReadUnlockForgets(t) ==
  /\ pc[t] = "reading"
  /\ pc' = [pc EXCEPT ![t] = "idle"]
  /\ UNCHANGED <<word, exp, block>>
r_unlock(t) ==
  /\ pc[t] = "reading"
  /\ word' = IF word = 0 THEN 2 * WRITE_LOCK_FLAG - 1 ELSE word - 1
  /\ pc' = [pc EXCEPT ![t] = "idle"]
  /\ Return(t)

w_unlock(t) ==
  /\ pc[t] = "writing"
  /\ word' = 0
  /\ pc' = [pc EXCEPT ![t] = "idle"]
  /\ Return(t)

\* w_to_r_convert: compare-exchange of the bare flag; the caller stays a
\* writer when it fails.
w_to_r_convert(t) ==
  /\ pc[t] = "writing"
  /\ IF word = WRITE_LOCK_FLAG THEN word' = 1 /\ pc' = [pc EXCEPT ![t] = "reading"]
     ELSE UNCHANGED <<word, pc>>
  /\ UNCHANGED <<exp, block>>

\* w_to_r_convert_safe: a load ...
ConvertLoad(t) ==
  /\ pc[t] = "writing"
  /\ exp' = [exp EXCEPT ![t] = word]
  /\ pc' = [pc EXCEPT ![t] = "convert"]
  /\ UNCHANGED <<word, block>>

\* ... two checks that throw, and a plain store.
ConvertForgetsReader(t) ==
  /\ pc[t] = "convert"
  /\ word' = 0
  /\ pc' = [pc EXCEPT ![t] = "reading"]
  /\ UNCHANGED <<exp, block>>
ConvertStore(t) ==
  /\ pc[t] = "convert"
  /\ IF ~Flagged(exp[t]) \/ Count(exp[t]) # 0
     THEN pc' = [pc EXCEPT ![t] = "threw"] /\ UNCHANGED word
     ELSE word' = 1 /\ pc' = [pc EXCEPT ![t] = "reading"]
  /\ UNCHANGED <<exp, block>>

-----------------------------------------------------------------------------
Attempt(t) ==
  try_w_lock(t) \/ ReadLoad(t) \/ ReadCheck(t) \/ ReadEnter(t) \/ ReadReload(t)

Leave(t) ==
  r_unlock(t) \/ w_unlock(t) \/ w_to_r_convert(t) \/ ConvertLoad(t) \/ ConvertStore(t)

LatchNext ==
  \/ \E t \in Threads, mode \in {"w_try", "r_load"}, b \in BOOLEAN : Call(t, mode, b)
  \/ \E t \in Threads : Attempt(t) \/ Leave(t)

LatchSpec == LatchInit /\ [][LatchNext]_latchVars

\* A thread inside a call keeps running (spin_wait always comes back) and a
\* compare-exchange whose comparison holds does not fail spuriously forever.
\* Nobody is obliged to call, nor to release.
LatchFairness == \A t \in Threads : WF_latchVars(Attempt(t)) /\ SF_latchVars(ReadEnter(t))

-----------------------------------------------------------------------------
\* Types of the word (it never leaves its width) and of the threads' state.
TypeOK ==
  /\ word \in Words
  /\ pc \in [Threads -> {"idle", "w_try", "r_load", "r_check", "r_cas", "reading",
                         "writing", "convert", "threw"}]
  /\ exp \in [Threads -> Words]
  /\ block \in [Threads -> BOOLEAN]

\* "Multiple readers can acquire the latch simultaneously, but writers have
\* exclusive access": across loads, stale compare-exchanges and conversions.
MutualExclusion ==
  \A t, u \in Threads : (t \in Writing /\ u \in Writing \cup Reading) => t = u

\* The word says exactly who is inside: the bare flag for a writer, otherwise
\* the number of readers, which never spills into the flag bit.
WordExact ==
  /\ Cardinality(Reading) <= READ_COUNT_MASK
  /\ word = IF Writing # {} THEN WRITE_LOCK_FLAG ELSE Cardinality(Reading)

\* The validation of w_to_r_convert_safe never throws for a caller that holds
\* the write latch, although the word is loaded and stored in two accesses.
ConversionNeverThrows == \A t \in Threads : pc[t] # "threw"

\* The latch implements the abstract lock.
Lock == INSTANCE RWLock WITH readers <- Reading, writers <- Writing
LatchIsLock == Lock!LockSpec

\* No deadlock among the spinning threads: while some thread is blocked in
\* r_lock or w_lock, again and again some thread is inside.
LatchMovesOn ==
  (\E t \in Threads : block[t] /\ pc[t] \in {"w_try", "r_load", "r_check", "r_cas"})
    ~> Writing \cup Reading # {}
==============================================================================
