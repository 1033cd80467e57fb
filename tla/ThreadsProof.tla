---------------------------- MODULE ThreadsProof ----------------------------
(***************************************************************************)
(* Proofs about the parts that threads share.  rw_latch_t, for every       *)
(* number of threads and every word width: mutual exclusion, exactness of  *)
(* the word and the refinement of the abstract reader-writer lock.  The    *)
(* flushers, for every pool, every number of triggering threads and any    *)
(* number of starts: what stop() guarantees on return.  The prefetch       *)
(* queue, for any number of workers and callers, any set of pages and any  *)
(* capacity: the duplicate set is exact and stop leaves nothing behind.    *)
(***************************************************************************)
EXTENDS RWLatch, Flusher, Prefetch, FiniteSetTheorems, TLAPS

-----------------------------------------------------------------------------
(* The latch *)

\* What a thread knows from its last load: at the compare-exchange the loaded
\* word has room for a reader; between the load and the store of a conversion
\* it is the bare flag.
LoadsExact ==
  \A t \in Threads :
    /\ pc[t] = "r_cas" => ~RefuseReader(exp[t])
    /\ pc[t] = "convert" => exp[t] = WRITE_LOCK_FLAG

\* The inductive invariant.
IInv ==
  /\ TypeOK
  /\ MutualExclusion
  /\ WordExact
  /\ LoadsExact
  /\ ConversionNeverThrows

-----------------------------------------------------------------------------
(* Lemmas: how the two sets of holders move *)

\* The number of readers is a natural number.
LEMMA ReadingFinite == IsFiniteSet(Reading) /\ Cardinality(Reading) \in Nat
  BY LatchAssumption, FS_Subset, FS_CardinalityType DEF Reading, Holders

\* A thread that becomes a reader adds one to the count.
LEMMA EnterReading ==
  ASSUME NEW t \in Threads, TypeOK, pc[t] # "reading",
         pc' = [pc EXCEPT ![t] = "reading"]
  PROVE  /\ Reading' = Reading \cup {t}
         /\ Cardinality(Reading') = Cardinality(Reading) + 1
         /\ Writing' = Writing \ {t}
<1>1. Reading' = Reading \cup {t}
  BY DEF TypeOK, Reading, Holders
<1>2. Writing' = Writing \ {t}
  BY DEF TypeOK, Writing, Holders
<1>3. t \notin Reading
  BY DEF Reading, Holders
<1>4. QED
  BY <1>1, <1>2, <1>3, ReadingFinite, FS_AddElement

\* A reader that leaves takes one off the count.
LEMMA LeaveReading ==
  ASSUME NEW t \in Threads, TypeOK, pc[t] = "reading",
         pc' = [pc EXCEPT ![t] = "idle"]
  PROVE  /\ Reading' = Reading \ {t}
         /\ Cardinality(Reading') = Cardinality(Reading) - 1
         /\ Writing' = Writing
<1>1. Reading' = Reading \ {t}
  BY DEF TypeOK, Reading, Holders
<1>2. Writing' = Writing
  BY DEF TypeOK, Writing, Holders
<1>3. t \in Reading
  BY DEF Reading, Holders
<1>4. QED
  BY <1>1, <1>2, <1>3, ReadingFinite, FS_RemoveElement

\* A step between two places outside the latch moves neither set.
LEMMA StayOutside ==
  ASSUME NEW t \in Threads, TypeOK, NEW s,
         pc[t] \notin {"reading", "writing", "convert"},
         s \notin {"reading", "writing", "convert"},
         pc' = [pc EXCEPT ![t] = s]
  PROVE  Reading' = Reading /\ Writing' = Writing
  BY DEF TypeOK, Reading, Writing, Holders

\* A writer excludes every reader and every other writer.
LEMMA WriterAlone ==
  ASSUME NEW t \in Threads, MutualExclusion, t \in Writing
  PROVE  Reading = {} /\ Writing = {t}
<1>1. t \notin Reading
  BY DEF Reading, Writing, Holders
<1>2. Reading \subseteq Threads /\ Writing \subseteq Threads
  BY DEF Reading, Writing, Holders
<1>3. QED
  BY <1>1, <1>2 DEF MutualExclusion

\* A word without the flag leaves no writer inside, and then it is the count.
LEMMA WordCases ==
  ASSUME IInv
  PROVE  /\ Writing = {} => word = Cardinality(Reading) /\ ~Flagged(word)
         /\ Writing # {} => word = WRITE_LOCK_FLAG /\ Flagged(word)
         /\ word = 0 => Writing = {} /\ Reading = {}
<1>1. Cardinality(Reading) \in Nat /\ Cardinality(Reading) < WRITE_LOCK_FLAG
  BY ReadingFinite, LatchAssumption DEF IInv, WordExact, READ_COUNT_MASK
<1>2. Cardinality(Reading) = 0 => Reading = {}
  BY ReadingFinite, FS_EmptySet
<1>3. QED
  BY <1>1, <1>2, LatchAssumption DEF IInv, WordExact, Flagged

-----------------------------------------------------------------------------
(* The invariant is inductive *)

LEMMA InitIInv == LatchInit => IInv
<1> SUFFICES ASSUME LatchInit PROVE IInv
  OBVIOUS
<1>1. Reading = {} /\ Writing = {}
  BY DEF LatchInit, Reading, Writing, Holders
<1>2. TypeOK /\ LoadsExact /\ ConversionNeverThrows
  BY LatchAssumption DEF LatchInit, TypeOK, Words, LoadsExact, ConversionNeverThrows
<1>3. WordExact
  BY <1>1, FS_EmptySet, LatchAssumption DEF LatchInit, WordExact, READ_COUNT_MASK
<1>4. QED
  BY <1>1, <1>2, <1>3 DEF IInv, MutualExclusion

\* Steps that move no thread in or out and leave the word alone.
LEMMA OutsideStep ==
  ASSUME IInv, TypeOK', UNCHANGED word, Reading' = Reading, Writing' = Writing,
         LoadsExact', ConversionNeverThrows'
  PROVE  IInv'
  BY DEF IInv, MutualExclusion, WordExact

\* Steps after which nobody is inside.
LEMMA EmptyStep ==
  ASSUME TypeOK', word' = 0, Reading' = {}, Writing' = {},
         LoadsExact', ConversionNeverThrows'
  PROVE  IInv'
  BY FS_EmptySet, LatchAssumption DEF IInv, MutualExclusion, WordExact, READ_COUNT_MASK

\* The conversions: the only writer becomes the only reader.
LEMMA DowngradeStep ==
  ASSUME NEW t \in Threads, IInv, t \in Writing, word' = 1,
         pc' = [pc EXCEPT ![t] = "reading"], UNCHANGED <<exp, block>>
  PROVE  IInv'
<1>1. pc[t] # "reading" /\ Reading = {} /\ Writing = {t}
  BY WriterAlone DEF IInv, Writing, Holders
<1>2. Reading' = {t} /\ Writing' = {} /\ Cardinality(Reading') = 1
  <2>1. /\ Reading' = Reading \cup {t} /\ Writing' = Writing \ {t}
        /\ Cardinality(Reading') = Cardinality(Reading) + 1
    BY <1>1, EnterReading DEF IInv
  <2>2. Cardinality(Reading) = 0
    BY <1>1, FS_EmptySet
  <2>3. QED
    BY <1>1, <2>1, <2>2
<1>3. TypeOK' /\ LoadsExact' /\ ConversionNeverThrows'
  BY LatchAssumption DEF IInv, TypeOK, Words, LoadsExact, ConversionNeverThrows, RefuseReader,
     Flagged, Count, READ_COUNT_MASK
<1>4. WordExact'
  BY <1>2, LatchAssumption DEF WordExact, READ_COUNT_MASK
<1>5. QED
  BY <1>2, <1>3, <1>4 DEF IInv, MutualExclusion

LEMMA NextIInv == IInv /\ [LatchNext]_latchVars => IInv'
<1> SUFFICES ASSUME IInv, [LatchNext]_latchVars PROVE IInv'
  OBVIOUS
<1> USE LatchAssumption
<1>u. CASE UNCHANGED latchVars
  <2>1. Reading' = Reading /\ Writing' = Writing
    BY <1>u DEF latchVars, Reading, Writing, Holders
  <2>2. TypeOK' /\ LoadsExact' /\ ConversionNeverThrows'
    BY <1>u DEF IInv, latchVars, TypeOK, LoadsExact, ConversionNeverThrows, RefuseReader, Flagged,
       Count, READ_COUNT_MASK
  <2>3. QED
    BY <1>u, <2>1, <2>2, OutsideStep DEF latchVars
<1>1. ASSUME NEW t \in Threads, NEW mode \in {"w_try", "r_load"}, NEW b \in BOOLEAN,
             Call(t, mode, b)
      PROVE  IInv'
  <2>1. TypeOK' /\ LoadsExact' /\ ConversionNeverThrows'
    BY <1>1 DEF IInv, Call, TypeOK, LoadsExact, ConversionNeverThrows, RefuseReader, Flagged,
       Count, READ_COUNT_MASK
  <2>2. Reading' = Reading /\ Writing' = Writing
    BY <1>1, StayOutside DEF IInv, Call
  <2>3. QED
    BY <1>1, <2>1, <2>2, OutsideStep DEF Call
<1>2. ASSUME NEW t \in Threads, try_w_lock(t)
      PROVE  IInv'
  <2>1. TypeOK' /\ LoadsExact' /\ ConversionNeverThrows'
    BY <1>2 DEF IInv, try_w_lock, Failed, TypeOK, Words, LoadsExact, ConversionNeverThrows,
       RefuseReader, Flagged, Count, READ_COUNT_MASK
  <2>2. CASE word = 0
    <3>1. Reading = {} /\ Writing = {}
      BY <2>2, WordCases
    <3>2. Reading' = {} /\ Writing' = {t}
      BY <1>2, <2>2, <3>1 DEF try_w_lock, IInv, TypeOK, Reading, Writing, Holders
    <3>3. WordExact'
      BY <1>2, <2>2, <3>2, FS_EmptySet DEF try_w_lock, WordExact, READ_COUNT_MASK
    <3>4. QED
      BY <2>1, <3>2, <3>3 DEF IInv, MutualExclusion
  <2>3. CASE word # 0
    <3>1. Reading' = Reading /\ Writing' = Writing
      BY <1>2, <2>3, StayOutside DEF IInv, try_w_lock, Failed
    <3>2. QED
      BY <1>2, <2>1, <2>3, <3>1, OutsideStep DEF try_w_lock
  <2>4. QED
    BY <2>2, <2>3
<1>3. ASSUME NEW t \in Threads, ReadLoad(t) \/ ReadCheck(t) \/ ReadReload(t)
      PROVE  IInv'
  <2>1. TypeOK' /\ LoadsExact' /\ ConversionNeverThrows'
    BY <1>3 DEF IInv, ReadLoad, ReadCheck, ReadReload, Failed, TypeOK, Words, LoadsExact,
       ConversionNeverThrows, RefuseReader, Flagged, Count, READ_COUNT_MASK
  <2>2. Reading' = Reading /\ Writing' = Writing
    BY <1>3, StayOutside DEF IInv, ReadLoad, ReadCheck, ReadReload, Failed
  <2>3. QED
    BY <1>3, <2>1, <2>2, OutsideStep DEF ReadLoad, ReadCheck, ReadReload
<1>4. ASSUME NEW t \in Threads, ReadEnter(t)
      PROVE  IInv'
  <2>1. ~Flagged(word) /\ word # READ_COUNT_MASK
    BY <1>4 DEF IInv, LoadsExact, ReadEnter, RefuseReader, Count
  <2>2. Writing = {} /\ word = Cardinality(Reading)
    BY <2>1, WordCases
  <2>3. /\ Reading' = Reading \cup {t} /\ Writing' = {}
        /\ Cardinality(Reading') = Cardinality(Reading) + 1
    BY <1>4, <2>2, EnterReading DEF IInv, ReadEnter
  <2>4. TypeOK' /\ LoadsExact' /\ ConversionNeverThrows'
    BY <1>4, <2>1 DEF IInv, ReadEnter, TypeOK, Words, LoadsExact, ConversionNeverThrows,
       RefuseReader, Flagged, Count, READ_COUNT_MASK
  <2>5. WordExact'
    BY <1>4, <2>1, <2>2, <2>3, ReadingFinite DEF ReadEnter, WordExact, READ_COUNT_MASK, Flagged
  <2>6. QED
    BY <2>3, <2>4, <2>5 DEF IInv, MutualExclusion
<1>5. ASSUME NEW t \in Threads, r_unlock(t)
      PROVE  IInv'
  <2>1. t \in Reading /\ Writing = {}
    BY <1>5, WriterAlone DEF IInv, r_unlock, Reading, Writing, Holders
  <2>2. /\ Reading' = Reading \ {t} /\ Writing' = {}
        /\ Cardinality(Reading') = Cardinality(Reading) - 1
    BY <1>5, <2>1, LeaveReading DEF IInv, r_unlock
  <2>3. word = Cardinality(Reading) /\ word # 0 /\ word \in Nat
    BY <2>1, WordCases, ReadingFinite
  <2>4. TypeOK' /\ LoadsExact' /\ ConversionNeverThrows'
    BY <1>5, <2>3 DEF IInv, r_unlock, Return, TypeOK, Words, LoadsExact, ConversionNeverThrows,
       RefuseReader, Flagged, Count, READ_COUNT_MASK
  <2>5. WordExact'
    BY <1>5, <2>2, <2>3 DEF IInv, r_unlock, WordExact, READ_COUNT_MASK
  <2>6. QED
    BY <2>2, <2>4, <2>5 DEF IInv, MutualExclusion
<1>6. ASSUME NEW t \in Threads, w_unlock(t)
      PROVE  IInv'
  <2>1. Reading = {} /\ Writing = {t}
    BY <1>6, WriterAlone DEF IInv, w_unlock, Writing, Holders
  <2>2. Reading' = {} /\ Writing' = {}
    BY <1>6, <2>1 DEF IInv, w_unlock, TypeOK, Reading, Writing, Holders
  <2>3. TypeOK' /\ LoadsExact' /\ ConversionNeverThrows'
    BY <1>6 DEF IInv, w_unlock, Return, TypeOK, Words, LoadsExact, ConversionNeverThrows,
       RefuseReader, Flagged, Count, READ_COUNT_MASK
  <2>4. QED
    BY <1>6, <2>2, <2>3, EmptyStep DEF w_unlock
<1>7. ASSUME NEW t \in Threads, w_to_r_convert(t)
      PROVE  IInv'
  <2>1. t \in Writing
    BY <1>7 DEF w_to_r_convert, Writing, Holders
  <2>2. word = WRITE_LOCK_FLAG
    BY <2>1, WordCases
  <2>3. QED
    BY <1>7, <2>1, <2>2, DowngradeStep DEF w_to_r_convert
<1>8. ASSUME NEW t \in Threads, ConvertLoad(t)
      PROVE  IInv'
  <2>1. t \in Writing
    BY <1>8 DEF ConvertLoad, Writing, Holders
  <2>2. word = WRITE_LOCK_FLAG
    BY <2>1, WordCases
  <2>3. TypeOK' /\ LoadsExact' /\ ConversionNeverThrows'
    BY <1>8, <2>2 DEF IInv, ConvertLoad, TypeOK, LoadsExact, ConversionNeverThrows,
       RefuseReader, Flagged, Count, READ_COUNT_MASK
  <2>4. Reading' = Reading /\ Writing' = Writing
    BY <1>8 DEF IInv, ConvertLoad, TypeOK, Reading, Writing, Holders
  <2>5. QED
    BY <1>8, <2>3, <2>4, OutsideStep DEF ConvertLoad
<1>9. ASSUME NEW t \in Threads, ConvertStore(t)
      PROVE  IInv'
  <2>1. t \in Writing
    BY <1>9 DEF ConvertStore, Writing, Holders
  <2>2. Flagged(exp[t]) /\ Count(exp[t]) = 0
    BY <1>9 DEF IInv, LoadsExact, ConvertStore, Flagged, Count
  <2>3. QED
    BY <1>9, <2>1, <2>2, DowngradeStep DEF ConvertStore
<1>10. QED
  BY <1>u, <1>1, <1>2, <1>3, <1>4, <1>5, <1>6, <1>7, <1>8, <1>9 DEF LatchNext, Attempt, Leave

-----------------------------------------------------------------------------
(* Theorems *)

\* The inductive invariant holds in every reachable state of the latch: the
\* word, the threads inside and what each thread last loaded agree.
THEOREM LatchInvariant == LatchSpec => []IInv
  BY InitIInv, NextIInv, PTL DEF LatchSpec

\* The word stays within its width and every thread within the protocol.
THEOREM LatchTypeOK == LatchSpec => []TypeOK
<1>1. IInv => TypeOK
  BY DEF IInv
<1>2. QED
  BY LatchInvariant, <1>1, PTL

\* A writer of rw_latch_t excludes every other thread, for any number of
\* threads and any width of the word.
THEOREM LatchMutualExclusion == LatchSpec => []MutualExclusion
<1>1. IInv => MutualExclusion
  BY DEF IInv
<1>2. QED
  BY LatchInvariant, <1>1, PTL

\* The word always encodes exactly the threads that are inside; in particular
\* the reader count never overflows into the flag.
THEOREM LatchWordExact == LatchSpec => []WordExact
<1>1. IInv => WordExact
  BY DEF IInv
<1>2. QED
  BY LatchInvariant, <1>1, PTL

\* w_to_r_convert_safe never throws for a thread that holds the write latch.
THEOREM LatchConversionNeverThrows == LatchSpec => []ConversionNeverThrows
<1>1. IInv => ConversionNeverThrows
  BY DEF IInv
<1>2. QED
  BY LatchInvariant, <1>1, PTL

\* Every step of the latch is a step of the abstract lock or leaves it alone:
\* a stale compare-exchange never admits a reader beside a writer, and a
\* conversion never opens the latch in between.
LEMMA NextRefines ==
  ASSUME IInv, [LatchNext]_latchVars
  PROVE  [Lock!LockNext]_(Lock!lockVars)
<1> USE DEF Lock!lockVars
<1>u. CASE UNCHANGED latchVars
  BY <1>u DEF latchVars, Reading, Writing, Holders
<1>1. ASSUME NEW t \in Threads, NEW mode \in {"w_try", "r_load"}, NEW b \in BOOLEAN,
             Call(t, mode, b)
      PROVE  UNCHANGED <<Reading, Writing>>
  BY <1>1, StayOutside DEF IInv, Call
<1>2. ASSUME NEW t \in Threads, ReadLoad(t) \/ ReadCheck(t) \/ ReadReload(t)
      PROVE  UNCHANGED <<Reading, Writing>>
  BY <1>2, StayOutside DEF IInv, ReadLoad, ReadCheck, ReadReload, Failed
<1>3. ASSUME NEW t \in Threads, try_w_lock(t)
      PROVE  UNCHANGED <<Reading, Writing>> \/ Lock!AcquireWrite(t)
  <2>1. CASE word # 0
    BY <1>3, <2>1, StayOutside DEF IInv, try_w_lock, Failed
  <2>2. CASE word = 0
    <3>1. Reading = {} /\ Writing = {}
      BY <2>2, WordCases
    <3>2. Reading' = {} /\ Writing' = {t}
      BY <1>3, <2>2, <3>1 DEF try_w_lock, IInv, TypeOK, Reading, Writing, Holders
    <3>3. QED
      BY <3>1, <3>2 DEF Lock!AcquireWrite
  <2>3. QED
    BY <2>1, <2>2
<1>4. ASSUME NEW t \in Threads, ReadEnter(t)
      PROVE  Lock!AcquireRead(t)
  <2>1. Writing = {}
    BY <1>4, WordCases DEF IInv, LoadsExact, ReadEnter, RefuseReader
  <2>2. t \notin Reading /\ pc[t] # "reading"
    BY <1>4 DEF ReadEnter, Reading, Holders
  <2>3. Reading' = Reading \cup {t} /\ Writing' = Writing \ {t}
    BY <1>4, <2>2, EnterReading DEF IInv, ReadEnter
  <2>4. QED
    BY <2>1, <2>2, <2>3 DEF Lock!AcquireRead
<1>5. ASSUME NEW t \in Threads, r_unlock(t)
      PROVE  Lock!ReleaseRead(t)
  <2>1. t \in Reading
    BY <1>5 DEF r_unlock, Reading, Holders
  <2>2. QED
    BY <1>5, <2>1, LeaveReading DEF IInv, r_unlock, Lock!ReleaseRead
<1>6. ASSUME NEW t \in Threads, w_unlock(t)
      PROVE  Lock!ReleaseWrite(t)
  <2>1. Reading = {} /\ Writing = {t}
    BY <1>6, WriterAlone DEF IInv, w_unlock, Writing, Holders
  <2>2. Reading' = {} /\ Writing' = {}
    BY <1>6, <2>1 DEF IInv, w_unlock, TypeOK, Reading, Writing, Holders
  <2>3. QED
    BY <2>1, <2>2 DEF Lock!ReleaseWrite
<1>7. ASSUME NEW t \in Threads, ConvertLoad(t)
      PROVE  UNCHANGED <<Reading, Writing>>
  BY <1>7 DEF IInv, ConvertLoad, TypeOK, Reading, Writing, Holders
<1>8. ASSUME NEW t \in Threads, w_to_r_convert(t) \/ ConvertStore(t)
      PROVE  Lock!Downgrade(t)
  <2>1. t \in Writing /\ pc[t] # "reading"
    BY <1>8 DEF w_to_r_convert, ConvertStore, Writing, Holders
  <2>2. Writing = {t} /\ word = WRITE_LOCK_FLAG
    BY <2>1, WriterAlone, WordCases DEF IInv
  <2>3. pc[t] = "convert" => Flagged(exp[t]) /\ Count(exp[t]) = 0
    BY LatchAssumption DEF IInv, LoadsExact, Flagged, Count
  <2>4. pc' = [pc EXCEPT ![t] = "reading"]
    BY <1>8, <2>2, <2>3 DEF w_to_r_convert, ConvertStore
  <2>5. Reading' = Reading \cup {t} /\ Writing' = Writing \ {t}
    BY <2>1, <2>4, EnterReading DEF IInv
  <2>6. QED
    BY <2>1, <2>2, <2>5 DEF Lock!Downgrade
<1>9. QED
  BY <1>u, <1>1, <1>2, <1>3, <1>4, <1>5, <1>6, <1>7, <1>8
  DEF LatchNext, Attempt, Leave, Lock!LockNext

\* rw_latch_t implements the abstract reader-writer lock.
THEOREM LatchRefinesLock == LatchSpec => LatchIsLock
<1>1. LatchInit => Lock!LockInit
  BY DEF LatchInit, Lock!LockInit, Reading, Writing, Holders
<1>2. IInv /\ [LatchNext]_latchVars => [Lock!LockNext]_(Lock!lockVars)
  BY NextRefines
<1>3. QED
  BY <1>1, <1>2, LatchInvariant, PTL DEF LatchSpec, LatchIsLock, Lock!LockSpec

-----------------------------------------------------------------------------
(* Flushers *)

FlusherTyped ==
  /\ thread \in {"none", "check", "sleep", "woken", "scan", "exited"}
  /\ owner \in {"off", "starting", "on", "notify", "join", "final"}
  /\ scan \in [Scanners -> SUBSET PoolPages]
  /\ dirty \in SUBSET PoolPages /\ busy \in SUBSET PoolPages /\ touched \in SUBSET PoolPages
  /\ starts \in Nat

\* The thread exists exactly while it is started and not yet joined, and only
\* its scanning phase has pages in hand.
ThreadOwned ==
  /\ owner \in {"off", "starting", "final"} <=> thread = "none"
  /\ thread # "scan" => scan["loop"] = {}

\* A page in use counts as touched since the last stop().
UsersTouch == busy \subseteq touched

\* While stop() flushes, a page is clean, touched or still to be flushed.
FinalScanCovers == owner = "final" => dirty \subseteq touched \cup scan["stop"]

\* The inductive invariant.
FInv == FlusherTyped /\ ThreadOwned /\ UsersTouch /\ FinalScanCovers /\ StopFlushesQuietPages

-----------------------------------------------------------------------------
LEMMA FlusherStart == FlusherInit => FInv
  BY DEF FlusherInit, FInv, FlusherTyped, ThreadOwned, UsersTouch, FinalScanCovers, StopFlushesQuietPages,
         Scanners

\* Starting, stopping and joining.
LEMMA OwnerSteps ==
  ASSUME FInv, Start \/ FlusherStop \/ OwnerStep
  PROVE  FInv'
<1> USE DEF FInv, FlusherTyped, ThreadOwned, UsersTouch, FinalScanCovers, StopFlushesQuietPages,
            Scanners, users, flags
<1>1. CASE Start
  BY <1>1 DEF Start
<1>2. CASE FlusherStop
  BY <1>2 DEF FlusherStop
<1>3. CASE FlusherStopNotify
  BY <1>3 DEF FlusherStopNotify, Notify
<1>4. CASE FlusherStopJoin
  BY <1>4 DEF FlusherStopJoin, Joined, DirtyPages
<1>5. CASE StopReturn
  BY <1>5 DEF StopReturn
<1>6. CASE StartThread
  BY <1>6 DEF StartThread
<1> QED
  BY <1>1, <1>2, <1>3, <1>4, <1>5, <1>6 DEF OwnerStep

\* The loop and those who wake it.
LEMMA ThreadSteps ==
  ASSUME FInv, LoopStep \/ LoopTimeout \/ \E t \in Triggers : Trigger(t) \/ TriggerStep(t)
  PROVE  FInv'
<1> USE DEF FInv, FlusherTyped, ThreadOwned, UsersTouch, FinalScanCovers, StopFlushesQuietPages,
            Scanners, users, flags
<1>1. CASE LoopSleep
  BY <1>1 DEF LoopSleep
<1>2. CASE LoopAwake \/ LoopTimeout
  BY <1>2 DEF LoopAwake, LoopTimeout, Proceed, DirtyPages
<1>3. CASE LoopAgain
  BY <1>3 DEF LoopAgain
<1>4. ASSUME NEW t \in Triggers, Trigger(t) \/ TriggerStep(t)
      PROVE  FInv'
  BY <1>4 DEF Trigger, TriggerStep, TriggerSet, TriggerNotify, Notify
<1> QED
  BY <1>1, <1>2, <1>3, <1>4 DEF LoopStep

\* Flushing pages and using them.
LEMMA PageSteps ==
  ASSUME FInv, Flushing \/ FlushAll \/ \E p \in PoolPages : Latch(p) \/ Unlatch(p)
  PROVE  FInv'
<1> USE DEF FInv, FlusherTyped, ThreadOwned, UsersTouch, FinalScanCovers, StopFlushesQuietPages,
            Scanners, users, flags
<1>1. ASSUME NEW s \in Scanners, NEW p \in PoolPages, FlushOne(s, p)
      PROVE  FInv'
  BY <1>1 DEF FlushOne
<1>2. CASE FlushAllReturn
  BY <1>2 DEF FlushAllReturn
<1>3. CASE FlushAll
  BY <1>3 DEF FlushAll, DirtyPages
<1>4. ASSUME NEW p \in PoolPages, Latch(p) \/ Unlatch(p)
      PROVE  FInv'
  BY <1>4 DEF Latch, Unlatch
<1> QED
  BY <1>1, <1>2, <1>3, <1>4 DEF Flushing

-----------------------------------------------------------------------------
\* Every reachable state of a flusher satisfies the inductive invariant.
THEOREM FlusherInvariant == FlusherSpec => []FInv
<1>1. FInv /\ UNCHANGED flusherVars => FInv'
  BY DEF FInv, FlusherTyped, ThreadOwned, UsersTouch, FinalScanCovers, StopFlushesQuietPages, flusherVars
<1>2. FInv /\ [FlusherNext]_flusherVars => FInv'
  BY <1>1, OwnerSteps, ThreadSteps, PageSteps DEF FlusherNext
<1> QED
  BY FlusherStart, <1>2, PTL DEF FlusherSpec

\* Once stop() has joined the thread, no background scan touches a page, so the
\* pool and the disk manager may be destroyed.
THEOREM FlusherNoScanAfterStop == FlusherSpec => []NoScanAfterStop
<1>1. FInv => NoScanAfterStop
  BY DEF FInv, ThreadOwned, NoScanAfterStop
<1> QED
  BY <1>1, FlusherInvariant, PTL

\* When stop() returns, every page nobody latched since it was called is clean:
\* the final scan leaves out only pages in use.
THEOREM FlusherStopFlushesQuietPages == FlusherSpec => []StopFlushesQuietPages
<1>1. FInv => StopFlushesQuietPages
  BY DEF FInv
<1> QED
  BY <1>1, FlusherInvariant, PTL

-----------------------------------------------------------------------------
(* Prefetch queue *)

PrefetchTyped ==
  /\ queue \in Seq(Pages)
  /\ queued \in SUBSET Pages /\ IsFiniteSet(queued)
  /\ active \in Nat
  /\ stopping \in BOOLEAN
  /\ worker \in [Workers -> {"none", "check", "sleep", "load", "exited"}]
  /\ job \in [Workers -> Pages \cup {NoPage}]
  /\ stopper \in {"idle", "notify", "join", "done"}

\* A page is in hand once: at one place of the queue or with one worker.
InHandOnce ==
  /\ \A i, j \in 1..Len(queue) : queue[i] = queue[j] => i = j
  /\ \A i \in 1..Len(queue), w \in Loading : queue[i] # job[w]
  /\ \A w, x \in Loading : job[w] = job[x] => w = x

\* A worker leaves, and stop proceeds, only after the flag is set; a worker
\* leaves an empty queue, which the flag keeps empty.
StopFlagged ==
  /\ \A w \in Workers : worker[w] = "exited" => stopping /\ queue = <<>>
  /\ stopper # "idle" => stopping

\* The inductive invariant.
PInv == PrefetchTyped /\ InHandOnce /\ StopFlagged /\ QueueExact /\ StopIsFinal

-----------------------------------------------------------------------------
(* Lemmas: the pages in the queue and the loading workers *)

\* Appending a page adds it to the pages of the queue.
LEMMA RangeOfAppend ==
  ASSUME NEW q \in Seq(Pages), NEW p \in Pages
  PROVE  Range(Append(q, p)) = Range(q) \cup {p}
<1>1. Range(Append(q, p)) = {Append(q, p)[i] : i \in 1..(Len(q) + 1)}
  BY DEF Range
<1>2. \A i \in 1..Len(q) : Append(q, p)[i] = q[i]
  OBVIOUS
<1>3. Append(q, p)[Len(q) + 1] = p
  OBVIOUS
<1>4. 1..(Len(q) + 1) = (1..Len(q)) \cup {Len(q) + 1}
  BY Len(q) \in Nat
<1>5. Range(q) = {q[i] : i \in 1..Len(q)}
  BY DEF Range
<1> QED
  BY <1>1, <1>2, <1>3, <1>4, <1>5

\* The pages of a queue are its head and those of its tail.
LEMMA RangeOfTail ==
  ASSUME NEW q \in Seq(Pages), q # <<>>
  PROVE  Range(q) = Range(Tail(q)) \cup {Head(q)}
<1>1. Range(q) = {q[i] : i \in 1..Len(q)} /\ Len(q) \in Nat \ {0}
  BY DEF Range
<1>2. Range(Tail(q)) = {Tail(q)[i] : i \in 1..(Len(q) - 1)}
  <2>1. DOMAIN Tail(q) = 1..(Len(q) - 1)
    BY <1>1
  <2> QED
    BY <2>1, Zenon DEF Range
<1>3. \A i \in 1..(Len(q) - 1) : Tail(q)[i] = q[i + 1]
  BY <1>1
<1>4. Head(q) = q[1]
  BY <1>1
<1>5. \A i \in 1..Len(q) : i = 1 \/ (i - 1 \in 1..(Len(q) - 1) /\ q[i] = Tail(q)[i - 1])
  BY <1>1, <1>3
<1>6. \A i \in 1..(Len(q) - 1) : i + 1 \in 1..Len(q)
  BY <1>1
<1>7. ASSUME NEW x PROVE x \in Range(q) => x \in Range(Tail(q)) \cup {Head(q)}
  BY <1>1, <1>2, <1>4, <1>5
<1>8. ASSUME NEW x PROVE x \in Range(Tail(q)) \cup {Head(q)} => x \in Range(q)
  BY <1>1, <1>2, <1>3, <1>4, <1>6
<1> QED
  BY <1>7, <1>8

\* Workers are finite in number, so the loading ones can be counted.
LEMMA LoadingFinite == IsFiniteSet(Loading) /\ Cardinality(Loading) \in Nat
  BY PrefetchAssumption, FS_Subset, FS_CardinalityType DEF Loading

-----------------------------------------------------------------------------
LEMMA PrefetchStart == PrefetchInit => PInv
<1> SUFFICES ASSUME PrefetchInit PROVE PInv
  OBVIOUS
<1>1. Loading = {} /\ Range(queue) = {} /\ Len(queue) = 0
  BY DEF PrefetchInit, Loading, Range
<1>2. QueueExact
  BY <1>1, FS_EmptySet DEF PrefetchInit, QueueExact
<1> QED
  <2>1. PrefetchTyped
    <3>1. <<>> \in Seq(Pages) /\ IsFiniteSet({})
      BY FS_EmptySet
    <3>2. queue = <<>> /\ queued = {} /\ stopping = FALSE
      BY DEF PrefetchInit
    <3> QED
      BY <3>1, <3>2 DEF PrefetchInit, PrefetchTyped
  <2>2. InHandOnce
    BY <1>1 DEF InHandOnce
  <2> QED
    BY <1>2, <2>1, <2>2 DEF PrefetchInit, PInv, StopFlagged, StopIsFinal

\* A step that leaves queue, duplicate set, counter and loading workers alone.
LEMMA QuietStep ==
  ASSUME PInv, UNCHANGED <<queue, queued, active, job>>, Loading' = Loading
  PROVE  QueueExact' /\ InHandOnce'
  BY DEF PInv, QueueExact, InHandOnce

\* The caller's steps: workers started, a request accepted, a worker woken.
LEMMA CallerSteps ==
  ASSUME PInv,
         \/ ensure_prefetch_workers
         \/ \E c \in Callers : NotifyOne(c) \/ \E p \in Pages : buf_page_prefetch(c, p)
         \/ \E p \in Pages : Elsewhere(p)
  PROVE  PInv'
<1> USE DEF PInv, PrefetchTyped
<1>1. CASE ensure_prefetch_workers
  <2>1. Loading' = Loading
    BY <1>1 DEF ensure_prefetch_workers, Started, Loading
  <2>2. QueueExact' /\ InHandOnce'
    BY <1>1, <2>1, QuietStep DEF ensure_prefetch_workers
  <2>3. StopIsFinal' /\ StopFlagged'
    BY <1>1 DEF ensure_prefetch_workers, StopIsFinal, StopFlagged
  <2> QED
    BY <1>1, <2>2, <2>3 DEF ensure_prefetch_workers
<1>2. ASSUME NEW c \in Callers, NotifyOne(c)
      PROVE  PInv'
  <2>1. Loading' = Loading
    BY <1>2 DEF NotifyOne, Sleeping, Loading
  <2>2. QueueExact' /\ InHandOnce'
    BY <1>2, <2>1, QuietStep DEF NotifyOne
  <2>3. StopIsFinal' /\ StopFlagged'
    BY <1>2 DEF NotifyOne, StopIsFinal, StopFlagged, Sleeping
  <2> QED
    BY <1>2, <2>2, <2>3 DEF NotifyOne, Sleeping
<1>3. ASSUME NEW c \in Callers, NEW p \in Pages, buf_page_prefetch(c, p)
      PROVE  PInv'
  <2> USE DEF buf_page_prefetch, Accepts
  <2>1. Loading' = Loading /\ job' = job
    BY <1>3 DEF Loading
  <2>2. Range(queue') = Range(queue) \cup {p}
    BY <1>3, RangeOfAppend
  <2>3. Len(queue') = Len(queue) + 1
    BY <1>3
  <2>4. IsFiniteSet(queued') /\ Cardinality(queued') = Cardinality(queued) + 1
    BY <1>3, FS_AddElement
  <2>5. Cardinality(queued) \in Nat /\ Cardinality(Loading) \in Nat /\ Len(queue) \in Nat
    BY LoadingFinite, FS_CardinalityType
  <2>6. QueueExact'
    BY <1>3, <2>1, <2>2, <2>3, <2>4, <2>5 DEF QueueExact
  <2>7. \A i \in 1..Len(queue) : queue'[i] = queue[i] /\ queue[i] \in queued
    BY <1>3 DEF QueueExact, Range
  <2>8. queue'[Len(queue) + 1] = p /\ \A w \in Loading : job[w] # p
    BY <1>3 DEF QueueExact
  <2>9. InHandOnce'
    BY <1>3, <2>1, <2>3, <2>5, <2>7, <2>8 DEF InHandOnce
  <2>10. StopIsFinal' /\ StopFlagged'
    BY <1>3 DEF StopIsFinal, StopFlagged
  <2> QED
    BY <1>3, <2>4, <2>6, <2>9, <2>10
<1>4. ASSUME NEW p \in Pages, Elsewhere(p)
      PROVE  PInv'
  BY <1>4 DEF Elsewhere, QueueExact, InHandOnce, StopIsFinal, StopFlagged, Loading
<1> QED
  BY <1>1, <1>2, <1>3, <1>4

\* The worker's steps: sleep, leave, take a request, settle it.
LEMMA WorkerSteps ==
  ASSUME PInv, NEW w \in Workers, WorkerStep(w)
  PROVE  PInv'
<1> USE DEF PInv, PrefetchTyped
<1>1. CASE WorkerSleep(w) \/ WorkerExit(w)
  <2> USE DEF WorkerSleep, WorkerExit
  <2>1. Loading' = Loading
    BY <1>1 DEF Loading
  <2>2. QueueExact' /\ InHandOnce'
    BY <1>1, <2>1, QuietStep
  <2>3. StopIsFinal' /\ StopFlagged'
    BY <1>1 DEF StopIsFinal, StopFlagged
  <2> QED
    BY <1>1, <2>2, <2>3
<1>2. CASE WorkerTake(w)
  <2> USE DEF WorkerTake
  <2>1. Loading' = Loading \cup {w} /\ w \notin Loading
    BY <1>2 DEF Loading
  <2>2. Cardinality(Loading') = Cardinality(Loading) + 1
    BY <2>1, LoadingFinite, FS_AddElement
  <2>3. Range(queue) = Range(queue') \cup {Head(queue)}
    BY <1>2, RangeOfTail
  <2>4. Len(queue) \in Nat \ {0} /\ Len(queue') = Len(queue) - 1 /\ queue' \in Seq(Pages)
    BY <1>2
  <2>5. job'[w] = Head(queue) /\ Head(queue) \in Pages /\ \A x \in Loading : job'[x] = job[x]
    BY <1>2, <2>1, <2>4 DEF Loading
  <2>6. {job'[x] : x \in Loading'} = {job[x] : x \in Loading} \cup {Head(queue)}
    BY <2>1, <2>5
  <2>7. QueueExact'
    <3>1. queued' = Range(queue') \cup {job'[x] : x \in Loading'}
      BY <1>2, <2>3, <2>6 DEF QueueExact
    <3>2. Cardinality(queued') = Cardinality(queued) /\ active' = active + 1
      BY <1>2
    <3> QED
      BY <2>2, <2>4, <3>1, <3>2, LoadingFinite DEF QueueExact
  <2>8. /\ \A i \in 1..Len(queue') : queue'[i] = queue[i + 1] /\ i + 1 \in 1..Len(queue)
        /\ Head(queue) = queue[1] /\ 1 \in 1..Len(queue)
    BY <1>2, <2>4
  <2>9. \A i, j \in 1..Len(queue') : queue'[i] = queue'[j] => i = j
    <3> TAKE i, j \in 1..Len(queue')
    <3>1. queue'[i] = queue[i + 1] /\ queue'[j] = queue[j + 1] /\ i + 1 \in 1..Len(queue) /\ j + 1 \in 1..Len(queue)
      BY <2>8
    <3>2. queue[i + 1] = queue[j + 1] => i + 1 = j + 1
      BY <3>1 DEF InHandOnce
    <3> QED
      BY <3>1, <3>2
  <2>10. \A i \in 1..Len(queue'), x \in Loading' : queue'[i] # job'[x]
    BY <2>1, <2>4, <2>5, <2>8 DEF InHandOnce
  <2>11. \A x, y \in Loading' : job'[x] = job'[y] => x = y
    BY <2>1, <2>5, <2>8 DEF InHandOnce
  <2>12. StopIsFinal' /\ StopFlagged'
    BY <1>2 DEF StopIsFinal, StopFlagged
  <2> QED
    BY <1>2, <2>4, <2>5, <2>7, <2>9, <2>10, <2>11, <2>12 DEF InHandOnce
<1>3. CASE WorkerDone(w)
  <2> USE DEF WorkerDone
  <2>1. Loading' = Loading \ {w} /\ w \in Loading
    BY <1>3 DEF Loading
  <2>2. Cardinality(Loading') = Cardinality(Loading) - 1
    BY <2>1, LoadingFinite, FS_RemoveElement
  <2>3. \A x \in Loading' : job'[x] = job[x] /\ x \in Loading /\ job[x] # job[w]
    BY <1>3, <2>1 DEF InHandOnce, Loading
  <2>4. job[w] \in queued /\ job[w] \notin Range(queue)
    BY <2>1 DEF QueueExact, InHandOnce, Range
  <2>5. IsFiniteSet(queued') /\ Cardinality(queued') = Cardinality(queued) - 1
    BY <1>3, <2>4, FS_RemoveElement
  <2>6. queued' = Range(queue') \cup {job'[x] : x \in Loading'}
    BY <1>3, <2>1, <2>3, <2>4 DEF QueueExact
  <2>7. /\ Cardinality(Loading) \in Nat /\ Cardinality(Loading') \in Nat
        /\ Cardinality(queued) \in Nat /\ Len(queue) \in Nat
    BY <2>1, LoadingFinite, FS_RemoveElement, FS_CardinalityType
  <2>8. QueueExact' /\ active' \in Nat
    <3>1. Len(queue') = Len(queue) /\ active' = active - 1
      BY <1>3
    <3> QED
      BY <2>2, <2>5, <2>6, <2>7, <3>1 DEF QueueExact
  <2>9. InHandOnce'
    BY <1>3, <2>1, <2>3 DEF InHandOnce
  <2>10. StopIsFinal' /\ StopFlagged'
    BY <1>3 DEF StopIsFinal, StopFlagged
  <2> QED
    BY <1>3, <2>5, <2>8, <2>9, <2>10
<1> QED
  BY <1>1, <1>2, <1>3 DEF WorkerStep

\* The steps of stop_prefetch_workers and of an idle wait.
LEMMA StopSteps ==
  ASSUME PInv, Stop \/ StopNotify \/ StopJoin \/ \E w \in Waiters : WaitBegin(w) \/ WaitCheck(w)
  PROVE  PInv'
<1> USE DEF PInv, PrefetchTyped
<1>1. CASE Stop
  <2>1. Loading' = Loading /\ job' = job /\ active' = active
    BY <1>1 DEF Stop, Loading
  <2>2. CASE Started
    <3>1. QueueExact' /\ InHandOnce'
      BY <1>1, <2>1, <2>2, QuietStep DEF Stop
    <3>2. StopIsFinal' /\ StopFlagged'
      BY <1>1, <2>2 DEF Stop, StopIsFinal, StopFlagged
    <3> QED
      BY <1>1, <2>2, <3>1, <3>2 DEF Stop
  <2>3. CASE ~Started
    <3>1. Loading = {} /\ \A w \in Workers : worker[w] = "none"
      BY <2>3 DEF Started, Loading
    <3>2. queue' = <<>> /\ queued' = {} /\ Len(queue') = 0 /\ Range(queue') = {}
      BY <1>1, <2>3 DEF Stop, Range
    <3>3. QueueExact' /\ InHandOnce'
      BY <2>1, <3>1, <3>2, FS_EmptySet DEF QueueExact, InHandOnce
    <3>4. StopIsFinal' /\ StopFlagged'
      BY <1>1, <2>3, <3>1, <3>2 DEF Stop, StopIsFinal, StopFlagged
    <3> QED
      BY <1>1, <2>3, <3>2, <3>3, <3>4, FS_EmptySet DEF Stop
  <2> QED
    BY <2>2, <2>3
<1>2. CASE StopNotify
  <2>1. Loading' = Loading
    BY <1>2 DEF StopNotify, Loading
  <2>2. QueueExact' /\ InHandOnce'
    BY <1>2, <2>1, QuietStep DEF StopNotify
  <2>3. StopIsFinal' /\ StopFlagged'
    BY <1>2 DEF StopNotify, StopIsFinal, StopFlagged
  <2> QED
    BY <1>2, <2>2, <2>3 DEF StopNotify
<1>3. CASE StopJoin
  <2>1. Loading' = Loading /\ Loading = {}
    BY <1>3 DEF StopJoin, AllJoined, Loading
  <2>2. queue = <<>>
    BY <1>3, PrefetchAssumption DEF StopJoin, AllJoined, StopFlagged
  <2>3. queued = {}
    BY <2>1, <2>2 DEF QueueExact, Range
  <2>4. QueueExact' /\ InHandOnce'
    BY <1>3, <2>1, QuietStep DEF StopJoin
  <2>5. StopIsFinal' /\ StopFlagged'
    BY <1>3, <2>2, <2>3 DEF StopJoin, AllJoined, StopIsFinal, StopFlagged
  <2> QED
    BY <1>3, <2>4, <2>5 DEF StopJoin
<1>4. ASSUME NEW w \in Waiters, WaitBegin(w) \/ WaitCheck(w)
      PROVE  PInv'
  <2>1. QueueExact' /\ InHandOnce'
    BY <1>4, QuietStep DEF WaitBegin, WaitCheck, Loading
  <2>2. StopIsFinal' /\ StopFlagged'
    BY <1>4 DEF WaitBegin, WaitCheck, StopIsFinal, StopFlagged
  <2> QED
    BY <1>4, <2>1, <2>2 DEF WaitBegin, WaitCheck
<1> QED
  BY <1>1, <1>2, <1>3, <1>4

-----------------------------------------------------------------------------
\* Every reachable state of the prefetch queue satisfies the invariant.
THEOREM PrefetchInvariant == PrefetchSpec => []PInv
<1>1. PInv /\ UNCHANGED prefetchVars => PInv'
  BY DEF PInv, PrefetchTyped, QueueExact, InHandOnce, StopIsFinal, StopFlagged, Loading, prefetchVars
<1>2. PInv /\ [PrefetchNext]_prefetchVars => PInv'
  BY <1>1, CallerSteps, WorkerSteps, StopSteps DEF PrefetchNext
<1> QED
  BY PrefetchStart, <1>2, PTL DEF PrefetchSpec

\* The duplicate set is exactly what is queued or being loaded, each page once,
\* and prefetch_active_count_ is the number of loading workers, in every
\* interleaving of requests, loads and stop.
THEOREM PrefetchQueueExact == PrefetchSpec => []QueueExact
<1>1. PInv => QueueExact
  BY DEF PInv
<1> QED
  BY <1>1, PrefetchInvariant, PTL

\* When stop_prefetch_workers returns, no worker runs and no accepted request
\* is left behind.
THEOREM PrefetchStopIsFinal == PrefetchSpec => []StopIsFinal
<1>1. PInv => StopIsFinal
  BY DEF PInv
<1> QED
  BY <1>1, PrefetchInvariant, PTL
=============================================================================
