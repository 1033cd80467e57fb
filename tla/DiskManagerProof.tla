------------------------- MODULE DiskManagerProof -------------------------
(***************************************************************************)
(* Proof that the disk manager hands out no page number twice and loses no *)
(* page it wrote, for any number of threads, pages and restarts.           *)
(***************************************************************************)
EXTENDS DiskManager, SequenceTheorems, WellFoundedInduction, TLAPS

DiskTypeOK ==
  /\ data \in SUBSET Nat /\ size \in Nat /\ capacity \in Nat /\ global \in Nat /\ valid \in Nat
  /\ free \in Seq(Nat) /\ todo \in SUBSET (0 .. BuildPages - 1)
  /\ owned \in SUBSET Nat /\ written \in SUBSET Nat /\ failed \in SUBSET Nat /\ given \in BOOLEAN
  /\ call \in [Threads -> [at : {"idle", "write", "global", "valid"}, page : Nat, cur : Nat]]
  /\ failures \in Nat /\ restarts \in Nat

\* What was written lies in the file.
FileCovers == \A p \in data : p < size

\* Free page numbers are distinct, not in use and counted; there are none
\* before the builder has started all its writes.
FreeApart ==
  /\ \A i \in 1 .. Len(free) : free[i] \notin owned /\ free[i] < global
  /\ \A i, j \in 1 .. Len(free) : free[i] = free[j] => i = j
  /\ todo # {} => free = <<>>

\* A page in use is counted, unless it is the builder's and its writer has yet
\* to raise the counter.
OwnedCounted ==
  \A p \in owned : \/ p < global
                   \/ p < BuildPages /\ \E t \in Threads : call[t].at \in {"write", "global"} /\ call[t].page = p

\* A write in progress is for a page in use within the capacity; the counter
\* it loaded has not fallen since.
WritesSound ==
  \A t \in Threads :
    /\ call[t].at # "idle" => call[t].page \in owned /\ call[t].page < capacity
    /\ call[t].at \in {"global", "valid"} => call[t].page \in data
    /\ call[t].at = "global" => call[t].cur <= global
    /\ call[t].at = "valid" => call[t].cur <= valid /\ call[t].page < global

WrittenKept ==
  \A p \in written : p \in owned /\ p \in data /\ p < capacity /\ p < valid /\ p < global

\* A page whose last write failed is in the file from an earlier one.
FailedKept == failed \subseteq data

\* The inductive invariant, as long as no first write of a page failed.
DiskInv ==
  /\ DiskTypeOK /\ given = FALSE
  /\ FileCovers /\ FreeApart /\ OwnedCounted /\ WritesSound /\ WrittenKept /\ FailedKept

-----------------------------------------------------------------------------
\* A set of page numbers below a bound has a greatest one, where the backward
\* scan of the constructor stops.
LEMMA LastPage ==
  ASSUME NEW n \in Nat, NEW S \in SUBSET (0 .. n - 1), S # {}
  PROVE  \E m \in 1 .. n : m - 1 \in S /\ \A p \in S : p < m
<1> DEFINE R == OpToRel(<, Nat)
           T == {n - p : p \in S}
<1>1. R = {ss \in Nat \X Nat : ss[1] < ss[2]}
  BY DEF OpToRel
<1>2. IsWellFoundedOn(R, Nat)
  BY NatLessThanWellFounded
<1>3. T \subseteq Nat /\ T # {}
  OBVIOUS
<1> HIDE DEF R, T
<1>4. PICK x \in T : \A y \in T : ~(<<y, x>> \in R)
  BY <1>2, <1>3, WFMin, Zenon
<1>5. \A y \in T : x <= y
  <2> TAKE y \in T
  <2>1. x \in Nat /\ y \in Nat
    BY <1>3
  <2>2. y < x => <<y, x>> \in R
    BY <1>1, <2>1
  <2> QED
    BY <1>4, <2>1, <2>2
<1>6. PICK q \in S : x = n - q
  BY DEF T
<1>7. \A p \in S : n - q <= n - p
  BY <1>5, <1>6 DEF T
<1> QED
  BY <1>7

LEMMA DiskStart == DiskInit => DiskInv
<1> SUFFICES ASSUME DiskInit PROVE DiskInv
  OBVIOUS
<1>1. DiskTypeOK
  <2>1. call \in [Threads -> [at : {"idle", "write", "global", "valid"}, page : Nat, cur : Nat]]
    BY DEF DiskInit, Idle
  <2>2. free \in Seq(Nat) /\ todo \in SUBSET (0 .. BuildPages - 1)
    BY DEF DiskInit
  <2>3. /\ data \in SUBSET Nat /\ size \in Nat /\ capacity \in Nat /\ global \in Nat /\ valid \in Nat
        /\ owned \in SUBSET Nat /\ written \in SUBSET Nat /\ failed \in SUBSET Nat
        /\ failures \in Nat /\ restarts \in Nat
    BY DiskAssumption DEF DiskInit
  <2>4. given \in BOOLEAN
    BY DEF DiskInit
  <2> QED
    BY <2>1, <2>2, <2>3, <2>4 DEF DiskTypeOK
<1>2. FreeApart
  BY DEF DiskInit, FreeApart
<1>3. WritesSound
  BY DEF DiskInit, WritesSound, Idle
<1> QED
  BY <1>1, <1>2, <1>3 DEF DiskInit, DiskInv, FileCovers, OwnedCounted, WrittenKept, FailedKept

\* Once the build is over, every page in use is counted.
LEMMA BuiltCounted ==
  ASSUME DiskInv, ~Building
  PROVE  \A p \in owned : p < global
  BY DEF DiskInv, OwnedCounted, Building

\* The section under the latch that takes a page number from the free list.
LEMMA AllocateFreeStep ==
  ASSUME DiskInv, NEW t \in Threads, AllocateFree(t)
  PROVE  DiskInv'
<1> DEFINE n == Len(free)
<1>1. free \in Seq(Nat) /\ free # <<>> /\ n \in Nat /\ 1 <= n
  BY DEF DiskInv, DiskTypeOK, AllocateFree
<1>2. /\ free' \in Seq(Nat) /\ Len(free') = n - 1
      /\ \A i \in 1 .. n - 1 : free'[i] = free[i]
  <2>1. free' = SubSeq(free, 1, n - 1)
    BY DEF AllocateFree, Front
  <2>2. \A i \in 1 .. n - 1 : free[i] \in Nat
    BY <1>1
  <2>3. /\ SubSeq(free, 1, n - 1) \in Seq(Nat)
        /\ Len(SubSeq(free, 1, n - 1)) = IF 1 <= n - 1 THEN (n - 1) - 1 + 1 ELSE 0
        /\ \A i \in 1 .. (n - 1) - 1 + 1 : SubSeq(free, 1, n - 1)[i] = free[1 + i - 1]
    BY <1>1, <2>2, SubSeqProperties
  <2>4. Len(SubSeq(free, 1, n - 1)) = n - 1
    <3>1. CASE n = 1
      BY <2>3, <3>1
    <3>2. CASE n > 1
      <4>1. 1 <= n - 1 /\ (n - 1) - 1 + 1 = n - 1
        BY <1>1, <3>2
      <4>2. Len(SubSeq(free, 1, n - 1)) = (n - 1) - 1 + 1
        BY <2>3, <4>1
      <4> QED
        BY <4>1, <4>2
    <3>3. \A k \in Nat : 1 <= k => k = 1 \/ k > 1
      OBVIOUS
    <3> QED
      BY <1>1, <3>1, <3>2, <3>3, Zenon
  <2>5. \A i \in 1 .. n - 1 : SubSeq(free, 1, n - 1)[i] = free[i]
    <3> TAKE i \in 1 .. n - 1
    <3>1. i \in 1 .. (n - 1) - 1 + 1 /\ 1 + i - 1 = i
      BY <1>1
    <3>2. SubSeq(free, 1, n - 1)[i] = free[1 + i - 1]
      BY <2>3, <3>1
    <3> QED
      BY <3>1, <3>2
  <2> QED
    BY <2>1, <2>3, <2>4, <2>5, Zenon
<1>3. free[n] \in Nat /\ free[n] \notin owned /\ free[n] < global /\ todo = {}
  BY <1>1 DEF DiskInv, FreeApart
<1>4. owned' = owned \cup {free[n]} /\ given' = FALSE
  <2>1. Last(free) = free[n]
    BY DEF Last
  <2>2. owned' = owned \cup {Last(free)} /\ given' = (Last(free) \in owned)
    BY DEF AllocateFree
  <2>3. owned' = owned \cup {free[n]}
    BY <2>1, <2>2, Zenon
  <2>4. ~given'
    BY <1>3, <2>1, <2>2
  <2>5. given' \in BOOLEAN
    BY <2>2
  <2> QED
    BY <2>3, <2>4, <2>5
<1>5. UNCHANGED <<data, size, capacity, global, valid, todo, written, failed, call, failures, restarts>>
  BY DEF AllocateFree
<1>6. FreeApart'
  <2>1. \A i \in 1 .. n - 1 : free[i] # free[n] /\ free[i] \notin owned /\ free[i] < global
    BY <1>1 DEF DiskInv, FreeApart
  <2>2. \A i, j \in 1 .. n - 1 : free[i] = free[j] => i = j
    BY <1>1 DEF DiskInv, FreeApart
  <2> QED
    BY <1>1, <1>2, <1>3, <1>4, <1>5, <2>1, <2>2 DEF FreeApart
<1>7. DiskTypeOK'
  BY <1>2, <1>3, <1>4, <1>5 DEF DiskInv, DiskTypeOK
<1> QED
  BY <1>3, <1>4, <1>5, <1>6, <1>7 DEF DiskInv, FileCovers, OwnedCounted, WritesSound, WrittenKept, FailedKept

\* A page number from the end of the file; the capacity may shrink, but not
\* below a page that is counted.
LEMMA AllocateEndStep ==
  ASSUME DiskInv, NEW t \in Threads, AllocateEnd(t)
  PROVE  DiskInv'
<1>1. \A p \in owned : p < global
  BY BuiltCounted DEF AllocateEnd
<1>2. capacity \in Nat /\ global \in Nat
  BY DEF DiskInv, DiskTypeOK
<1>3. /\ capacity' \in Nat /\ global' = global + 1 /\ owned' = owned \cup {global} /\ given' = FALSE
      /\ \A p \in owned : p < capacity => p < capacity'
  BY <1>1, <1>2 DEF AllocateEnd, Grown, DiskInv, DiskTypeOK
<1>4. UNCHANGED <<data, size, valid, free, todo, written, failed, call, failures, restarts>> /\ free = <<>>
  BY DEF AllocateEnd
<1>5. DiskTypeOK' /\ FileCovers' /\ FreeApart'
  <2>1. DiskTypeOK'
    <3>1. owned' \in SUBSET Nat /\ global' \in Nat
      BY <1>2, <1>3 DEF DiskInv, DiskTypeOK
    <3>2. given' \in BOOLEAN
      BY <1>3
    <3> QED
      BY <1>3, <1>4, <3>1, <3>2 DEF DiskInv, DiskTypeOK
  <2>2. FileCovers'
    BY <1>4 DEF DiskInv, FileCovers
  <2>3. FreeApart'
    <3>1. free' = <<>> /\ Len(free') = 0
      BY <1>4
    <3> QED
      BY <3>1 DEF FreeApart
  <2> QED
    BY <2>1, <2>2, <2>3
<1>6. OwnedCounted'
  BY <1>1, <1>2, <1>3, <1>4 DEF DiskInv, DiskTypeOK, OwnedCounted
<1>7. WritesSound'
  <2>1. \A u \in Threads : call[u].page \in Nat /\ call[u].cur \in Nat
    BY DEF DiskInv, DiskTypeOK
  <2> QED
    BY <1>2, <1>3, <1>4, <2>1 DEF DiskInv, WritesSound
<1>8. WrittenKept'
  BY <1>2, <1>3, <1>4 DEF DiskInv, DiskTypeOK, WrittenKept
<1> QED
  BY <1>3, <1>4, <1>5, <1>6, <1>7, <1>8 DEF DiskInv, FailedKept

\* A deleted page number goes to the free list, or nowhere.
LEMMA DeleteStep ==
  ASSUME DiskInv, NEW t \in Threads, NEW p \in DiskPages, delete_page(t, p)
  PROVE  DiskInv'
<1> DEFINE n == Len(free)
<1>1. p \in owned /\ p \in Nat /\ p < global /\ todo = {} /\ \A q \in owned : q < global
  BY BuiltCounted DEF delete_page, Building, DiskInv, DiskTypeOK
<1>2. UNCHANGED <<data, size, capacity, global, valid, todo, given, call, failures, restarts>>
  BY DEF delete_page
<1>3. owned' = owned \ {p} /\ written' = written \ {p} /\ failed' = failed \ {p}
  BY DEF delete_page
<1>4. FreeApart' /\ free' \in Seq(Nat)
  <2>1. /\ free \in Seq(Nat) /\ n \in Nat
        /\ \A i \in 1 .. n : free[i] # p /\ free[i] \notin owned' /\ free[i] < global
        /\ \A i, j \in 1 .. n : free[i] = free[j] => i = j
    BY <1>1, <1>3 DEF DiskInv, DiskTypeOK, FreeApart
  <2>2. CASE p < capacity
    <3>1. free' = Append(free, p)
      BY <2>2 DEF delete_page
    <3>2. /\ free' \in Seq(Nat) /\ Len(free') = n + 1 /\ free'[n + 1] = p
          /\ \A i \in 1 .. n : free'[i] = free[i]
      BY <1>1, <2>1, <3>1
    <3>3. \A i \in 1 .. n + 1 : i \in 1 .. n \/ i = n + 1
      BY <2>1
    <3>4. p \notin owned' /\ p < global /\ global' = global /\ todo' = {}
      BY <1>1, <1>2, <1>3
    <3>5. \A i \in 1 .. n + 1 : free'[i] \notin owned' /\ free'[i] < global'
      BY <2>1, <3>2, <3>3, <3>4
    <3>6. ASSUME NEW i \in 1 .. n + 1, NEW j \in 1 .. n + 1, free'[i] = free'[j]
          PROVE  i = j
      <4>1. CASE i \in 1 .. n /\ j \in 1 .. n
        BY <2>1, <3>2, <3>6, <4>1
      <4>2. CASE i = n + 1 /\ j \in 1 .. n
        BY <2>1, <3>2, <3>6, <4>2
      <4>3. CASE i \in 1 .. n /\ j = n + 1
        BY <2>1, <3>2, <3>6, <4>3
      <4> QED
        BY <3>3, <4>1, <4>2, <4>3
    <3> HIDE DEF n
    <3> QED
      BY <3>2, <3>4, <3>5, <3>6 DEF FreeApart
  <2>3. CASE ~(p < capacity)
    <3>1. free' = free
      BY <2>3 DEF delete_page
    <3> QED
      BY <1>1, <1>2, <2>1, <3>1 DEF FreeApart
  <2> QED
    BY <2>2, <2>3
<1>5. WritesSound'
  BY <1>2, <1>3 DEF delete_page, DiskInv, WritesSound
<1> QED
  BY <1>1, <1>2, <1>3, <1>4, <1>5 DEF DiskInv, DiskTypeOK, FileCovers, OwnedCounted, WrittenKept, FailedKept

\* The start of a write, which extends the capacity to the page.
LEMMA ExtendStep ==
  ASSUME DiskInv, NEW t \in Threads, NEW p \in DiskPages, Extend(t, p)
  PROVE  DiskInv'
<1>1. UNCHANGED <<data, global, valid, free, written, failed, given, failures, restarts>>
  BY DEF Extend
<1>2. p \in Nat /\ p < MaxPages /\ capacity \in Nat /\ size \in Nat
  BY DiskAssumption DEF DiskPages, DiskInv, DiskTypeOK
<1>3. capacity' \in Nat /\ capacity <= capacity' /\ p < capacity' /\ size' \in Nat /\ size <= size'
  BY <1>2 DEF Extend
<1>4. call' = [call EXCEPT ![t] = [at |-> "write", page |-> p, cur |-> 0]]
  BY DEF Extend, Goto
<1>5. /\ call' \in [Threads -> [at : {"idle", "write", "global", "valid"}, page : Nat, cur : Nat]]
      /\ call'[t] = [at |-> "write", page |-> p, cur |-> 0] /\ call[t].at = "idle"
      /\ \A u \in Threads \ {t} : call'[u] = call[u]
  BY <1>2, <1>4 DEF DiskInv, DiskTypeOK, Extend, Idle
<1>6. /\ todo' \subseteq todo /\ owned' = owned \cup {p} /\ (p \in owned \/ (todo # {} /\ p < BuildPages))
      /\ p \notin owned => \A i \in 1 .. Len(free) : FALSE
  <2>1. CASE p \in todo /\ todo' = todo \ {p} /\ owned' = owned \cup {p}
    <3>1. todo # {} /\ p < BuildPages /\ free = <<>>
      BY <2>1, <1>2, DiskAssumption DEF DiskInv, DiskTypeOK, FreeApart
    <3> QED
      BY <2>1, <3>1
  <2>2. CASE p \in owned /\ todo' = todo /\ owned' = owned
    BY <2>2
  <2>3. \/ p \in todo /\ todo' = todo \ {p} /\ owned' = owned \cup {p}
        \/ p \in owned /\ todo' = todo /\ owned' = owned
    BY DEF Extend
  <2> QED
    BY <2>1, <2>2, <2>3
<1>7. FreeApart'
  BY <1>1, <1>6 DEF DiskInv, FreeApart
<1>8. OwnedCounted'
  <2>1. ASSUME NEW q \in owned, ~(q < global)
        PROVE  q < BuildPages /\ \E u \in Threads : call'[u].at \in {"write", "global"} /\ call'[u].page = q
    <3>1. PICK u \in Threads : q < BuildPages /\ call[u].at \in {"write", "global"} /\ call[u].page = q
      BY <2>1 DEF DiskInv, OwnedCounted
    <3> QED
      BY <1>5, <3>1
  <2> QED
    BY <1>1, <1>5, <1>6, <2>1 DEF OwnedCounted
<1>9. WritesSound'
  <2> SUFFICES ASSUME NEW u \in Threads
               PROVE  /\ call'[u].at # "idle" => call'[u].page \in owned' /\ call'[u].page < capacity'
                      /\ call'[u].at \in {"global", "valid"} => call'[u].page \in data'
                      /\ call'[u].at = "global" => call'[u].cur <= global'
                      /\ call'[u].at = "valid" => call'[u].cur <= valid' /\ call'[u].page < global'
    BY DEF WritesSound
  <2>1. CASE u = t
    BY <1>3, <1>5, <1>6, <2>1
  <2>2. CASE u # t
    <3>1. call'[u] = call[u] /\ call[u].page \in Nat
      BY <1>5, <2>2 DEF DiskInv, DiskTypeOK
    <3> QED
      BY <1>1, <1>2, <1>3, <1>6, <3>1 DEF DiskInv, WritesSound
  <2> QED
    BY <2>1, <2>2
<1>10. DiskTypeOK' /\ FileCovers' /\ WrittenKept'
  <2>1. DiskTypeOK'
    BY <1>1, <1>2, <1>3, <1>5, <1>6 DEF DiskInv, DiskTypeOK
  <2>2. FileCovers'
    BY <1>1, <1>2, <1>3 DEF DiskInv, DiskTypeOK, FileCovers
  <2>3. WrittenKept'
    BY <1>1, <1>2, <1>3, <1>6 DEF DiskInv, DiskTypeOK, WrittenKept
  <2> QED
    BY <2>1, <2>2, <2>3
<1> QED
  BY <1>1, <1>7, <1>8, <1>9, <1>10 DEF DiskInv, FailedKept

\* The transfer to the file.
LEMMA WriteStep ==
  ASSUME DiskInv, NEW t \in Threads, Write(t)
  PROVE  DiskInv'
<1> DEFINE p == call[t].page
<1>1. /\ UNCHANGED <<capacity, global, valid, free, todo, owned, written, failed, given, failures, restarts>>
      /\ p \in Nat /\ size \in Nat /\ global \in Nat /\ data' = data \cup {p} /\ call[t].at = "write"
  BY DEF Write, DiskInv, DiskTypeOK
<1>2. size' \in Nat /\ size <= size' /\ p < size'
  BY <1>1 DEF Write
<1>3. /\ call' \in [Threads -> [at : {"idle", "write", "global", "valid"}, page : Nat, cur : Nat]]
      /\ call'[t] = [at |-> "global", page |-> p, cur |-> global]
      /\ \A u \in Threads \ {t} : call'[u] = call[u]
  BY <1>1 DEF Write, Goto, DiskInv, DiskTypeOK
<1>4. DiskTypeOK' /\ FileCovers'
  <2>1. DiskTypeOK'
    BY <1>1, <1>2, <1>3 DEF DiskInv, DiskTypeOK
  <2>2. FileCovers'
    BY <1>1, <1>2 DEF DiskInv, DiskTypeOK, FileCovers
  <2> QED
    BY <2>1, <2>2
<1>5. OwnedCounted'
  <2>1. \A u \in Threads : call[u].at \in {"write", "global"} =>
          call'[u].at \in {"write", "global"} /\ call'[u].page = call[u].page
    BY <1>1, <1>3
  <2> QED
    BY <1>1, <2>1 DEF DiskInv, OwnedCounted
<1>6. WritesSound'
  <2>1. p \in owned /\ p < capacity
    BY <1>1 DEF DiskInv, WritesSound
  <2> SUFFICES ASSUME NEW u \in Threads
               PROVE  /\ call'[u].at # "idle" => call'[u].page \in owned' /\ call'[u].page < capacity'
                      /\ call'[u].at \in {"global", "valid"} => call'[u].page \in data'
                      /\ call'[u].at = "global" => call'[u].cur <= global'
                      /\ call'[u].at = "valid" => call'[u].cur <= valid' /\ call'[u].page < global'
    BY DEF WritesSound
  <2>2. CASE u = t
    BY <1>1, <1>3, <2>1, <2>2
  <2>3. CASE u # t
    BY <1>1, <1>3, <2>3 DEF DiskInv, WritesSound
  <2> QED
    BY <2>2, <2>3
<1>7. FreeApart' /\ WrittenKept'
  BY <1>1 DEF DiskInv, FreeApart, WrittenKept
<1> QED
  BY <1>1, <1>4, <1>5, <1>6, <1>7 DEF DiskInv, FailedKept

\* One turn of the loop over a counter never lowers it, and the loop is left
\* only when the counter covers the page.
LEMMA RaiseCovers ==
  ASSUME NEW counter \in Nat, NEW c, c.page \in Nat, c.cur \in Nat, c.cur <= counter
  PROVE  /\ Raise(counter, c) \in Nat /\ counter <= Raise(counter, c)
         /\ Raise(counter, c) # counter \/ c.cur >= c.page + 1 => c.page < Raise(counter, c)
  BY DEF Raise

\* The loop that raises global_page_count_.
LEMMA BumpGlobalStep ==
  ASSUME DiskInv, NEW t \in Threads, BumpGlobal(t)
  PROVE  DiskInv'
<1> DEFINE p == call[t].page
           done == Raise(global, call[t]) # global \/ call[t].cur >= p + 1
<1>1. /\ UNCHANGED <<data, size, capacity, valid, free, todo, owned, written, failed, given, failures, restarts>>
      /\ call[t].at = "global" /\ p \in Nat /\ global \in Nat /\ valid \in Nat
  BY DEF BumpGlobal, DiskInv, DiskTypeOK
<1>2. /\ Raise(global, call[t]) \in Nat /\ global <= Raise(global, call[t])
      /\ done => p < Raise(global, call[t])
  <2>1. call[t].cur \in Nat /\ call[t].cur <= global
    BY <1>1 DEF DiskInv, DiskTypeOK, WritesSound
  <2> QED
    BY <1>1, <2>1, RaiseCovers
<1>3. /\ global' \in Nat /\ global <= global'
      /\ \/ p < global' /\ call' = [call EXCEPT ![t] = [at |-> "valid", page |-> p, cur |-> valid]]
         \/ call' = [call EXCEPT ![t] = [at |-> "global", page |-> p, cur |-> global]]
  BY <1>1, <1>2 DEF BumpGlobal, Goto
<1>4. /\ call' \in [Threads -> [at : {"idle", "write", "global", "valid"}, page : Nat, cur : Nat]]
      /\ \/ p < global' /\ call'[t] = [at |-> "valid", page |-> p, cur |-> valid]
         \/ call'[t] = [at |-> "global", page |-> p, cur |-> global]
      /\ \A u \in Threads \ {t} : call'[u] = call[u]
  <2>1. CASE p < global' /\ call' = [call EXCEPT ![t] = [at |-> "valid", page |-> p, cur |-> valid]]
    BY <1>1, <2>1 DEF DiskInv, DiskTypeOK
  <2>2. CASE call' = [call EXCEPT ![t] = [at |-> "global", page |-> p, cur |-> global]]
    BY <1>1, <2>2 DEF DiskInv, DiskTypeOK
  <2> QED
    BY <1>3, <2>1, <2>2
<1>5. OwnedCounted'
  <2> SUFFICES ASSUME NEW q \in owned, ~(q < global')
               PROVE  q < BuildPages /\ \E u \in Threads : call'[u].at \in {"write", "global"} /\ call'[u].page = q
    BY <1>1 DEF OwnedCounted
  <2>1. q \in Nat /\ ~(q < global)
    BY <1>1, <1>3 DEF DiskInv, DiskTypeOK
  <2>2. PICK u \in Threads : q < BuildPages /\ call[u].at \in {"write", "global"} /\ call[u].page = q
    BY <2>1 DEF DiskInv, OwnedCounted
  <2> QED
    BY <1>4, <2>2
<1>6. WritesSound'
  <2>1. p \in owned /\ p < capacity /\ p \in data
    BY <1>1 DEF DiskInv, WritesSound
  <2> SUFFICES ASSUME NEW u \in Threads
               PROVE  /\ call'[u].at # "idle" => call'[u].page \in owned' /\ call'[u].page < capacity'
                      /\ call'[u].at \in {"global", "valid"} => call'[u].page \in data'
                      /\ call'[u].at = "global" => call'[u].cur <= global'
                      /\ call'[u].at = "valid" => call'[u].cur <= valid' /\ call'[u].page < global'
    BY DEF WritesSound
  <2>2. CASE u = t
    BY <1>1, <1>3, <1>4, <2>1, <2>2
  <2>3. CASE u # t
    <3>1. call'[u] = call[u] /\ call[u].page \in Nat /\ call[u].cur \in Nat
      BY <1>4, <2>3 DEF DiskInv, DiskTypeOK
    <3> QED
      BY <1>1, <1>3, <3>1 DEF DiskInv, WritesSound
  <2> QED
    BY <2>2, <2>3
<1>7. DiskTypeOK'
  BY <1>1, <1>3, <1>4 DEF DiskInv, DiskTypeOK
<1>8. FreeApart'
  <2>1. \A i \in 1 .. Len(free) : free[i] \in Nat
    BY DEF DiskInv, DiskTypeOK
  <2> QED
    BY <1>1, <1>3, <2>1 DEF DiskInv, FreeApart
<1>9. FileCovers' /\ WrittenKept'
  BY <1>1, <1>3 DEF DiskInv, DiskTypeOK, FileCovers, WrittenKept
<1> QED
  BY <1>1, <1>5, <1>6, <1>7, <1>8, <1>9 DEF DiskInv, FailedKept

\* The loop that raises valid_page_count_; leaving it ends the write.
LEMMA BumpValidStep ==
  ASSUME DiskInv, NEW t \in Threads, BumpValid(t)
  PROVE  DiskInv'
<1> DEFINE p == call[t].page
           done == Raise(valid, call[t]) # valid \/ call[t].cur >= p + 1
<1>1. /\ UNCHANGED <<data, size, capacity, global, free, todo, owned, given, failures, restarts>>
      /\ call[t].at = "valid" /\ p \in Nat /\ global \in Nat /\ valid \in Nat
  BY DEF BumpValid, DiskInv, DiskTypeOK
<1>2. /\ Raise(valid, call[t]) \in Nat /\ valid <= Raise(valid, call[t])
      /\ done => p < Raise(valid, call[t])
  <2>1. call[t].cur \in Nat /\ call[t].cur <= valid
    BY <1>1 DEF DiskInv, DiskTypeOK, WritesSound
  <2> QED
    BY <1>1, <2>1, RaiseCovers
<1>3. /\ valid' \in Nat /\ valid <= valid'
      /\ \/ /\ p < valid' /\ written' = written \cup {p}
            /\ call' = [call EXCEPT ![t] = Idle]
         \/ /\ written' = written
            /\ call' = [call EXCEPT ![t] = [at |-> "valid", page |-> p, cur |-> valid]]
  BY <1>1, <1>2 DEF BumpValid, Goto
<1>4. /\ call' \in [Threads -> [at : {"idle", "write", "global", "valid"}, page : Nat, cur : Nat]]
      /\ call'[t].at = "idle" \/ call'[t] = [at |-> "valid", page |-> p, cur |-> valid]
      /\ \A u \in Threads \ {t} : call'[u] = call[u]
  <2>1. CASE call' = [call EXCEPT ![t] = Idle]
    BY <1>1, <2>1 DEF DiskInv, DiskTypeOK, Idle
  <2>2. CASE call' = [call EXCEPT ![t] = [at |-> "valid", page |-> p, cur |-> valid]]
    BY <1>1, <2>2 DEF DiskInv, DiskTypeOK
  <2> QED
    BY <1>3, <2>1, <2>2
<1>5. OwnedCounted'
  <2>1. \A u \in Threads : call[u].at \in {"write", "global"} => call'[u] = call[u]
    BY <1>1, <1>4
  <2> QED
    BY <1>1, <2>1 DEF DiskInv, OwnedCounted
<1>6. p \in owned /\ p < capacity /\ p \in data /\ p < global
  BY <1>1 DEF DiskInv, WritesSound
<1>7. WritesSound'
  <2> SUFFICES ASSUME NEW u \in Threads
               PROVE  /\ call'[u].at # "idle" => call'[u].page \in owned' /\ call'[u].page < capacity'
                      /\ call'[u].at \in {"global", "valid"} => call'[u].page \in data'
                      /\ call'[u].at = "global" => call'[u].cur <= global'
                      /\ call'[u].at = "valid" => call'[u].cur <= valid' /\ call'[u].page < global'
    BY DEF WritesSound
  <2>1. CASE u = t
    BY <1>1, <1>3, <1>4, <1>6, <2>1
  <2>2. CASE u # t
    <3>1. call'[u] = call[u] /\ call[u].page \in Nat /\ call[u].cur \in Nat
      BY <1>4, <2>2 DEF DiskInv, DiskTypeOK
    <3> QED
      BY <1>1, <1>3, <3>1 DEF DiskInv, WritesSound
  <2> QED
    BY <2>1, <2>2
<1>8. WrittenKept' /\ written' \in SUBSET Nat
  <2>1. \A q \in written : q \in Nat /\ q < valid'
    BY <1>1, <1>3 DEF DiskInv, DiskTypeOK, WrittenKept
  <2>2. written' \subseteq written \cup {p} /\ (p \in written' => p < valid')
    BY <1>3, <2>1
  <2> QED
    BY <1>1, <1>6, <2>1, <2>2 DEF DiskInv, WrittenKept
<1>9. failed' \subseteq failed
  BY DEF BumpValid
<1>10. DiskTypeOK'
  BY <1>1, <1>3, <1>4, <1>8, <1>9 DEF DiskInv, DiskTypeOK
<1> QED
  BY <1>1, <1>5, <1>7, <1>8, <1>9, <1>10 DEF DiskInv, FileCovers, FreeApart, FailedKept

\* A failed write of a page that the file has and the counter covers.
LEMMA WriteFailsStep ==
  ASSUME DiskInv, NEW t \in Threads, WriteFails(t), ~missed'
  PROVE  DiskInv'
<1> DEFINE p == call[t].page
<1>1. /\ UNCHANGED <<capacity, global, valid, free, todo, owned, given, restarts>>
      /\ p \in Nat /\ size \in Nat /\ global \in Nat /\ call[t].at = "write" /\ failures' \in Nat
      /\ written' = written \ {p} /\ failed' = failed \cup {p}
  BY DEF WriteFails, DiskInv, DiskTypeOK
<1>2. p \in data /\ p < global
  <2>1. missed' = (missed \/ p \notin data \/ global <= p)
    BY DEF WriteFails
  <2>2. p \in data /\ ~(global <= p)
    BY <2>1
  <2> QED
    BY <1>1, <2>2
<1>3. data' = data /\ size' = size
  <2>1. p < size
    BY <1>2 DEF DiskInv, FileCovers
  <2> QED
    BY <1>2, <2>1 DEF WriteFails
<1>4. /\ call' \in [Threads -> [at : {"idle", "write", "global", "valid"}, page : Nat, cur : Nat]]
      /\ call'[t].at = "idle"
      /\ \A u \in Threads \ {t} : call'[u] = call[u]
  BY DEF WriteFails, Idle, DiskInv, DiskTypeOK
<1>5. DiskTypeOK' /\ FileCovers' /\ WrittenKept' /\ FreeApart' /\ FailedKept'
  <2>1. DiskTypeOK'
    BY <1>1, <1>3, <1>4 DEF DiskInv, DiskTypeOK
  <2>2. FileCovers' /\ WrittenKept' /\ FreeApart' /\ FailedKept'
    BY <1>1, <1>2, <1>3 DEF DiskInv, FileCovers, WrittenKept, FreeApart, FailedKept
  <2> QED
    BY <2>1, <2>2
<1>6. OwnedCounted'
  <2>1. \A u \in Threads : call[u].page # p => call'[u] = call[u]
    BY <1>4
  <2> QED
    BY <1>1, <1>2, <2>1 DEF DiskInv, OwnedCounted
<1>7. WritesSound'
  <2> SUFFICES ASSUME NEW u \in Threads, u # t
               PROVE  /\ call'[u].at # "idle" => call'[u].page \in owned' /\ call'[u].page < capacity'
                      /\ call'[u].at \in {"global", "valid"} => call'[u].page \in data'
                      /\ call'[u].at = "global" => call'[u].cur <= global'
                      /\ call'[u].at = "valid" => call'[u].cur <= valid' /\ call'[u].page < global'
    BY <1>4 DEF WritesSound
  <2> QED
    BY <1>1, <1>3, <1>4 DEF DiskInv, WritesSound
<1> QED
  BY <1>1, <1>5, <1>6, <1>7 DEF DiskInv

\* Opening the database again: the scan finds a count above every page of the
\* file, although the free list and the counters were not saved.
LEMMA ReopenStep ==
  ASSUME DiskInv, Reopen
  PROVE  DiskInv'
<1>1. /\ UNCHANGED <<data, size, todo, owned, written, failed, given, call, failures>>
      /\ free' = <<>> /\ written \cup failed = owned /\ \A t \in Threads : call[t] = Idle
      /\ capacity' = (IF size = 0 THEN DefaultCapacity ELSE size)
      /\ valid' = CountFound(capacity') /\ global' = valid' /\ restarts' = restarts + 1
  BY DEF Reopen
<1>2. size \in Nat /\ data \in SUBSET (0 .. size - 1) /\ owned \subseteq data
  BY <1>1 DEF DiskInv, DiskTypeOK, FileCovers, WrittenKept, FailedKept
<1>3. capacity' \in Nat
  BY <1>1, <1>2, DiskAssumption
<1>4. valid' \in Nat /\ \A q \in data : q < valid' /\ q < capacity'
  <2>1. CASE data = {}
    BY <1>1, <2>1 DEF CountFound
  <2>2. CASE data # {}
    <3>0. size # 0
      <4>1. PICK q \in data : TRUE
        BY <2>2
      <4> QED
        BY <1>2, <4>1
    <3>1. size # 0 /\ capacity' = size
      BY <1>1, <3>0
    <3>2. \E n \in 1 .. size : n - 1 \in data /\ \A q \in data : q < n
      BY <1>2, <2>2, LastPage
    <3>3. valid' = CHOOSE n \in 1 .. size : n - 1 \in data /\ \A q \in data : q < n
      BY <1>1, <1>2, <2>2, <3>1 DEF CountFound
    <3>4. valid' \in 1 .. size /\ \A q \in data : q < valid'
      BY <3>2, <3>3
    <3> QED
      BY <1>2, <3>1, <3>4
  <2> QED
    BY <2>1, <2>2
<1>5. FreeApart'
  <2>1. free' = <<>> /\ Len(free') = 0
    BY <1>1
  <2> QED
    BY <2>1 DEF FreeApart
<1>6. DiskTypeOK'
  <2>1. free' \in Seq(Nat) /\ restarts' \in Nat /\ global' \in Nat
    BY <1>1, <1>4 DEF DiskInv, DiskTypeOK
  <2> QED
    BY <1>1, <1>3, <1>4, <2>1 DEF DiskInv, DiskTypeOK
<1>7. WritesSound'
  BY <1>1 DEF WritesSound, Idle
<1>8. OwnedCounted' /\ WrittenKept' /\ FileCovers'
  BY <1>1, <1>2, <1>4 DEF DiskInv, OwnedCounted, WrittenKept, FileCovers
<1> QED
  BY <1>1, <1>5, <1>6, <1>7, <1>8 DEF DiskInv, FailedKept

-----------------------------------------------------------------------------
\* No step takes back that a first write failed.
LEMMA MissedStays == [DiskNext]_diskVars /\ ~missed' => ~missed
<1> SUFFICES ASSUME [DiskNext]_diskVars, ~missed' PROVE ~missed
  OBVIOUS
<1>1. CASE \E t \in Threads : WriteFails(t)
  BY <1>1, Zenon DEF WriteFails
<1>2. CASE UNCHANGED missed
  BY <1>2
<1> QED
  BY <1>1, <1>2
  DEF DiskNext, diskVars, AllocateFree, AllocateEnd, delete_page, Extend, Write, BumpGlobal, BumpValid, Reopen

LEMMA DiskInvStep == DiskInv /\ [DiskNext]_diskVars /\ ~missed' => DiskInv'
<1> SUFFICES ASSUME DiskInv, [DiskNext]_diskVars, ~missed' PROVE DiskInv'
  OBVIOUS
<1>1. CASE \E t \in Threads : AllocateFree(t)
  BY <1>1, AllocateFreeStep
<1>2. CASE \E t \in Threads : AllocateEnd(t)
  BY <1>2, AllocateEndStep
<1>3. CASE \E t \in Threads : Write(t)
  BY <1>3, WriteStep
<1>4. CASE \E t \in Threads : BumpGlobal(t)
  BY <1>4, BumpGlobalStep
<1>5. CASE \E t \in Threads : BumpValid(t)
  BY <1>5, BumpValidStep
<1>6. CASE \E t \in Threads, p \in DiskPages : delete_page(t, p)
  BY <1>6, DeleteStep
<1>7. CASE \E t \in Threads, p \in DiskPages : Extend(t, p)
  BY <1>7, ExtendStep
<1>8. CASE Reopen
  BY <1>8, ReopenStep
<1>9. CASE UNCHANGED diskVars
  BY <1>9 DEF diskVars, DiskInv, DiskTypeOK, FileCovers, FreeApart, OwnedCounted, WritesSound, WrittenKept, FailedKept
<1>10. CASE \E t \in Threads : WriteFails(t)
  BY <1>10, WriteFailsStep
<1> QED
  BY <1>1, <1>2, <1>3, <1>4, <1>5, <1>6, <1>7, <1>8, <1>9, <1>10 DEF DiskNext

LEMMA DiskInvSound == DiskInv => DiskSound
<1> SUFFICES ASSUME DiskInv PROVE DiskSound
  OBVIOUS
<1>1. PagesOwnedOnce
  <2>1. Range(free) \cap owned = {}
    BY DEF DiskInv, DiskTypeOK, FreeApart, Range
  <2> QED
    BY <2>1 DEF PagesOwnedOnce, DiskInv, FreeApart
<1>2. WrittenReadable
  <2>1. \A p \in written : p < size
    BY DEF DiskInv, FileCovers, WrittenKept
  <2> QED
    BY <2>1 DEF WrittenReadable, read_page, get_page_count, DiskInv, WrittenKept
<1> QED
  BY <1>1, <1>2 DEF DiskSound

\* Whatever threads allocate, delete, write and extend, and however often the
\* database is built, closed and opened, a page number has one owner at a time
\* and every page written can be read back (disk_manager.cc), as long as no
\* first write of a page failed.
THEOREM DiskSoundness == DiskSpec => []DiskSound
<1> DEFINE I == ~missed => DiskInv
<1>1. DiskInit => I
  BY DiskStart
<1>2. I /\ [DiskNext]_diskVars => I'
  BY DiskInvStep, MissedStays
<1>3. I => DiskSound
  BY DiskInvSound DEF DiskSound
<1> QED
  BY <1>1, <1>2, <1>3, PTL DEF DiskSpec
===========================================================================
