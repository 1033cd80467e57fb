---------------------------- MODULE BufPoolProof ----------------------------
(***************************************************************************)
(* Proof, for any number of threads, frames, pages and calls, that a page  *)
(* which a caller has latched or pinned stays in its frame, that no page   *)
(* is cached twice, that the frame lists stay exact and that a caller sees *)
(* the acknowledged content unless a recorded race has happened.           *)
(***************************************************************************)
EXTENDS BufPool, FiniteSetTheorems, WellFoundedInduction, TLAPS

Kinds == {"read", "slot", "job", "cp", "scan"}

Pcs == {"find", "pin", "latch", "verify", "register", "wait", "claim", "writeback", "fill",
        "publish", "finish", "hold", "pinned", "cp_find", "mark"}

CallType ==
  [pc : Pcs, kind : Kinds, p : Pages, f : Frames \cup {NoFrame}, loader : BOOLEAN,
   wb : 0 .. NumPages]

FrameType ==
  [page : 0 .. NumPages, data : SUBSET (1 .. MaxCalls), dirty : BOOLEAN, ref : BOOLEAN,
   pins : Nat, latch : {-1} \cup Nat]

\* The local states of a thread that a call can be in.
Located == {"pin", "latch", "verify", "writeback", "fill", "publish", "finish", "hold", "pinned",
            "mark"}
CallShape(x) ==
  /\ x \in CallType
  /\ x.pc \in Located => x.f \in Frames
  /\ x.kind = "cp" => /\ x.pc \in {"cp_find", "claim", "writeback", "fill", "publish", "mark"}
                      /\ ~x.loader
  /\ x.pc \in {"cp_find", "mark"} => x.kind = "cp"
  /\ (x.kind # "cp" /\ x.pc \in {"claim", "writeback", "fill", "publish", "finish"}) => x.loader
  /\ x.pc \in {"register", "wait"} => ~x.loader
  /\ x.kind = "slot" => x.pc # "pin"
  /\ x.pc = "pinned" => x.kind = "job"
Shape(x) == x = Idle \/ CallShape(x)

PoolTyped ==
  /\ map \in [Pages -> Frames \cup {NoFrame}] /\ frame \in [Frames -> FrameType]
  /\ loading \in SUBSET Pages /\ stat \in [Pages -> {"live", "old", "free", "new"}]
  /\ disk \in [Pages -> SUBSET (1 .. MaxCalls)] /\ truth \in [Pages -> SUBSET (1 .. MaxCalls)]
  /\ ncalls \in 0 .. MaxCalls /\ \A t \in Threads : InCall(t) => ncalls # 0
  /\ DOMAIN th = Threads /\ \A t \in Threads : Shape(th[t])

\* Who has pinned a frame, latched it shared, latched it exclusively.
Pins(x, f) == /\ x.pc \in {"latch", "verify", "hold", "pinned"} /\ x.kind # "slot" /\ x.f = f
Reads(x, f) == /\ x.pc \in {"verify", "hold"} /\ x.kind # "slot" /\ x.f = f
Owns(x, f) == x.pc \in {"writeback", "fill", "publish"} /\ x.f = f
Excludes(x, f) ==
  \/ Owns(x, f)
  \/ x.pc = "finish" /\ x.f = f
  \/ x.pc \in {"verify", "hold"} /\ x.kind = "slot" /\ x.f = f

Pinners(f) == {t \in Threads : Pins(th[t], f)}
Readers(f) == {t \in Threads : Reads(th[t], f)}

\* Pin counts and latch words mean what they say.
PinsExact == \A f \in Frames : frame[f].pins = Cardinality(Pinners(f))
LatchExact ==
  \A f \in Frames :
    \/ frame[f].latch = -1 /\ Readers(f) = {}
    \/ /\ frame[f].latch = Cardinality(Readers(f))
       /\ \A t \in Threads : ~Excludes(th[t], f)
OneWriter ==
  \A t, u \in Threads : \A f \in Frames : Excludes(th[t], f) /\ Excludes(th[u], f) => t = u

\* Every frame is on one list, once, and the hand is on the LRU list.
On(s, f) == \E i \in DOMAIN s : s[i] = f
Once(s) == \A i, j \in DOMAIN s : s[i] = s[j] => i = j
ListsApart ==
  /\ lru \in Seq(Frames) /\ free \in Seq(Frames) /\ hand \in Frames \cup {NoFrame}
  /\ Once(lru) /\ Once(free)
  /\ \A f \in Frames : On(lru, f) <=> ~On(free, f)
  /\ Len(lru) + Len(free) = Cardinality(Frames)
  /\ lru = <<>> \/ On(lru, hand)
  /\ \A f \in Frames : (On(free, f) /\ frame[f].dirty) => "late mark" \in raced

\* No scan has crossed a copy.
Apart == "crossed" \notin raced

\* The page map: a frame is free, being refilled, or mapped under the number it carries.
Owned(f) == \E t \in Threads : Owns(th[t], f)
MapExact ==
  \A p \in Pages : map[p] # NoFrame =>
    frame[map[p]].page = p /\ ~On(free, map[p]) /\ ~Owned(map[p])
Resident ==
  \A f \in Frames : (~On(free, f) /\ ~Owned(f)) =>
    frame[f].page \in Pages /\ (Apart => map[frame[f].page] = f)
OwnersApart == \A t \in Threads : \A f \in Frames : Owns(th[t], f) => ~On(free, f)

\* What a call knows of its page.
LoadingPcs == {"find", "pin", "latch", "verify", "claim", "writeback", "fill", "publish", "finish"}
Loads(x) == x.pc \in LoadingPcs /\ x.loader
Copies(x) == x.pc # "idle" /\ x.kind = "cp"
Searching(x) == x.pc \notin {"idle", "hold", "pinned"} /\ x.kind \in {"read", "slot", "job"}
Missing(x) == x.pc \in {"claim", "writeback", "fill", "publish"}
LoadersApart ==
  /\ \A t \in Threads : Loads(th[t]) => th[t].p \in loading
  /\ \A t, u \in Threads : (Loads(th[t]) /\ Loads(th[u]) /\ th[t].p = th[u].p) => t = u
CopiesApart ==
  /\ \A t \in Threads : Copies(th[t]) => stat[th[t].p] = "new"
  /\ \A t, u \in Threads : (Copies(th[t]) /\ Copies(th[u]) /\ th[t].p = th[u].p) => t = u
SearchesServed == \A t \in Threads : Searching(th[t]) => stat[th[t].p] \in {"live", "old"}
Retiring ==
  \/ gc = Idle
  \/ /\ gc \in [pc : {"retire"}, p : Pages, f : Frames]
     /\ stat[gc.p] = "old" /\ \A t \in Threads : Searching(th[t]) => th[t].p # gc.p
ScansApart ==
  Apart => \A t, u \in Threads : (/\ Missing(th[t]) /\ th[t].kind = "scan"
                                  /\ Missing(th[u]) /\ th[u].kind = "cp") => th[t].p # th[u].p
PlaceKnown(x) ==
  /\ x.pc = "publish" => frame[x.f].page = x.p
  /\ Apart =>
       /\ Missing(x) => map[x.p] = NoFrame
       /\ (x.pc \in {"pin", "latch", "verify"} /\ x.loader /\ x.kind # "scan") => map[x.p] \in {x.f, NoFrame}
       /\ x.pc \in {"finish", "hold", "pinned"} => map[x.p] = x.f
PlacesKnown == \A t \in Threads : PlaceKnown(th[t])

\* The inductive invariant.
PoolInv ==
  /\ PoolTyped /\ PinsExact /\ LatchExact /\ OneWriter /\ ListsApart /\ MapExact /\ Resident
  /\ OwnersApart /\ LoadersApart /\ CopiesApart /\ SearchesServed /\ Retiring /\ PlacesKnown
  /\ ScansApart

-----------------------------------------------------------------------------
(* Counting *)

LEMMA ThreadCount ==
  ASSUME NEW A \in SUBSET Threads
  PROVE  IsFiniteSet(A) /\ Cardinality(A) \in Nat /\ (Cardinality(A) = 0 <=> A = {})
<1>1. IsFiniteSet(A)
  BY BufPoolAssumption, FS_Subset
<1> QED
  BY <1>1, FS_CardinalityType, FS_EmptySet

LEMMA ThreadAdded ==
  ASSUME NEW A \in SUBSET Threads, NEW t \in Threads, t \notin A
  PROVE  Cardinality(A \cup {t}) = Cardinality(A) + 1
BY ThreadCount, FS_AddElement

LEMMA ThreadLeft ==
  ASSUME NEW A \in SUBSET Threads, NEW t \in A
  PROVE  Cardinality(A \ {t}) = Cardinality(A) - 1
BY ThreadCount, FS_RemoveElement

LEMMA LeastIndex ==
  ASSUME NEW S \in SUBSET Nat, S # {}
  PROVE  Min(S) \in S
<1> DEFINE R == OpToRel(<, Nat)
<1>1. \A x, y \in Nat : x < y => <<x, y>> \in R
  BY DEF OpToRel
<1>2. IsWellFoundedOn(R, Nat)
  BY NatLessThanWellFounded
<1> HIDE DEF R
<1>3. PICK m \in S : \A y \in S : ~(<<y, m>> \in R)
  BY <1>2, WFMin
<1>4. \A y \in S : ~(y < m)
  BY <1>1, <1>3
<1>5. \A y \in S : m <= y
  BY <1>4
<1> QED
  BY <1>5 DEF Min

-----------------------------------------------------------------------------
(* Lists *)

LEMMA IndexFound ==
  ASSUME NEW s \in Seq(Frames), NEW f, On(s, f)
  PROVE  IndexIn(s, f) \in 1 .. Len(s) /\ s[IndexIn(s, f)] = f
BY DEF On, IndexIn

LEMMA WithoutExact ==
  ASSUME NEW s \in Seq(Frames), NEW f \in Frames, On(s, f), Once(s)
  PROVE  /\ Without(s, f) \in Seq(Frames) /\ Len(Without(s, f)) = Len(s) - 1 /\ Once(Without(s, f))
         /\ \A g \in Frames : On(Without(s, f), g) <=> On(s, g) /\ g # f
<1> DEFINE i == IndexIn(s, f)
           w == Without(s, f)
<1>1. i \in 1 .. Len(s) /\ s[i] = f /\ Len(s) \in Nat
  BY IndexFound
<1>2. w = SubSeq(s, 1, i - 1) \o SubSeq(s, i + 1, Len(s))
  BY DEF Without
<1> DEFINE a == SubSeq(s, 1, i - 1)
           b == SubSeq(s, i + 1, Len(s))
<1> HIDE DEF i, w
<1>a. /\ a \in Seq(Frames) /\ Len(a) = i - 1
      /\ \A j \in 1 .. i - 1 : a[j] = s[j]
  BY <1>1
<1>b. /\ b \in Seq(Frames) /\ Len(b) = Len(s) - i
      /\ \A j \in 1 .. Len(s) - i : b[j] = s[i + j]
  BY <1>1
<1>c. w = a \o b
  BY <1>2
<1> HIDE DEF a, b
<1>3. w \in Seq(Frames) /\ Len(w) = Len(s) - 1
  <2>1. w \in Seq(Frames) /\ Len(w) = Len(a) + Len(b)
    BY <1>a, <1>b, <1>c
  <2> QED
    BY <1>1, <1>a, <1>b, <2>1
<1>4. \A j \in 1 .. Len(w) : w[j] = IF j < i THEN s[j] ELSE s[j + 1]
  <2> TAKE j \in 1 .. Len(w)
  <2>1. CASE j < i
    BY <1>1, <1>3, <1>a, <1>b, <1>c, <2>1
  <2>2. CASE ~(j < i)
    <3>1. j - (i - 1) \in 1 .. Len(s) - i /\ w[j] = b[j - (i - 1)]
      BY <1>1, <1>3, <1>a, <1>b, <1>c, <2>2
    <3>2. PICK k \in 1 .. Len(s) - i : k = j - (i - 1)
      BY <3>1
    <3>3. b[k] = s[i + k] /\ i + k = j + 1
      BY <1>1, <1>b, <3>2
    <3> QED
      BY <2>2, <3>1, <3>2, <3>3
  <2> QED
    BY <2>1, <2>2
<1>5. DOMAIN w = 1 .. Len(w) /\ DOMAIN s = 1 .. Len(s)
  BY <1>3
<1>6. Once(w)
  <2> SUFFICES ASSUME NEW j \in 1 .. Len(w), NEW k \in 1 .. Len(w), w[j] = w[k]
               PROVE  j = k
    BY <1>5 DEF Once
  <2> DEFINE m == IF j < i THEN j ELSE j + 1
             n == IF k < i THEN k ELSE k + 1
  <2>1. m \in 1 .. Len(s) /\ n \in 1 .. Len(s)
    BY <1>1, <1>3
  <2>2. s[m] = w[j] /\ s[n] = w[k]
    BY <1>4
  <2>3. m = n
    <3> HIDE DEF m, n
    <3> QED
      BY <1>5, <2>1, <2>2 DEF Once
  <2> QED
    BY <1>1, <2>3
<1>7. ASSUME NEW g \in Frames
      PROVE  On(w, g) <=> On(s, g) /\ g # f
  <2>1. ASSUME On(w, g) PROVE On(s, g) /\ g # f
    <3>1. PICK j \in 1 .. Len(w) : w[j] = g
      BY <1>5, <2>1 DEF On
    <3> DEFINE m == IF j < i THEN j ELSE j + 1
    <3>2. m \in 1 .. Len(s) /\ m # i
      BY <1>1, <1>3
    <3>3. s[m] = g
      BY <1>4, <3>1
    <3> HIDE DEF m
    <3> QED
      BY <1>1, <1>5, <3>2, <3>3 DEF On, Once
  <2>2. ASSUME On(s, g), g # f PROVE On(w, g)
    <3>1. PICK j \in 1 .. Len(s) : s[j] = g
      BY <1>5, <2>2 DEF On
    <3>2. CASE j < i
      BY <1>1, <1>3, <1>4, <1>5, <3>1, <3>2 DEF On
    <3>3. CASE j > i
      <4>1. j - 1 \in 1 .. Len(w) /\ w[j - 1] = s[j]
        BY <1>1, <1>3, <1>4, <3>1, <3>3
      <4> QED
        BY <1>5, <3>1, <4>1 DEF On
    <3> QED
      BY <1>1, <2>2, <3>1, <3>2, <3>3
  <2> QED
    BY <2>1, <2>2
<1> QED
  BY <1>3, <1>6, <1>7 DEF w

LEMMA NextOfFound ==
  ASSUME NEW f \in Frames, lru \in Seq(Frames), On(lru, f), Once(lru)
  PROVE  NextOf(f) \in Frames /\ On(lru, NextOf(f)) /\ (Len(lru) > 1 => NextOf(f) # f)
<1> DEFINE i == IndexIn(lru, f)
           k == (i % Len(lru)) + 1
<1>1. i \in 1 .. Len(lru) /\ lru[i] = f /\ Len(lru) \in Nat
  BY IndexFound
<1>2. NextOf(f) = lru[k]
  BY DEF NextOf
<1> HIDE DEF i
<1>3. k \in 1 .. Len(lru) /\ (Len(lru) > 1 => k # i)
  <2>1. CASE i = Len(lru)
    BY <1>1, <2>1
  <2>2. CASE i < Len(lru)
    <3>1. i % Len(lru) = i
      BY <1>1, <2>2
    <3> QED
      BY <1>1, <2>2, <3>1
  <2> QED
    BY <1>1, <2>1, <2>2
<1> QED
  BY <1>1, <1>2, <1>3 DEF On, Once

\* The clock chooses a frame of the LRU list that nobody has pinned or latched.
LEMMA VictimFree ==
  ASSUME lru \in Seq(Frames), Once(lru), lru # <<>>, On(lru, hand), hand \in Frames
  PROVE  LET v == find_victim_page
         IN v.victim # NoFrame =>
              /\ v.victim \in Frames /\ On(lru, v.victim) /\ Evictable(v.victim)
              /\ v.hand \in Frames /\ On(lru, v.hand)
<1> DEFINE c == ClockOrder
           i == IndexIn(lru, hand)
           cold == {j \in DOMAIN c : Evictable(c[j]) /\ ~frame[c[j]].ref}
           warm == {j \in DOMAIN c : frame[c[j]].pins = 0 /\ frame[c[j]].ref}
           any == {j \in DOMAIN lru : Evictable(lru[j])}
<1>1. i \in 1 .. Len(lru) /\ Len(lru) \in Nat
  BY IndexFound
<1>2. c = SubSeq(lru, i, Len(lru)) \o SubSeq(lru, 1, i - 1)
  BY DEF ClockOrder
<1> HIDE DEF i
<1>3. c \in Seq(Frames) /\ Len(c) = Len(lru) /\ DOMAIN c = 1 .. Len(c)
  BY <1>1, <1>2
<1>4. \A j \in 1 .. Len(c) : c[j] = IF j <= Len(lru) - i + 1 THEN lru[i + j - 1]
                                    ELSE lru[j - (Len(lru) - i + 1)]
  BY <1>1, <1>2
<1>5. \A j \in DOMAIN c : c[j] \in Frames /\ On(lru, c[j])
  <2> TAKE j \in DOMAIN c
  <2>1. PICK k \in 1 .. Len(lru) : c[j] = lru[k]
    <3>1. CASE j <= Len(lru) - i + 1
      <4>1. i + j - 1 \in 1 .. Len(lru)
        BY <1>1, <1>3, <3>1
      <4> QED
        BY <1>3, <1>4, <3>1, <4>1
    <3>2. CASE ~(j <= Len(lru) - i + 1)
      <4>1. j - (Len(lru) - i + 1) \in 1 .. Len(lru)
        BY <1>1, <1>3, <3>2
      <4> QED
        BY <1>3, <1>4, <3>2, <4>1
    <3> QED
      BY <3>1, <3>2
  <2> HIDE DEF c
  <2> QED
    BY <2>1 DEF On
<1>6. find_victim_page =
        IF cold # {}
        THEN [victim |-> c[Min(cold)], cleared |-> {c[j] : j \in {k \in warm : k < Min(cold)}},
              hand |-> NextOf(c[Min(cold)])]
        ELSE [victim |-> IF any = {} THEN NoFrame ELSE lru[Min(any)],
              cleared |-> {c[j] : j \in warm}, hand |-> hand]
  BY DEF find_victim_page
<1>7. CASE cold # {}
  <2>1. cold \in SUBSET Nat
    BY <1>3
  <2>2. Min(cold) \in cold
    BY <1>7, <2>1, LeastIndex
  <2>3. c[Min(cold)] \in Frames /\ On(lru, c[Min(cold)]) /\ Evictable(c[Min(cold)])
    BY <1>5, <2>2
  <2> HIDE DEF cold, c, any, warm
  <2>4. NextOf(c[Min(cold)]) \in Frames /\ On(lru, NextOf(c[Min(cold)]))
    BY <2>3, NextOfFound
  <2> QED
    BY <1>6, <1>7, <2>3, <2>4
<1>8. CASE cold = {} /\ any # {}
  <2>1. any \in SUBSET Nat
    OBVIOUS
  <2>2. Min(any) \in any
    BY <1>8, <2>1, LeastIndex
  <2>a. Min(any) \in DOMAIN lru /\ Evictable(lru[Min(any)])
    BY <2>2
  <2>b. DOMAIN lru = 1 .. Len(lru)
    OBVIOUS
  <2> HIDE DEF any
  <2>3. lru[Min(any)] \in Frames /\ On(lru, lru[Min(any)]) /\ Evictable(lru[Min(any)])
    BY <2>a, <2>b DEF On
  <2> HIDE DEF cold, c, any, warm
  <2> QED
    BY <1>6, <1>8, <2>3
<1>9. CASE cold = {} /\ any = {}
  <2> HIDE DEF cold, c, any, warm
  <2> QED
    BY <1>6, <1>9
<1> QED
  BY <1>7, <1>8, <1>9

-----------------------------------------------------------------------------
(* Steps of one thread *)

\* Thread t moves to the local state x.
Moved(t, x) == Shape(x) /\ th' = [th EXCEPT ![t] = x]

LEMMA MovedThread ==
  ASSUME PoolTyped, NEW t \in Threads, NEW x, Moved(t, x)
  PROVE  /\ DOMAIN th' = Threads /\ th'[t] = x /\ \A u \in Threads : u # t => th'[u] = th[u]
         /\ \A u \in Threads : Shape(th'[u])
BY DEF PoolTyped, Moved

LEMMA PinsSame ==
  ASSUME PoolInv, NEW t \in Threads, NEW x, Moved(t, x),
         \A f \in Frames : frame'[f].pins = frame[f].pins,
         \A f \in Frames : Pins(x, f) <=> Pins(th[t], f)
  PROVE  PinsExact'
<1>1. \A f \in Frames : Pinners(f)' = Pinners(f)
  BY MovedThread DEF Pinners, PoolInv
<1> QED
  BY <1>1 DEF PoolInv, PinsExact

\* Thread t takes or gives back a pin on f.
LEMMA PinsTaken ==
  ASSUME PoolInv, NEW t \in Threads, NEW x, Moved(t, x), NEW f \in Frames,
         \A g \in Frames \ {f} : frame'[g].pins = frame[g].pins,
         frame'[f].pins = frame[f].pins + 1,
         \A g \in Frames : ~Pins(th[t], g), \A g \in Frames : Pins(x, g) <=> g = f
  PROVE  PinsExact'
<1>1. \A g \in Frames : g # f => Pinners(g)' = Pinners(g)
  BY MovedThread DEF Pinners, PoolInv
<1>2. Pinners(f)' = Pinners(f) \cup {t} /\ t \notin Pinners(f) /\ Pinners(f) \in SUBSET Threads
  BY MovedThread DEF Pinners, PoolInv
<1>3. Cardinality(Pinners(f)') = Cardinality(Pinners(f)) + 1
  BY <1>2, ThreadAdded
<1> QED
  BY <1>1, <1>3 DEF PoolInv, PinsExact

LEMMA PinsGiven ==
  ASSUME PoolInv, NEW t \in Threads, NEW x, Moved(t, x), NEW f \in Frames,
         \A g \in Frames \ {f} : frame'[g].pins = frame[g].pins,
         frame'[f].pins = frame[f].pins - 1,
         \A g \in Frames : ~Pins(x, g), \A g \in Frames : Pins(th[t], g) <=> g = f
  PROVE  PinsExact' /\ frame[f].pins - 1 \in Nat
<1>1. \A g \in Frames : g # f => Pinners(g)' = Pinners(g)
  BY MovedThread DEF Pinners, PoolInv
<1>2. Pinners(f)' = Pinners(f) \ {t} /\ t \in Pinners(f) /\ Pinners(f) \in SUBSET Threads
  BY MovedThread DEF Pinners, PoolInv
<1>3. Cardinality(Pinners(f)') = Cardinality(Pinners(f)) - 1
  BY <1>2, ThreadLeft
<1>4. Cardinality(Pinners(f)) \in Nat /\ Cardinality(Pinners(f)) # 0
  BY <1>2, ThreadCount
<1> QED
  BY <1>1, <1>3, <1>4 DEF PoolInv, PinsExact

\* A frame with a reader has no writer, and its latch word counts the readers.
LEMMA LatchedShared ==
  ASSUME PoolInv, NEW t \in Threads, NEW f \in Frames, Reads(th[t], f)
  PROVE  /\ frame[f].latch = Cardinality(Readers(f)) /\ frame[f].latch \in Nat \ {0}
         /\ \A u \in Threads : ~Excludes(th[u], f)
<1>1. t \in Readers(f) /\ Readers(f) \in SUBSET Threads
  BY DEF Readers
<1>2. Cardinality(Readers(f)) \in Nat /\ Cardinality(Readers(f)) # 0
  BY <1>1, ThreadCount
<1> QED
  BY <1>1, <1>2 DEF PoolInv, LatchExact

\* A frame with a writer has no reader and no other writer.
LEMMA LatchedExclusive ==
  ASSUME PoolInv, NEW t \in Threads, NEW f \in Frames, Excludes(th[t], f)
  PROVE  /\ frame[f].latch = -1 /\ Readers(f) = {}
         /\ \A u \in Threads : Excludes(th[u], f) => u = t
BY DEF PoolInv, LatchExact, OneWriter

\* A frame without latch has neither.
LEMMA LatchedNot ==
  ASSUME PoolInv, NEW f \in Frames, frame[f].latch = 0
  PROVE  Readers(f) = {} /\ \A u \in Threads : ~Excludes(th[u], f)
<1>1. Readers(f) \in SUBSET Threads
  BY DEF Readers
<1> QED
  BY <1>1, ThreadCount DEF PoolInv, LatchExact

\* The latch word of a frame that a step does not touch.
LEMMA LatchesStep ==
  ASSUME PoolInv, NEW t \in Threads, NEW x, Moved(t, x), NEW f \in Frames,
         \A g \in Frames \ {f} : /\ frame'[g].latch = frame[g].latch
                                 /\ Reads(x, g) <=> Reads(th[t], g)
                                 /\ Excludes(x, g) <=> Excludes(th[t], g),
         \/ /\ frame'[f].latch = -1 /\ Readers(f)' = {}
            /\ \A u \in Threads : Excludes(th'[u], f) => u = t
         \/ /\ frame'[f].latch = Cardinality(Readers(f)')
            /\ \A u \in Threads : ~Excludes(th'[u], f)
  PROVE  LatchExact' /\ OneWriter'
<1>1. \A g \in Frames : g # f => Readers(g)' = Readers(g)
  BY MovedThread DEF Readers, PoolInv
<1>2. \A u \in Threads : \A g \in Frames : g # f => (Excludes(th'[u], g) <=> Excludes(th[u], g))
  BY MovedThread DEF PoolInv
<1>3. LatchExact'
  BY <1>1, <1>2 DEF LatchExact, PoolInv
<1>4. OneWriter'
  BY <1>2 DEF OneWriter, PoolInv
<1> QED
  BY <1>3, <1>4

LEMMA LatchesSame ==
  ASSUME PoolInv, NEW t \in Threads, NEW x, Moved(t, x),
         \A g \in Frames : /\ frame'[g].latch = frame[g].latch
                           /\ Reads(x, g) <=> Reads(th[t], g)
                           /\ Excludes(x, g) <=> Excludes(th[t], g)
  PROVE  LatchExact' /\ OneWriter'
<1>1. \A g \in Frames : Readers(g)' = Readers(g)
  BY MovedThread DEF Readers, PoolInv
<1>2. \A u \in Threads : \A g \in Frames : Excludes(th'[u], g) <=> Excludes(th[u], g)
  BY MovedThread DEF PoolInv
<1>3. LatchExact'
  BY <1>1, <1>2 DEF LatchExact, PoolInv
<1>4. OneWriter'
  BY <1>2 DEF OneWriter, PoolInv
<1> QED
  BY <1>3, <1>4

\* A reader leaves f, a writer leaves f.
LEMMA ReaderLeaves ==
  ASSUME PoolInv, NEW t \in Threads, NEW x, Moved(t, x), NEW f \in Frames, Reads(th[t], f),
         \A g \in Frames : ~Reads(x, g) /\ ~Excludes(x, g),
         \A g \in Frames \ {f} : frame'[g].latch = frame[g].latch,
         frame'[f].latch = frame[f].latch - 1
  PROVE  LatchExact' /\ OneWriter' /\ frame[f].latch - 1 \in Nat
<1>1. /\ frame[f].latch = Cardinality(Readers(f)) /\ frame[f].latch \in Nat \ {0}
      /\ \A u \in Threads : ~Excludes(th[u], f)
  BY LatchedShared
<1>2. Readers(f)' = Readers(f) \ {t} /\ t \in Readers(f) /\ Readers(f) \in SUBSET Threads
  BY MovedThread DEF Readers, PoolInv
<1>3. Cardinality(Readers(f)') = Cardinality(Readers(f)) - 1
  BY <1>2, ThreadLeft
<1>4. \A g \in Frames \ {f} : ~Reads(th[t], g) /\ ~Excludes(th[t], g)
  BY DEF Reads, Excludes, Owns
<1>5. \A u \in Threads : ~Excludes(th'[u], f)
  BY <1>1, MovedThread DEF PoolInv
<1> QED
  BY <1>1, <1>3, <1>4, <1>5, LatchesStep

LEMMA WriterLeaves ==
  ASSUME PoolInv, NEW t \in Threads, NEW x, Moved(t, x), NEW f \in Frames, Excludes(th[t], f),
         \A g \in Frames : ~Reads(x, g) /\ ~Excludes(x, g),
         \A g \in Frames \ {f} : frame'[g].latch = frame[g].latch,
         frame'[f].latch = 0
  PROVE  LatchExact' /\ OneWriter'
<1>1. Readers(f) = {} /\ \A u \in Threads : Excludes(th[u], f) => u = t
  BY LatchedExclusive
<1>2. Readers(f)' = {}
  BY <1>1, MovedThread DEF Readers, PoolInv
<1>3. Cardinality(Readers(f)') = 0
  BY <1>2, FS_EmptySet
<1>4. \A g \in Frames \ {f} : ~Reads(th[t], g) /\ ~Excludes(th[t], g)
  BY DEF Reads, Excludes, Owns
<1>5. \A u \in Threads : ~Excludes(th'[u], f)
  BY <1>1, MovedThread DEF PoolInv
<1> QED
  BY <1>3, <1>4, <1>5, LatchesStep

\* A writer enters an unlatched frame.
LEMMA WriterEnters ==
  ASSUME PoolInv, NEW t \in Threads, NEW x, Moved(t, x), NEW f \in Frames, frame[f].latch = 0,
         \A g \in Frames : ~Reads(th[t], g) /\ ~Excludes(th[t], g),
         \A g \in Frames : ~Reads(x, g) /\ (Excludes(x, g) => g = f),
         \A g \in Frames \ {f} : frame'[g].latch = frame[g].latch,
         frame'[f].latch = -1
  PROVE  LatchExact' /\ OneWriter'
<1>1. Readers(f) = {} /\ \A u \in Threads : ~Excludes(th[u], f)
  BY LatchedNot
<1>2. Readers(f)' = {} /\ \A u \in Threads : Excludes(th'[u], f) => u = t
  BY <1>1, MovedThread DEF Readers, PoolInv
<1> QED
  BY <1>2, LatchesStep

\* Contents stay within their types, and a call in progress has been counted.
ContentTyped ==
  /\ frame' \in [Frames -> FrameType] /\ ncalls' = ncalls
  /\ disk' \in [Pages -> SUBSET (1 .. MaxCalls)] /\ truth' \in [Pages -> SUBSET (1 .. MaxCalls)]

\* Thread t loads the same page as before, or one that nobody loads; it ends no
\* load but its own; it copies and searches no page that it did not before.
LoadsKept(t, x) ==
  /\ loading' \in SUBSET Pages
  /\ Loads(x) => /\ x.p \in loading'
                 /\ (Loads(th[t]) /\ th[t].p = x.p) \/ x.p \notin loading
  /\ \A q \in loading \ loading' : Loads(th[t]) /\ th[t].p = q /\ ~Loads(x)
MissKept(t, x) ==
  \/ Missing(th[t]) /\ th[t].p = x.p /\ th[t].kind = x.kind
  \/ \A u \in Threads : Missing(th[u]) =>
       \/ th[u].p # x.p
       \/ ~(x.kind = "cp" /\ th[u].kind = "scan") /\ ~(x.kind = "scan" /\ th[u].kind = "cp")
CallKept(t, x) ==
  /\ Copies(x) => Copies(th[t]) /\ th[t].p = x.p
  /\ Searching(x) => Searching(th[t]) /\ th[t].p = x.p
  /\ (Missing(x) /\ Apart') => MissKept(t, x)

\* Frames keep their pages, apart from one that t is refilling.
PagesKept(t, x) ==
  /\ \A f \in Frames : /\ Owns(x, f) <=> Owns(th[t], f)
                       /\ frame'[f].page = frame[f].page \/ Owns(th[t], f)
                       /\ (frame'[f].dirty /\ ~frame[f].dirty) =>
                             ~On(free, f) \/ "late mark" \in raced'
  /\ raced \subseteq raced'

LEMMA LoadsStep ==
  ASSUME PoolInv, NEW t \in Threads, NEW x, Moved(t, x), LoadsKept(t, x)
  PROVE  LoadersApart'
<1>1. th'[t] = x /\ \A u \in Threads : u # t => th'[u] = th[u]
  BY MovedThread DEF PoolInv
<1>2. ASSUME NEW u \in Threads, Loads(th'[u])
      PROVE  th'[u].p \in loading'
  <2>1. CASE u = t
    BY <1>1, <1>2, <2>1 DEF LoadsKept
  <2>2. CASE u # t
    <3>1. Loads(th[u]) /\ th[u].p \in loading /\ th'[u] = th[u]
      BY <1>1, <1>2, <2>2 DEF PoolInv, LoadersApart
    <3> QED
      BY <2>2, <3>1 DEF LoadsKept, PoolInv, LoadersApart
  <2> QED
    BY <2>1, <2>2
<1>3. ASSUME NEW u \in Threads, NEW w \in Threads, Loads(th'[u]), Loads(th'[w]),
             th'[u].p = th'[w].p
      PROVE  u = w
  BY <1>1, <1>3 DEF LoadsKept, PoolInv, LoadersApart
<1> QED
  BY <1>2, <1>3 DEF LoadersApart

LEMMA ScansStep ==
  ASSUME PoolInv, NEW t \in Threads, NEW x, Moved(t, x), (Missing(x) /\ Apart') => MissKept(t, x),
         raced \subseteq raced'
  PROVE  ScansApart'
<1>1. th'[t] = x /\ \A u \in Threads : u # t => th'[u] = th[u]
  BY MovedThread DEF PoolInv
<1> SUFFICES ASSUME Apart', NEW u \in Threads, NEW w \in Threads, Missing(th'[u]), th'[u].kind = "scan",
                    Missing(th'[w]), th'[w].kind = "cp"
             PROVE  th'[u].p # th'[w].p
  BY DEF ScansApart
<1>2. Apart
  BY DEF Apart
<1>3. CASE u = t
  BY <1>1, <1>2, <1>3 DEF MissKept, PoolInv, ScansApart
<1>4. CASE w = t
  BY <1>1, <1>2, <1>4 DEF MissKept, PoolInv, ScansApart
<1>5. CASE u # t /\ w # t
  BY <1>1, <1>2, <1>5 DEF PoolInv, ScansApart
<1> QED
  BY <1>3, <1>4, <1>5

LEMMA CallsStep ==
  ASSUME PoolInv, NEW t \in Threads, NEW x, Moved(t, x), CallKept(t, x), UNCHANGED <<gc, stat>>,
         raced \subseteq raced'
  PROVE  CopiesApart' /\ SearchesServed' /\ Retiring' /\ ScansApart'
<1>1. th'[t] = x /\ \A u \in Threads : u # t => th'[u] = th[u]
  BY MovedThread DEF PoolInv
<1>2. CopiesApart'
  BY <1>1 DEF CallKept, PoolInv, CopiesApart, Missing, MissKept
<1>3. SearchesServed'
  BY <1>1 DEF CallKept, PoolInv, SearchesServed, Missing, MissKept
<1>4. \A u \in Threads : Searching(th'[u]) => Searching(th[u]) /\ th'[u].p = th[u].p
  BY <1>1 DEF CallKept, Missing, MissKept
<1>5. Retiring'
  BY <1>4 DEF PoolInv, Retiring
<1>6. ScansApart'
  BY <1>1, ScansStep DEF CallKept, Missing, MissKept
<1> QED
  BY <1>2, <1>3, <1>5, <1>6

LEMMA PlacesStep ==
  ASSUME PoolInv, NEW t \in Threads, NEW x, Moved(t, x), PagesKept(t, x), PlaceKnown(x)',
         map' = map
  PROVE  PlacesKnown'
<1>1. th'[t] = x /\ \A u \in Threads : u # t => th'[u] = th[u]
  BY MovedThread DEF PoolInv
<1> SUFFICES ASSUME NEW u \in Threads
             PROVE  PlaceKnown(th[u])'
  BY DEF PlacesKnown
<1>2. CASE u = t
  BY <1>1, <1>2 DEF PlaceKnown, Missing, Apart
<1>3. CASE u # t
  <2>1. th'[u] = th[u] /\ PlaceKnown(th[u])
    BY <1>1, <1>3 DEF PoolInv, PlacesKnown
  <2>2. ASSUME th[u].pc = "publish"
        PROVE  frame'[th[u].f].page = frame[th[u].f].page
    <3>1. th[u].f \in Frames /\ Excludes(th[u], th[u].f)
      BY <2>2 DEF PoolInv, PoolTyped, Shape, CallShape, Located, Idle, Excludes, Owns
    <3>2. ~Owns(th[t], th[u].f)
      BY <1>3, <3>1 DEF PoolInv, OneWriter, Excludes
    <3> QED
      BY <3>1, <3>2 DEF PagesKept
  <2>3. Apart' => Apart
    BY DEF Apart, PagesKept
  <2> QED
    BY <2>1, <2>2, <2>3 DEF PlaceKnown, Missing, Apart
<1> QED
  BY <1>2, <1>3

LEMMA MapStep ==
  ASSUME PoolInv, NEW t \in Threads, NEW x, Moved(t, x), PagesKept(t, x), UNCHANGED <<map, lists>>
  PROVE  ListsApart' /\ MapExact' /\ Resident' /\ OwnersApart'
<1>1. \A u \in Threads : \A f \in Frames : Owns(th'[u], f) <=> Owns(th[u], f)
  BY MovedThread DEF PoolInv, PagesKept
<1>2. \A f \in Frames : Owned(f)' <=> Owned(f)
  BY <1>1 DEF Owned
<1>3. lru' = lru /\ free' = free /\ hand' = hand /\ map' = map
  BY DEF lists
<1>4. ListsApart'
  BY <1>3 DEF PoolInv, ListsApart, PagesKept
<1>5. \A f \in Frames : ~Owned(f) => frame'[f].page = frame[f].page
  BY DEF PagesKept, Owned
<1>6. MapExact'
  BY <1>2, <1>3, <1>5 DEF PoolInv, MapExact, PoolTyped
<1>7. Resident'
  <2>1. Apart' => Apart
    BY DEF Apart, PagesKept
  <2> QED
    BY <1>2, <1>3, <1>5, <2>1 DEF PoolInv, Resident
<1>8. OwnersApart'
  BY <1>1, <1>3 DEF PoolInv, OwnersApart
<1> QED
  BY <1>4, <1>6, <1>7, <1>8

LEMMA TypesStep ==
  ASSUME PoolInv, NEW t \in Threads, NEW x, Moved(t, x), InCall(t), ContentTyped,
         loading' \in SUBSET Pages, map' \in [Pages -> Frames \cup {NoFrame}],
         stat' \in [Pages -> {"live", "old", "free", "new"}]
  PROVE  PoolTyped'
<1>1. /\ DOMAIN th' = Threads /\ th'[t] = x /\ \A u \in Threads : u # t => th'[u] = th[u]
      /\ \A u \in Threads : Shape(th'[u])
  BY MovedThread DEF PoolInv
<1>2. \A u \in Threads : InCall(u)' => ncalls' # 0
  BY <1>1 DEF InCall, PoolInv, PoolTyped, ContentTyped
<1> QED
  BY <1>1, <1>2 DEF PoolInv, PoolTyped, ContentTyped

\* Steps that leave the map, the lists and the pages' status alone.
QuietStep(t, x) ==
  /\ Moved(t, x) /\ InCall(t) /\ ContentTyped /\ LoadsKept(t, x) /\ CallKept(t, x)
  /\ PagesKept(t, x) /\ UNCHANGED <<map, lists, gc, stat>>

LEMMA Quiet ==
  ASSUME PoolInv, NEW t \in Threads, NEW x, QuietStep(t, x), PlaceKnown(x)',
         PinsExact', LatchExact', OneWriter'
  PROVE  PoolInv'
<1>1. PoolTyped'
  BY TypesStep DEF QuietStep, LoadsKept, PoolInv, PoolTyped
<1>2. LoadersApart' /\ CopiesApart' /\ SearchesServed' /\ Retiring' /\ ScansApart'
  BY LoadsStep, CallsStep DEF QuietStep, PagesKept
<1>3. PlacesKnown'
  BY PlacesStep DEF QuietStep
<1>4. ListsApart' /\ MapExact' /\ Resident' /\ OwnersApart'
  BY MapStep DEF QuietStep
<1> QED
  BY <1>1, <1>2, <1>3, <1>4 DEF PoolInv

-----------------------------------------------------------------------------
(* Looking a page up *)

LEMMA InCallShape ==
  ASSUME PoolInv, NEW t \in Threads, th[t].pc # "idle"
  PROVE  CallShape(th[t]) /\ th[t] \in CallType /\ InCall(t) /\ DOMAIN th = Threads
BY DEF PoolInv, PoolTyped, Shape, CallShape, Idle, InCall

\* A thread goes on with another location, program point or registration.
LEMMA Turn ==
  ASSUME NEW y \in CallType, NEW a \in Pcs, NEW f \in Frames \cup {NoFrame}, NEW l \in BOOLEAN
  PROVE  LET x == [y EXCEPT !.pc = a, !.f = f, !.loader = l]
         IN /\ x \in CallType /\ x.pc = a /\ x.f = f /\ x.loader = l
            /\ x.kind = y.kind /\ x.p = y.p /\ x.wb = y.wb
BY DEF CallType

LEMMA TurnPc ==
  ASSUME NEW y \in CallType, NEW a \in Pcs
  PROVE  LET x == [y EXCEPT !.pc = a]
         IN /\ x \in CallType /\ x.pc = a /\ x.f = y.f /\ x.loader = y.loader
            /\ x.kind = y.kind /\ x.p = y.p /\ x.wb = y.wb
BY DEF CallType

LEMMA ContentSame ==
  ASSUME PoolInv, UNCHANGED <<frame, ncalls, disk, truth>>
  PROVE  ContentTyped
BY DEF PoolInv, PoolTyped, ContentTyped

\* The thread turns without touching a frame, a latch or a pin.
LEMMA TurnStep ==
  ASSUME PoolInv, NEW t \in Threads, NEW x, Moved(t, x), InCall(t), LoadsKept(t, x),
         CallKept(t, x), PlaceKnown(x), raced \subseteq raced',
         UNCHANGED <<map, lists, gc, stat, frame, ncalls, disk, truth>>,
         \A f \in Frames : ~Pins(x, f) /\ ~Pins(th[t], f) /\ ~Reads(x, f) /\ ~Reads(th[t], f)
                           /\ ~Excludes(x, f) /\ ~Excludes(th[t], f)
  PROVE  PoolInv'
<1>1. PinsExact'
  BY PinsSame
<1>2. LatchExact' /\ OneWriter'
  BY LatchesSame
<1>3. PagesKept(t, x)
  BY DEF PagesKept, Excludes
<1>4. PlaceKnown(x)'
  <2>1. Apart' => Apart
    BY DEF Apart
  <2> QED
    BY <2>1 DEF PlaceKnown, Missing, Apart
<1> QED
  BY <1>1, <1>2, <1>3, <1>4, Quiet, ContentSame DEF QuietStep

LEMMA ApartKept ==
  ASSUME raced \subseteq raced'
  PROVE  Apart' => Apart
BY DEF Apart

\* A miss that leaves the pool apart crosses nobody.
LEMMA MissedApart ==
  ASSUME NEW t \in Threads, raced' = Missed(t), NEW x, x.p = th[t].p, x.kind = th[t].kind
  PROVE  /\ raced \subseteq raced'
         /\ Apart' => /\ MissKept(t, x)
                      /\ th[t].kind = "scan" => map[th[t].p] = NoFrame
<1>1. raced \subseteq raced'
  BY DEF Missed
<1>2. ASSUME Apart' PROVE ~Crosses(t)
  BY <1>2 DEF Missed, Apart
<1>3. ASSUME ~Crosses(t)
      PROVE  MissKept(t, x) /\ (th[t].kind = "scan" => map[th[t].p] = NoFrame)
  <2> SUFFICES ASSUME NEW u \in Threads, Missing(th[u]), th[u].p = x.p,
                      \/ x.kind = "cp" /\ th[u].kind = "scan"
                      \/ x.kind = "scan" /\ th[u].kind = "cp"
               PROVE  FALSE
    BY <1>3 DEF Crosses, MissKept
  <2> QED
    BY <1>3 DEF Crosses, PastMiss, Missing
<1> QED
  BY <1>1, <1>2, <1>3

LEMMA FindStep ==
  ASSUME PoolInv, NEW t \in Threads, Find(t)
  PROVE  PoolInv'
<1> DEFINE f == map[th[t].p]
           a == IF f = NoFrame THEN (IF th[t].loader THEN "claim" ELSE "register")
                ELSE IF Writes(t) THEN "latch" ELSE "pin"
           x == [th[t] EXCEPT !.pc = a, !.f = f, !.loader = th[t].loader]
<1>1. /\ th[t].pc = "find" /\ CallShape(th[t]) /\ th[t] \in CallType /\ InCall(t)
      /\ DOMAIN th = Threads /\ f \in Frames \cup {NoFrame} /\ a \in Pcs
  <2>1. th[t].pc = "find"
    BY DEF Find
  <2>2. CallShape(th[t]) /\ th[t] \in CallType /\ InCall(t) /\ DOMAIN th = Threads
    BY <2>1, InCallShape
  <2> QED
    BY <2>1, <2>2 DEF PoolInv, PoolTyped, CallType, Pcs
<1>2. th' = [th EXCEPT ![t] = x]
  BY <1>1 DEF Find, CallType
<1>3. /\ x \in CallType /\ x.pc = a /\ x.f = f /\ x.loader = th[t].loader
      /\ x.kind = th[t].kind /\ x.p = th[t].p
  <2> HIDE DEF a, f
  <2> QED
    BY <1>1, Turn DEF CallType
<1> HIDE DEF x
<1>4. Shape(x)
  BY <1>1, <1>3 DEF Shape, CallShape, Located, Writes
<1>5. Moved(t, x)
  BY <1>2, <1>4 DEF Moved
<1>6. LoadsKept(t, x)
  BY <1>1, <1>3 DEF LoadsKept, Find, Loads, LoadingPcs, PoolInv, LoadersApart, PoolTyped
<1>7. CallKept(t, x) /\ raced \subseteq raced'
  <2>1. CASE a = "claim"
    <3>1. raced' = Missed(t)
      BY <2>1 DEF Find, Writes
    <3> QED
      BY <1>1, <1>3, <2>1, <3>1, MissedApart DEF CallKept, Copies, Searching, CallShape
  <2>2. CASE a # "claim"
    <3>1. ~Missing(x) /\ raced' = raced
      BY <1>3, <2>2 DEF Find, Missing, Writes
    <3> QED
      BY <1>1, <1>3, <3>1 DEF CallKept, Copies, Searching, CallShape
  <2> QED
    BY <2>1, <2>2
<1>8. PlaceKnown(x)
  BY <1>1, <1>3 DEF PlaceKnown, Missing, Apart
<1>9. \A g \in Frames : ~Pins(x, g) /\ ~Pins(th[t], g) /\ ~Reads(x, g) /\ ~Reads(th[t], g)
                        /\ ~Excludes(x, g) /\ ~Excludes(th[t], g)
  BY <1>1, <1>3 DEF Pins, Reads, Excludes, Owns, Writes
<1> QED
  BY <1>1, <1>5, <1>6, <1>7, <1>8, <1>9, TurnStep DEF Find, counts

LEMMA RegisterStep ==
  ASSUME PoolInv, NEW t \in Threads, Register(t)
  PROVE  PoolInv'
<1> DEFINE a == IF FirstLoader(th[t].p) THEN "find" ELSE "wait"
           l == FirstLoader(th[t].p)
           x == [th[t] EXCEPT !.pc = a, !.f = th[t].f, !.loader = l]
<1>1. /\ th[t].pc = "register" /\ CallShape(th[t]) /\ th[t] \in CallType /\ InCall(t)
      /\ DOMAIN th = Threads /\ a \in Pcs /\ l \in BOOLEAN /\ ~th[t].loader
  <2>1. th[t].pc = "register"
    BY DEF Register
  <2>2. CallShape(th[t]) /\ th[t] \in CallType /\ InCall(t) /\ DOMAIN th = Threads
    BY <2>1, InCallShape
  <2> QED
    BY <2>1, <2>2 DEF Pcs, CallShape, FirstLoader
<1>2. th' = [th EXCEPT ![t] = x]
  <2>1. CASE FirstLoader(th[t].p)
    BY <1>1, <2>1 DEF Register, CallType
  <2>2. CASE ~FirstLoader(th[t].p)
    <3>1. th' = [th EXCEPT ![t].pc = "wait"]
      BY <2>2 DEF Register
    <3>2. [th[t] EXCEPT !.pc = "wait"] = x
      BY <1>1, <2>2 DEF CallType
    <3> QED
      BY <1>1, <3>1, <3>2
  <2> QED
    BY <2>1, <2>2
<1>3. /\ x \in CallType /\ x.pc = a /\ x.f = th[t].f /\ x.loader = l
      /\ x.kind = th[t].kind /\ x.p = th[t].p
  <2> HIDE DEF a, l
  <2> QED
    BY <1>1, Turn DEF CallType
<1> HIDE DEF x
<1>4. Shape(x)
  BY <1>1, <1>3 DEF Shape, CallShape, Located
<1>5. Moved(t, x)
  BY <1>2, <1>4 DEF Moved
<1>6. LoadsKept(t, x)
  BY <1>1, <1>3 DEF LoadsKept, Register, Loads, LoadingPcs, PoolInv, PoolTyped, FirstLoader, CallType
<1>7. CallKept(t, x)
  BY <1>1, <1>3 DEF CallKept, Copies, Searching, CallShape, Missing, MissKept
<1>8. PlaceKnown(x)
  BY <1>1, <1>3 DEF PlaceKnown, Missing, Apart
<1>9. \A g \in Frames : ~Pins(x, g) /\ ~Pins(th[t], g) /\ ~Reads(x, g) /\ ~Reads(th[t], g)
                        /\ ~Excludes(x, g) /\ ~Excludes(th[t], g)
  BY <1>1, <1>3 DEF Pins, Reads, Excludes, Owns
<1> QED
  BY <1>1, <1>5, <1>6, <1>7, <1>8, <1>9, TurnStep DEF Register, counts

LEMMA WaitStep ==
  ASSUME PoolInv, NEW t \in Threads, Wait(t)
  PROVE  PoolInv'
<1> DEFINE x == [th[t] EXCEPT !.pc = "find"]
<1>1. /\ th[t].pc = "wait" /\ CallShape(th[t]) /\ th[t] \in CallType /\ InCall(t)
      /\ DOMAIN th = Threads /\ ~th[t].loader
  <2>1. th[t].pc = "wait"
    BY DEF Wait
  <2>2. CallShape(th[t]) /\ th[t] \in CallType /\ InCall(t) /\ DOMAIN th = Threads
    BY <2>1, InCallShape
  <2> QED
    BY <2>1, <2>2 DEF CallShape
<1>2. th' = [th EXCEPT ![t] = x]
  BY <1>1 DEF Wait, CallType
<1>3. /\ x \in CallType /\ x.pc = "find" /\ x.f = th[t].f /\ x.loader = th[t].loader
      /\ x.kind = th[t].kind /\ x.p = th[t].p
  <2>1. "find" \in Pcs
    BY DEF Pcs
  <2> QED
    BY <1>1, <2>1, TurnPc
<1> HIDE DEF x
<1>4. Shape(x)
  BY <1>1, <1>3 DEF Shape, CallShape, Located
<1>5. Moved(t, x)
  BY <1>2, <1>4 DEF Moved
<1>6. LoadsKept(t, x)
  BY <1>1, <1>3 DEF LoadsKept, Wait, Loads, PoolInv, PoolTyped
<1>7. CallKept(t, x)
  BY <1>1, <1>3 DEF CallKept, Copies, Searching, CallShape, Missing, MissKept
<1>8. PlaceKnown(x)
  BY <1>1, <1>3 DEF PlaceKnown, Missing, Apart
<1>9. \A g \in Frames : ~Pins(x, g) /\ ~Pins(th[t], g) /\ ~Reads(x, g) /\ ~Reads(th[t], g)
                        /\ ~Excludes(x, g) /\ ~Excludes(th[t], g)
  BY <1>1, <1>3 DEF Pins, Reads, Excludes, Owns
<1> QED
  BY <1>1, <1>5, <1>6, <1>7, <1>8, <1>9, TurnStep DEF Wait, counts

LEMMA CpFindStep ==
  ASSUME PoolInv, NEW t \in Threads, CpFind(t)
  PROVE  PoolInv'
<1> DEFINE y == [th[t] EXCEPT !.pc = "claim"]
           x == IF map[th[t].p] # NoFrame THEN Idle ELSE y
<1>1. /\ th[t].pc = "cp_find" /\ CallShape(th[t]) /\ th[t] \in CallType /\ InCall(t)
      /\ DOMAIN th = Threads /\ ~th[t].loader /\ th[t].kind = "cp"
  <2>1. th[t].pc = "cp_find"
    BY DEF CpFind
  <2>2. CallShape(th[t]) /\ th[t] \in CallType /\ InCall(t) /\ DOMAIN th = Threads
    BY <2>1, InCallShape
  <2> QED
    BY <2>1, <2>2 DEF CallShape
<1>2. th' = [th EXCEPT ![t] = x] /\ raced \subseteq raced'
  BY <1>1 DEF CpFind, CallType, Missed
<1>3. /\ y \in CallType /\ y.pc = "claim" /\ y.f = th[t].f /\ y.loader = th[t].loader
      /\ y.kind = th[t].kind /\ y.p = th[t].p
  <2>1. "claim" \in Pcs
    BY DEF Pcs
  <2> QED
    BY <1>1, <2>1, TurnPc
<1> HIDE DEF y
<1>4. Shape(x)
  BY <1>1, <1>3 DEF Shape, CallShape, Located
<1>5. Moved(t, x)
  BY <1>2, <1>4 DEF Moved
<1>6. LoadsKept(t, x)
  BY <1>1, <1>3 DEF LoadsKept, CpFind, Loads, PoolInv, PoolTyped, Idle, LoadingPcs
<1>7. CallKept(t, x)
  <2>1. CASE map[th[t].p] # NoFrame
    BY <2>1 DEF CallKept, Copies, Searching, Idle, Missing
  <2>2. CASE map[th[t].p] = NoFrame
    <3>1. raced' = Missed(t) /\ x = y
      BY <2>2 DEF CpFind
    <3> QED
      BY <1>1, <1>3, <3>1, MissedApart DEF CallKept, Copies, Searching
  <2> QED
    BY <2>1, <2>2
<1>8. PlaceKnown(x)
  BY <1>1, <1>3 DEF PlaceKnown, Idle, Missing, Apart
<1>9. \A g \in Frames : ~Pins(x, g) /\ ~Pins(th[t], g) /\ ~Reads(x, g) /\ ~Reads(th[t], g)
                        /\ ~Excludes(x, g) /\ ~Excludes(th[t], g)
  BY <1>1, <1>3 DEF Pins, Reads, Excludes, Owns, Idle
<1> QED
  BY <1>1, <1>2, <1>5, <1>6, <1>7, <1>8, <1>9, TurnStep DEF CpFind, counts

-----------------------------------------------------------------------------
(* Latching, verifying and releasing *)

\* A step of thread t that replaces the frame record of f.
Touched(f, y) == y \in FrameType /\ frame' = [frame EXCEPT ![f] = y]

LEMMA TouchedFrame ==
  ASSUME PoolInv, NEW f \in Frames, NEW y, Touched(f, y)
  PROVE  /\ frame' \in [Frames -> FrameType] /\ frame'[f] = y
         /\ \A g \in Frames : g # f => frame'[g] = frame[g]
BY DEF PoolInv, PoolTyped, Touched

LEMMA TouchStep ==
  ASSUME PoolInv, NEW t \in Threads, NEW x, Moved(t, x), InCall(t), LoadsKept(t, x),
         CallKept(t, x), PlaceKnown(x)', NEW f \in Frames, NEW y, Touched(f, y),
         y.page = frame[f].page \/ Owns(th[t], f), y.dirty => frame[f].dirty,
         raced \subseteq raced', \A g \in Frames : Owns(x, g) <=> Owns(th[t], g),
         disk' \in [Pages -> SUBSET (1 .. MaxCalls)], truth' \in [Pages -> SUBSET (1 .. MaxCalls)],
         UNCHANGED <<map, lists, gc, stat, ncalls>>, PinsExact', LatchExact', OneWriter'
  PROVE  PoolInv'
<1>1. ContentTyped
  BY TouchedFrame DEF ContentTyped
<1>2. PagesKept(t, x)
  BY TouchedFrame DEF PagesKept
<1> QED
  BY <1>1, <1>2, Quiet DEF QuietStep

LEMMA HereIsFrame ==
  ASSUME PoolInv, NEW t \in Threads, th[t].pc \in Located
  PROVE  /\ CallShape(th[t]) /\ th[t] \in CallType /\ InCall(t) /\ DOMAIN th = Threads
         /\ th[t].f \in Frames /\ frame[th[t].f] \in FrameType /\ DOMAIN frame = Frames
         /\ PlaceKnown(th[t]) /\ disk \in [Pages -> SUBSET (1 .. MaxCalls)]
         /\ truth \in [Pages -> SUBSET (1 .. MaxCalls)] /\ loading \in SUBSET Pages
<1>1. th[t].pc # "idle"
  BY DEF Located
<1>2. CallShape(th[t]) /\ th[t] \in CallType /\ InCall(t) /\ DOMAIN th = Threads
  BY <1>1, InCallShape
<1> QED
  BY <1>2 DEF CallShape, PoolInv, PoolTyped, PlacesKnown

\* A thread that goes on with the page it was at keeps its loads and calls.
LEMMA GoesOn ==
  ASSUME PoolInv, NEW t \in Threads, InCall(t), NEW a \in Pcs, NEW x, x \in CallType, x.pc = a,
         x.kind = th[t].kind, x.p = th[t].p, x.loader = th[t].loader, loading' = loading,
         a \in LoadingPcs => th[t].pc \in LoadingPcs,
         a \notin {"hold", "pinned"} => th[t].pc \notin {"hold", "pinned"},
         Missing(x) => Missing(th[t])
  PROVE  LoadsKept(t, x) /\ CallKept(t, x)
BY DEF LoadsKept, CallKept, MissKept, Loads, Copies, Searching, InCall, PoolInv, PoolTyped, LoadersApart, Pcs, Missing

\* A thread that leaves a page it holds loads nothing.
LEMMA GoesIdle ==
  ASSUME PoolInv, loading' = loading, NEW t \in Threads
  PROVE  LoadsKept(t, Idle) /\ CallKept(t, Idle) /\ PlaceKnown(Idle)' /\ Shape(Idle)
         /\ \A g \in Frames : ~Pins(Idle, g) /\ ~Reads(Idle, g) /\ ~Excludes(Idle, g)
                              /\ ~Owns(Idle, g)
BY DEF LoadsKept, CallKept, Missing, Loads, Copies, Searching, PoolInv, PoolTyped, LoadingPcs, Idle,
       PlaceKnown, Shape, Pins, Reads, Excludes, Owns, Apart, MissKept

LEMMA PinStep ==
  ASSUME PoolInv, NEW t \in Threads, Pin(t)
  PROVE  PoolInv'
<1>0. PICK f, x, y : /\ f = th[t].f /\ x = [th[t] EXCEPT !.pc = "latch"]
                     /\ y = [frame[f] EXCEPT !.pins = @ + 1]
  OBVIOUS
<1>1. /\ th[t].pc = "pin" /\ CallShape(th[t]) /\ th[t] \in CallType /\ InCall(t)
      /\ DOMAIN th = Threads /\ f \in Frames /\ frame[f] \in FrameType /\ DOMAIN frame = Frames
      /\ PlaceKnown(th[t]) /\ disk \in [Pages -> SUBSET (1 .. MaxCalls)]
      /\ truth \in [Pages -> SUBSET (1 .. MaxCalls)]
  BY <1>0, HereIsFrame DEF Pin, Located
<1>2. th' = [th EXCEPT ![t] = x] /\ frame' = [frame EXCEPT ![f] = y]
  BY <1>0, <1>1 DEF Pin
<1>3. /\ x \in CallType /\ x.pc = "latch" /\ x.f = f /\ x.loader = th[t].loader
      /\ x.kind = th[t].kind /\ x.p = th[t].p
  <2>1. "latch" \in Pcs
    BY DEF Pcs
  <2> QED
    BY <1>0, <1>1, <2>1, TurnPc
<1>4. /\ y \in FrameType /\ y.page = frame[f].page /\ y.dirty = frame[f].dirty
      /\ y.pins = frame[f].pins + 1 /\ y.latch = frame[f].latch
  BY <1>0, <1>1 DEF FrameType
<1>5. Moved(t, x) /\ Touched(f, y)
  BY <1>1, <1>2, <1>3, <1>4 DEF Moved, Touched, Shape, CallShape, Located
<1>6. LoadsKept(t, x) /\ CallKept(t, x)
  BY <1>1, <1>3, GoesOn DEF Pin, Pcs, LoadingPcs, Missing
<1>7. PlaceKnown(x)'
  BY <1>0, <1>1, <1>3 DEF PlaceKnown, Pin, Missing, Apart
<1>8. /\ frame' \in [Frames -> FrameType] /\ frame'[f] = y
      /\ \A g \in Frames : g # f => frame'[g] = frame[g]
  BY <1>1, <1>5, TouchedFrame
<1>9. PinsExact'
  <2>1. \A g \in Frames : ~Pins(th[t], g) /\ (Pins(x, g) <=> g = f)
    BY <1>1, <1>3 DEF Pins, CallShape
  <2> QED
    BY <1>1, <1>4, <1>5, <1>8, <2>1, PinsTaken
<1>10. LatchExact' /\ OneWriter'
  <2>1. \A g \in Frames : /\ ~Reads(th[t], g) /\ ~Reads(x, g)
                          /\ ~Excludes(th[t], g) /\ ~Excludes(x, g)
    BY <1>1, <1>3 DEF Reads, Excludes, Owns
  <2> QED
    BY <1>1, <1>4, <1>5, <1>8, <2>1, LatchesSame
<1>11. \A g \in Frames : Owns(x, g) <=> Owns(th[t], g)
  BY <1>1, <1>3 DEF Owns
<1> QED
  BY <1>1, <1>4, <1>5, <1>6, <1>7, <1>9, <1>10, <1>11, TouchStep DEF Pin, counts

LEMMA LatchStep ==
  ASSUME PoolInv, NEW t \in Threads, Latch(t)
  PROVE  PoolInv'
<1>0. PICK f, l, x, y : /\ f = th[t].f /\ x = [th[t] EXCEPT !.pc = "verify"]
                        /\ l = IF Writes(t) THEN -1 ELSE frame[f].latch + 1
                        /\ y = [frame[f] EXCEPT !.latch = l]
  OBVIOUS
<1>1. /\ th[t].pc = "latch" /\ CallShape(th[t]) /\ th[t] \in CallType /\ InCall(t)
      /\ DOMAIN th = Threads /\ f \in Frames /\ frame[f] \in FrameType /\ DOMAIN frame = Frames
      /\ PlaceKnown(th[t]) /\ disk \in [Pages -> SUBSET (1 .. MaxCalls)]
      /\ truth \in [Pages -> SUBSET (1 .. MaxCalls)]
  BY <1>0, HereIsFrame DEF Latch, Located
<1>2. th' = [th EXCEPT ![t] = x] /\ frame' = [frame EXCEPT ![f] = y]
  BY <1>0, <1>1 DEF Latch
<1>3. /\ x \in CallType /\ x.pc = "verify" /\ x.f = f /\ x.loader = th[t].loader
      /\ x.kind = th[t].kind /\ x.p = th[t].p
  <2>1. "verify" \in Pcs
    BY DEF Pcs
  <2> QED
    BY <1>0, <1>1, <2>1, TurnPc
<1>4. /\ y \in FrameType /\ y.page = frame[f].page /\ y.dirty = frame[f].dirty
      /\ y.pins = frame[f].pins /\ y.latch = l
  <2>1. l \in {-1} \cup Nat
    BY <1>0, <1>1 DEF Latch, FrameType
  <2> QED
    BY <1>0, <1>1, <2>1 DEF FrameType
<1>5. Moved(t, x) /\ Touched(f, y)
  BY <1>1, <1>2, <1>3, <1>4 DEF Moved, Touched, Shape, CallShape, Located
<1>6. LoadsKept(t, x) /\ CallKept(t, x)
  BY <1>1, <1>3, GoesOn DEF Latch, Pcs, LoadingPcs, Missing
<1>7. PlaceKnown(x)'
  BY <1>0, <1>1, <1>3 DEF PlaceKnown, Latch, Missing, Apart
<1>8. /\ frame' \in [Frames -> FrameType] /\ frame'[f] = y
      /\ \A g \in Frames : g # f => frame'[g] = frame[g]
  BY <1>1, <1>5, TouchedFrame
<1>9. PinsExact'
  <2>1. \A g \in Frames : Pins(th[t], g) <=> Pins(x, g)
    BY <1>0, <1>1, <1>3 DEF Pins
  <2>2. \A g \in Frames : frame'[g].pins = frame[g].pins
    BY <1>4, <1>8
  <2> QED
    BY <1>5, <2>1, <2>2, PinsSame
<1>10. LatchExact' /\ OneWriter'
  <2>1. \A g \in Frames : ~Reads(th[t], g) /\ ~Excludes(th[t], g)
    BY <1>1 DEF Reads, Excludes, Owns
  <2>2. CASE Writes(t)
    <3>1. \A g \in Frames : ~Reads(x, g) /\ (Excludes(x, g) => g = f)
      BY <1>3, <2>2 DEF Reads, Excludes, Owns, Writes
    <3>2. frame[f].latch = 0
      BY <1>0, <2>2 DEF Latch, Unlatched
    <3>3. frame'[f].latch = -1 /\ \A g \in Frames \ {f} : frame'[g].latch = frame[g].latch
      BY <1>0, <1>4, <1>8, <2>2
    <3> QED
      BY <1>1, <1>5, <2>1, <3>1, <3>2, <3>3, WriterEnters
  <2>3. CASE ~Writes(t)
    <3>1. \A g \in Frames : (Reads(x, g) <=> g = f) /\ ~Excludes(x, g)
      BY <1>1, <1>3, <2>3 DEF Reads, Excludes, Owns, Writes
    <3>2. frame[f].latch >= 0
      BY <1>0, <2>3 DEF Latch
    <3>3. /\ frame[f].latch = Cardinality(Readers(f))
          /\ \A u \in Threads : ~Excludes(th[u], f)
      BY <1>1, <3>2 DEF PoolInv, LatchExact
    <3>4. Readers(f)' = Readers(f) \cup {t} /\ t \notin Readers(f) /\ Readers(f) \in SUBSET Threads
      BY <1>1, <1>5, <2>1, <3>1, MovedThread DEF Readers, PoolInv
    <3>5. Cardinality(Readers(f)') = Cardinality(Readers(f)) + 1
      BY <3>4, ThreadAdded
    <3>6. \A u \in Threads : ~Excludes(th'[u], f)
      BY <1>1, <1>5, <3>1, <3>3, MovedThread DEF PoolInv
    <3>7. frame'[f].latch = Cardinality(Readers(f)')
      BY <1>0, <1>4, <1>8, <2>3, <3>3, <3>5
    <3> QED
      BY <1>1, <1>5, <1>8, <2>1, <3>1, <3>6, <3>7, LatchesStep
  <2> QED
    BY <2>2, <2>3
<1>11. \A g \in Frames : Owns(x, g) <=> Owns(th[t], g)
  BY <1>1, <1>3 DEF Owns
<1> QED
  BY <1>1, <1>4, <1>5, <1>6, <1>7, <1>9, <1>10, <1>11, TouchStep DEF Latch, counts

LEMMA PinnedFrame ==
  ASSUME PoolInv, NEW t \in Threads, NEW f \in Frames, Pins(th[t], f)
  PROVE  frame[f].pins \in Nat \ {0}
<1>1. t \in Pinners(f) /\ Pinners(f) \in SUBSET Threads
  BY DEF Pinners
<1>2. Cardinality(Pinners(f)) \in Nat /\ Cardinality(Pinners(f)) # 0
  BY <1>1, ThreadCount
<1> QED
  BY <1>2 DEF PoolInv, PinsExact

\* r_unlatch: the thread gives back its shared latch and its pin.
LEMMA GiveBackStep ==
  ASSUME PoolInv, NEW t \in Threads, th[t].pc \in {"verify", "hold"}, th[t].kind # "slot",
         frame' = Unlatch(t, th[t].f), NEW x, Moved(t, x),
         \A g \in Frames : ~Pins(x, g) /\ ~Reads(x, g) /\ ~Excludes(x, g) /\ ~Owns(x, g),
         LoadsKept(t, x), CallKept(t, x), PlaceKnown(x)',
         raced \subseteq raced',
         UNCHANGED <<lists, counts, map, disk, gc, stat, truth>>
  PROVE  PoolInv'
<1>0. PICK f, y : /\ f = th[t].f
                  /\ y = [frame[f] EXCEPT !.latch = @ - 1, !.pins = @ - 1]
  OBVIOUS
<1>1. /\ CallShape(th[t]) /\ InCall(t) /\ DOMAIN th = Threads /\ f \in Frames
      /\ frame[f] \in FrameType /\ DOMAIN frame = Frames
      /\ disk \in [Pages -> SUBSET (1 .. MaxCalls)] /\ truth \in [Pages -> SUBSET (1 .. MaxCalls)]
  BY <1>0, HereIsFrame DEF Located
<1>2. /\ Reads(th[t], f) /\ \A g \in Frames : Pins(th[t], g) <=> g = f
      /\ \A g \in Frames : ~Owns(th[t], g)
  BY <1>0 DEF Reads, Pins, Owns
<1>3. frame[f].latch \in Nat \ {0} /\ frame[f].pins \in Nat \ {0}
  BY <1>1, <1>2, LatchedShared, PinnedFrame
<1>4. /\ y \in FrameType /\ y.page = frame[f].page /\ y.dirty = frame[f].dirty
      /\ y.pins = frame[f].pins - 1 /\ y.latch = frame[f].latch - 1
  <2>1. PICK l : l = frame[f].latch - 1
    OBVIOUS
  <2>2. PICK n : n = frame[f].pins - 1
    OBVIOUS
  <2>3. l \in Nat /\ n \in Nat
    BY <1>3, <2>1, <2>2
  <2>4. y = [frame[f] EXCEPT !.latch = l, !.pins = n]
    BY <1>0, <1>1, <2>1, <2>2 DEF FrameType
  <2> QED
    BY <1>1, <2>1, <2>2, <2>3, <2>4 DEF FrameType
<1>5. Touched(f, y)
  BY <1>0, <1>1, <1>4 DEF Touched, Unlatch, Writes
<1>6. frame'[f] = y /\ \A g \in Frames : g # f => frame'[g] = frame[g]
  BY <1>1, <1>5, TouchedFrame
<1>7. PinsExact'
  BY <1>1, <1>2, <1>4, <1>6, PinsGiven
<1>8. LatchExact' /\ OneWriter'
  BY <1>1, <1>2, <1>4, <1>6, ReaderLeaves
<1> QED
  BY <1>1, <1>2, <1>4, <1>5, <1>7, <1>8, TouchStep DEF counts

LEMMA VerifyHitStep ==
  ASSUME PoolInv, NEW t \in Threads, Verify(t), Verified(t)
  PROVE  PoolInv'
<1>0. PICK f, x, y : /\ f = th[t].f /\ x = [th[t] EXCEPT !.pc = "hold"]
                     /\ y = [frame[f] EXCEPT !.ref = TRUE]
  OBVIOUS
<1>1. /\ th[t].pc = "verify" /\ CallShape(th[t]) /\ th[t] \in CallType /\ InCall(t)
      /\ DOMAIN th = Threads /\ f \in Frames /\ frame[f] \in FrameType /\ DOMAIN frame = Frames
      /\ disk \in [Pages -> SUBSET (1 .. MaxCalls)] /\ truth \in [Pages -> SUBSET (1 .. MaxCalls)]
      /\ loading \in SUBSET Pages
  BY <1>0, HereIsFrame DEF Verify, Located
<1>2. /\ th' = [th EXCEPT ![t] = x] /\ frame' = [frame EXCEPT ![f] = y] /\ map' = map
      /\ loading' = IF th[t].loader THEN loading \ {th[t].p} ELSE loading
  BY <1>0, <1>1 DEF Verify
<1>3. /\ x \in CallType /\ x.pc = "hold" /\ x.f = f /\ x.loader = th[t].loader
      /\ x.kind = th[t].kind /\ x.p = th[t].p
  <2>1. "hold" \in Pcs
    BY DEF Pcs
  <2> QED
    BY <1>0, <1>1, <2>1, TurnPc
<1>4. /\ y \in FrameType /\ y.page = frame[f].page /\ y.dirty = frame[f].dirty
      /\ y.pins = frame[f].pins /\ y.latch = frame[f].latch
  BY <1>0, <1>1 DEF FrameType
<1>5. Moved(t, x) /\ Touched(f, y)
  BY <1>1, <1>2, <1>3, <1>4 DEF Moved, Touched, Shape, CallShape, Located
<1>6. LoadsKept(t, x) /\ CallKept(t, x)
  BY <1>1, <1>2, <1>3 DEF LoadsKept, CallKept, Loads, LoadingPcs, Copies, Searching, CallShape, Missing, MissKept
<1>7. PlaceKnown(x)'
  BY <1>0, <1>2, <1>3 DEF PlaceKnown, Verified, Missing, Apart
<1>8. /\ frame' \in [Frames -> FrameType] /\ frame'[f] = y
      /\ \A g \in Frames : g # f => frame'[g] = frame[g]
  BY <1>1, <1>5, TouchedFrame
<1>9. PinsExact'
  <2>1. \A g \in Frames : Pins(x, g) <=> Pins(th[t], g)
    BY <1>0, <1>1, <1>3 DEF Pins
  <2>2. \A g \in Frames : frame'[g].pins = frame[g].pins
    BY <1>4, <1>8
  <2> QED
    BY <1>5, <2>1, <2>2, PinsSame
<1>10. LatchExact' /\ OneWriter'
  <2>1. \A g \in Frames : /\ Reads(x, g) <=> Reads(th[t], g)
                          /\ Excludes(x, g) <=> Excludes(th[t], g)
    BY <1>0, <1>1, <1>3 DEF Reads, Excludes, Owns
  <2>2. \A g \in Frames : frame'[g].latch = frame[g].latch
    BY <1>4, <1>8
  <2> QED
    BY <1>5, <2>1, <2>2, LatchesSame
<1>11. \A g \in Frames : Owns(x, g) <=> Owns(th[t], g)
  BY <1>1, <1>3 DEF Owns
<1> QED
  BY <1>1, <1>4, <1>5, <1>6, <1>7, <1>9, <1>10, <1>11, TouchStep DEF Verify, counts

LEMMA VerifyMissStep ==
  ASSUME PoolInv, NEW t \in Threads, Verify(t), ~Verified(t)
  PROVE  PoolInv'
<1>0. PICK f, x, a : /\ f = th[t].f /\ a = IF th[t].loader THEN "claim" ELSE "register"
                     /\ x = [th[t] EXCEPT !.pc = a]
  OBVIOUS
<1>1. /\ th[t].pc = "verify" /\ CallShape(th[t]) /\ th[t] \in CallType /\ InCall(t)
      /\ DOMAIN th = Threads /\ f \in Frames /\ frame[f] \in FrameType /\ DOMAIN frame = Frames
      /\ PlaceKnown(th[t]) /\ disk \in [Pages -> SUBSET (1 .. MaxCalls)]
      /\ truth \in [Pages -> SUBSET (1 .. MaxCalls)]
  BY <1>0, HereIsFrame DEF Verify, Located
<1>2. /\ th' = [th EXCEPT ![t] = x] /\ frame' = Unlatch(t, f) /\ map' = map /\ loading' = loading
  BY <1>0, <1>1 DEF Verify
<1>3. /\ x \in CallType /\ x.pc = a /\ x.f = f /\ x.loader = th[t].loader
      /\ x.kind = th[t].kind /\ x.p = th[t].p /\ a \in Pcs
  <2>1. a \in Pcs
    BY <1>0 DEF Pcs
  <2> QED
    BY <1>0, <1>1, <2>1, TurnPc
<1>5. Moved(t, x)
  BY <1>0, <1>1, <1>2, <1>3 DEF Moved, Shape, CallShape, Located
<1>4. /\ raced \subseteq raced'
      /\ (th[t].loader /\ Apart') => /\ MissKept(t, x)
                                     /\ th[t].kind = "scan" => map[th[t].p] = NoFrame
  <2>1. CASE th[t].loader
    <3>1. raced' = Missed(t)
      BY <2>1 DEF Verify
    <3> QED
      BY <1>3, <3>1, MissedApart
  <2>2. CASE ~th[t].loader
    BY <2>2 DEF Verify
  <2> QED
    BY <2>1, <2>2
<1>6. LoadsKept(t, x) /\ CallKept(t, x)
  <2>1. LoadsKept(t, x)
    BY <1>0, <1>1, <1>2, <1>3 DEF LoadsKept, Loads, LoadingPcs, PoolInv, PoolTyped, LoadersApart
  <2>2. Missing(x) => th[t].loader
    BY <1>0, <1>3 DEF Missing
  <2>3. CallKept(t, x)
    BY <1>0, <1>1, <1>3, <1>4, <2>2 DEF CallKept, Copies, Searching, CallShape
  <2> QED
    BY <2>1, <2>3
<1>7. PlaceKnown(x)'
  <2>0. Apart' => Apart
    BY <1>4, ApartKept
  <2>1. CASE th[t].loader
    <3> SUFFICES ASSUME Apart' PROVE map[th[t].p] = NoFrame
      BY <1>0, <1>2, <1>3, <2>1 DEF PlaceKnown, Missing
    <3>1. CASE th[t].kind = "scan"
      BY <1>4, <2>1, <3>1
    <3>2. CASE th[t].kind # "scan"
      <4>1. map[th[t].p] \in {f, NoFrame}
        BY <1>0, <1>1, <2>0, <2>1, <3>2 DEF PlaceKnown
      <4> QED
        BY <1>0, <1>1, <4>1 DEF Verified, PoolInv, MapExact, CallType
    <3> QED
      BY <3>1, <3>2
  <2>2. CASE ~th[t].loader
    BY <1>0, <1>2, <1>3, <2>2 DEF PlaceKnown, Missing
  <2> QED
    BY <2>1, <2>2
<1>8. \A g \in Frames : ~Pins(x, g) /\ ~Reads(x, g) /\ ~Excludes(x, g) /\ ~Owns(x, g)
  BY <1>0, <1>3 DEF Pins, Reads, Excludes, Owns
<1>9. CASE ~Writes(t)
  BY <1>0, <1>1, <1>2, <1>4, <1>5, <1>6, <1>7, <1>8, <1>9, GiveBackStep DEF Verify, Writes
<1>10. CASE Writes(t)
  <2>0. PICK y : y = [frame[f] EXCEPT !.latch = 0]
    OBVIOUS
  <2>1. /\ y \in FrameType /\ y.page = frame[f].page /\ y.dirty = frame[f].dirty
        /\ y.pins = frame[f].pins /\ y.latch = 0
    BY <1>1, <2>0 DEF FrameType
  <2>2. Touched(f, y)
    BY <1>1, <1>2, <1>10, <2>0, <2>1 DEF Touched, Unlatch
  <2>3. frame'[f] = y /\ \A g \in Frames : g # f => frame'[g] = frame[g]
    BY <1>1, <2>2, TouchedFrame
  <2>4. PinsExact'
    <3>1. \A g \in Frames : ~Pins(th[t], g)
      BY <1>10 DEF Pins, Writes
    <3>2. \A g \in Frames : frame'[g].pins = frame[g].pins
      BY <2>1, <2>3
    <3> QED
      BY <1>5, <1>8, <3>1, <3>2, PinsSame
  <2>5. LatchExact' /\ OneWriter'
    <3>1. Excludes(th[t], f)
      BY <1>0, <1>1, <1>10 DEF Excludes, Writes
    <3>2. frame'[f].latch = 0 /\ \A g \in Frames \ {f} : frame'[g].latch = frame[g].latch
      BY <2>1, <2>3
    <3> QED
      BY <1>1, <1>5, <1>8, <3>1, <3>2, WriterLeaves
  <2>6. \A g \in Frames : ~Owns(th[t], g)
    BY <1>1 DEF Owns
  <2> QED
    BY <1>1, <1>4, <1>5, <1>6, <1>7, <1>8, <2>1, <2>2, <2>4, <2>5, <2>6, TouchStep
       DEF Verify, counts
<1> QED
  BY <1>9, <1>10

LEMMA ReleaseStep ==
  ASSUME PoolInv, NEW t \in Threads, Release(t)
  PROVE  PoolInv'
<1>1. /\ th[t].pc = "hold" /\ th[t].kind # "slot" /\ loading' = loading
      /\ th' = [th EXCEPT ![t] = Idle] /\ frame' = Unlatch(t, th[t].f)
  BY DEF Release
<1>2. Moved(t, Idle)
  BY <1>1, GoesIdle DEF Moved
<1> QED
  BY <1>1, <1>2, GoesIdle, GiveBackStep DEF Release

LEMMA KeepStep ==
  ASSUME PoolInv, NEW t \in Threads, Keep(t)
  PROVE  PoolInv'
<1>0. PICK f, x, y : /\ f = th[t].f /\ x = [th[t] EXCEPT !.pc = "pinned"]
                     /\ y = [frame[f] EXCEPT !.latch = @ - 1]
  OBVIOUS
<1>1. /\ th[t].pc = "hold" /\ CallShape(th[t]) /\ th[t] \in CallType /\ InCall(t)
      /\ DOMAIN th = Threads /\ f \in Frames /\ frame[f] \in FrameType /\ DOMAIN frame = Frames
      /\ disk \in [Pages -> SUBSET (1 .. MaxCalls)] /\ truth \in [Pages -> SUBSET (1 .. MaxCalls)]
      /\ PlaceKnown(th[t]) /\ th[t].kind = "job"
  BY <1>0, HereIsFrame DEF Keep, Located
<1>2. th' = [th EXCEPT ![t] = x] /\ frame' = [frame EXCEPT ![f] = y]
  BY <1>0, <1>1 DEF Keep
<1>3. /\ x \in CallType /\ x.pc = "pinned" /\ x.f = f /\ x.loader = th[t].loader
      /\ x.kind = th[t].kind /\ x.p = th[t].p
  <2>1. "pinned" \in Pcs
    BY DEF Pcs
  <2> QED
    BY <1>0, <1>1, <2>1, TurnPc
<1>4. Reads(th[t], f) /\ frame[f].latch \in Nat \ {0}
  <2>1. Reads(th[t], f)
    BY <1>0, <1>1 DEF Reads
  <2> QED
    BY <1>1, <2>1, LatchedShared
<1>5. /\ y \in FrameType /\ y.page = frame[f].page /\ y.dirty = frame[f].dirty
      /\ y.pins = frame[f].pins /\ y.latch = frame[f].latch - 1
  BY <1>0, <1>1, <1>4 DEF FrameType
<1>6. Moved(t, x) /\ Touched(f, y)
  BY <1>1, <1>2, <1>3, <1>5 DEF Moved, Touched, Shape, CallShape, Located
<1>7. LoadsKept(t, x) /\ CallKept(t, x)
  BY <1>1, <1>3, GoesOn DEF Keep, Pcs, LoadingPcs, Missing
<1>8. PlaceKnown(x)'
  BY <1>0, <1>1, <1>3 DEF PlaceKnown, Keep, Missing, Apart
<1>9. /\ frame' \in [Frames -> FrameType] /\ frame'[f] = y
      /\ \A g \in Frames : g # f => frame'[g] = frame[g]
  BY <1>1, <1>6, TouchedFrame
<1>10. PinsExact'
  <2>1. \A g \in Frames : Pins(x, g) <=> Pins(th[t], g)
    BY <1>0, <1>1, <1>3 DEF Pins
  <2>2. \A g \in Frames : frame'[g].pins = frame[g].pins
    BY <1>5, <1>9
  <2> QED
    BY <1>6, <2>1, <2>2, PinsSame
<1>11. LatchExact' /\ OneWriter'
  <2>1. \A g \in Frames : ~Reads(x, g) /\ ~Excludes(x, g)
    BY <1>1, <1>3 DEF Reads, Excludes, Owns
  <2> QED
    BY <1>1, <1>4, <1>5, <1>6, <1>9, <2>1, ReaderLeaves
<1>12. \A g \in Frames : Owns(x, g) <=> Owns(th[t], g)
  BY <1>1, <1>3 DEF Owns
<1> QED
  BY <1>1, <1>5, <1>6, <1>7, <1>8, <1>10, <1>11, <1>12, TouchStep DEF Keep, counts

LEMMA UnpinStep ==
  ASSUME PoolInv, NEW t \in Threads, Unpin(t)
  PROVE  PoolInv'
<1>0. PICK f, y : f = th[t].f /\ y = [frame[f] EXCEPT !.pins = @ - 1]
  OBVIOUS
<1>1. /\ th[t].pc = "pinned" /\ CallShape(th[t]) /\ InCall(t)
      /\ DOMAIN th = Threads /\ f \in Frames /\ frame[f] \in FrameType /\ DOMAIN frame = Frames
      /\ disk \in [Pages -> SUBSET (1 .. MaxCalls)] /\ truth \in [Pages -> SUBSET (1 .. MaxCalls)]
      /\ th[t].kind = "job"
  BY <1>0, HereIsFrame DEF Unpin, Located, CallShape
<1>2. /\ \A g \in Frames : Pins(th[t], g) <=> g = f
      /\ \A g \in Frames : ~Reads(th[t], g) /\ ~Excludes(th[t], g) /\ ~Owns(th[t], g)
  BY <1>0, <1>1 DEF Pins, Reads, Excludes, Owns
<1>3. /\ y \in FrameType /\ y.page = frame[f].page /\ y.dirty = frame[f].dirty
      /\ y.pins = frame[f].pins - 1 /\ y.latch = frame[f].latch
  <2>1. frame[f].pins \in Nat \ {0}
    BY <1>1, <1>2, PinnedFrame
  <2> QED
    BY <1>0, <1>1, <2>1 DEF FrameType
<1>4. Moved(t, Idle) /\ Touched(f, y) /\ loading' = loading
  BY <1>0, <1>1, <1>3, GoesIdle DEF Unpin, Moved, Touched
<1>5. frame'[f] = y /\ \A g \in Frames : g # f => frame'[g] = frame[g]
  BY <1>1, <1>4, TouchedFrame
<1>6. PinsExact'
  BY <1>1, <1>2, <1>3, <1>4, <1>5, GoesIdle, PinsGiven
<1>7. LatchExact' /\ OneWriter'
  BY <1>1, <1>2, <1>3, <1>4, <1>5, GoesIdle, LatchesSame
<1> QED
  BY <1>1, <1>2, <1>3, <1>4, <1>6, <1>7, GoesIdle, TouchStep DEF Unpin, counts

LEMMA SlotWriteStep ==
  ASSUME PoolInv, NEW t \in Threads, SlotWrite(t)
  PROVE  PoolInv'
<1>0. PICK f, y, d : /\ f = th[t].f /\ d = frame[f].data \cup {ncalls}
                     /\ y = [frame[f] EXCEPT !.data = d, !.latch = 0]
  OBVIOUS
<1>1. /\ th[t].pc = "hold" /\ CallShape(th[t]) /\ th[t] \in CallType /\ InCall(t)
      /\ DOMAIN th = Threads /\ f \in Frames /\ frame[f] \in FrameType /\ DOMAIN frame = Frames
      /\ disk \in [Pages -> SUBSET (1 .. MaxCalls)] /\ truth \in [Pages -> SUBSET (1 .. MaxCalls)]
      /\ th[t].kind = "slot"
  BY <1>0, HereIsFrame DEF SlotWrite, Located, Writes
<1>2. ncalls \in 1 .. MaxCalls
  BY <1>1, BufPoolAssumption DEF PoolInv, PoolTyped
<1>3. /\ Excludes(th[t], f) /\ \A g \in Frames : ~Pins(th[t], g) /\ ~Owns(th[t], g)
  BY <1>0, <1>1 DEF Pins, Excludes, Owns
<1>4. /\ y \in FrameType /\ y.page = frame[f].page /\ y.dirty = frame[f].dirty
      /\ y.pins = frame[f].pins /\ y.latch = 0
  <2>1. d \in SUBSET (1 .. MaxCalls)
    BY <1>0, <1>1, <1>2 DEF FrameType
  <2> QED
    BY <1>0, <1>1, <2>1 DEF FrameType
<1>5. /\ Moved(t, Idle) /\ Touched(f, y) /\ loading' = loading
      /\ truth' \in [Pages -> SUBSET (1 .. MaxCalls)]
  <2>1. frame' = [frame EXCEPT ![f] = y]
    BY <1>0, <1>1 DEF SlotWrite
  <2>2. truth' \in [Pages -> SUBSET (1 .. MaxCalls)]
    BY <1>1, <1>2 DEF SlotWrite
  <2> QED
    BY <1>4, <2>1, <2>2, GoesIdle DEF SlotWrite, Moved, Touched
<1>6. frame'[f] = y /\ \A g \in Frames : g # f => frame'[g] = frame[g]
  BY <1>1, <1>5, TouchedFrame
<1>7. PinsExact'
  BY <1>1, <1>3, <1>4, <1>5, <1>6, GoesIdle, PinsSame
<1>8. LatchExact' /\ OneWriter'
  BY <1>1, <1>3, <1>4, <1>5, <1>6, GoesIdle, WriterLeaves
<1> QED
  BY <1>1, <1>3, <1>4, <1>5, <1>7, <1>8, GoesIdle, TouchStep DEF SlotWrite, counts

-----------------------------------------------------------------------------
(* Loading a claimed frame *)

\* The loader's own load ends: w_to_r_latch for a reader.
LEMMA FinishStep ==
  ASSUME PoolInv, NEW t \in Threads, Finish(t)
  PROVE  PoolInv'
<1>0. PICK f, x : f = th[t].f /\ x = [th[t] EXCEPT !.pc = "hold"]
  OBVIOUS
<1>1. /\ th[t].pc = "finish" /\ CallShape(th[t]) /\ th[t] \in CallType /\ InCall(t)
      /\ DOMAIN th = Threads /\ f \in Frames /\ frame[f] \in FrameType /\ DOMAIN frame = Frames
      /\ disk \in [Pages -> SUBSET (1 .. MaxCalls)] /\ truth \in [Pages -> SUBSET (1 .. MaxCalls)]
      /\ loading \in SUBSET Pages /\ PlaceKnown(th[t])
  BY <1>0, HereIsFrame DEF Finish, Located
<1>2. /\ th' = [th EXCEPT ![t] = x] /\ map' = map /\ loading' = loading \ {th[t].p}
  BY <1>0, <1>1 DEF Finish, FinishLoad
<1>3. /\ x \in CallType /\ x.pc = "hold" /\ x.f = f /\ x.loader = th[t].loader
      /\ x.kind = th[t].kind /\ x.p = th[t].p
  <2>1. "hold" \in Pcs
    BY DEF Pcs
  <2> QED
    BY <1>0, <1>1, <2>1, TurnPc
<1>4. Moved(t, x)
  BY <1>1, <1>2, <1>3 DEF Moved, Shape, CallShape, Located
<1>5. LoadsKept(t, x) /\ CallKept(t, x)
  BY <1>1, <1>2, <1>3 DEF LoadsKept, CallKept, Loads, LoadingPcs, Copies, Searching, CallShape, Missing, MissKept
<1>6. PlaceKnown(x)'
  BY <1>0, <1>1, <1>2, <1>3 DEF PlaceKnown, Missing, Apart, Finish
<1>7. \A g \in Frames : ~Owns(x, g) /\ ~Owns(th[t], g) /\ ~Pins(th[t], g)
  BY <1>1, <1>3 DEF Owns, Pins
<1>8. Excludes(th[t], f) /\ \A g \in Frames : Excludes(th[t], g) => g = f
  BY <1>0, <1>1 DEF Excludes, Owns
<1>9. CASE Writes(t)
  <2>1. Touched(f, frame[f]) /\ frame' = frame
    <3>1. frame \in [Frames -> FrameType] /\ frame' = frame
      BY <1>9 DEF Finish, PoolInv, PoolTyped
    <3> QED
      BY <1>1, <3>1 DEF Touched
  <2>2. \A g \in Frames : ~Pins(x, g)
    BY <1>3, <1>9 DEF Pins, Writes
  <2>3. PinsExact'
    BY <1>4, <1>7, <2>1, <2>2, PinsSame
  <2>4. \A g \in Frames : /\ Reads(x, g) <=> Reads(th[t], g)
                          /\ Excludes(x, g) <=> Excludes(th[t], g)
    BY <1>0, <1>1, <1>3, <1>9 DEF Reads, Excludes, Owns, Writes
  <2>5. LatchExact' /\ OneWriter'
    BY <1>4, <2>1, <2>4, LatchesSame
  <2> QED
    BY <1>1, <1>4, <1>5, <1>6, <1>7, <2>1, <2>3, <2>5, TouchStep DEF Finish, counts
<1>10. CASE ~Writes(t)
  <2>0. PICK y : y = [frame[f] EXCEPT !.latch = 1, !.pins = @ + 1]
    OBVIOUS
  <2>1. /\ y \in FrameType /\ y.page = frame[f].page /\ y.dirty = frame[f].dirty
        /\ y.pins = frame[f].pins + 1 /\ y.latch = 1
    <3>1. PICK n \in Nat : n = frame[f].pins + 1
      BY <1>1 DEF FrameType
    <3>2. y = [frame[f] EXCEPT !.latch = 1, !.pins = n]
      BY <1>1, <2>0, <3>1 DEF FrameType
    <3> QED
      BY <1>1, <3>1, <3>2 DEF FrameType
  <2>2. Touched(f, y)
    BY <1>0, <1>1, <1>10, <2>0, <2>1 DEF Finish, Touched
  <2>3. frame'[f] = y /\ \A g \in Frames : g # f => frame'[g] = frame[g]
    BY <1>1, <2>2, TouchedFrame
  <2>4. \A g \in Frames : /\ Pins(x, g) <=> g = f
                          /\ Reads(x, g) <=> g = f
                          /\ ~Excludes(x, g) /\ ~Reads(th[t], g)
    BY <1>1, <1>3, <1>10 DEF Pins, Reads, Excludes, Owns, Writes
  <2>5. PinsExact'
    BY <1>1, <1>4, <1>7, <2>1, <2>3, <2>4, PinsTaken
  <2>6. LatchExact' /\ OneWriter'
    <3>1. Readers(f) = {} /\ \A u \in Threads : Excludes(th[u], f) => u = t
      BY <1>1, <1>8, LatchedExclusive
    <3>2. \A u \in Threads : ~Excludes(th'[u], f)
      BY <1>1, <1>4, <2>4, <3>1, MovedThread DEF PoolInv
    <3>3. frame'[f].latch = Cardinality(Readers(f)')
      <4>1. Readers(f)' = {t}
        BY <1>1, <1>4, <2>4, <3>1, MovedThread DEF Readers, PoolInv
      <4> QED
        BY <2>1, <2>3, <4>1, FS_Singleton
    <3>4. \A g \in Frames \ {f} : /\ frame'[g].latch = frame[g].latch
                                  /\ Reads(x, g) <=> Reads(th[t], g)
                                  /\ Excludes(x, g) <=> Excludes(th[t], g)
      BY <1>8, <2>3, <2>4
    <3> QED
      BY <1>1, <1>4, <3>2, <3>3, <3>4, LatchesStep
  <2> QED
    BY <1>1, <1>4, <1>5, <1>6, <1>7, <2>1, <2>2, <2>5, <2>6, TouchStep DEF Finish, counts
<1> QED
  BY <1>9, <1>10

\* The frame that t is refilling changes its content, and t goes on.
LEMMA RefillStep ==
  ASSUME PoolInv, NEW t \in Threads, th[t].pc \in {"writeback", "fill"},
         NEW a \in {"fill", "publish"}, NEW y \in FrameType,
         th' = [th EXCEPT ![t].pc = a], frame' = [frame EXCEPT ![th[t].f] = y],
         y.pins = frame[th[t].f].pins, y.latch = frame[th[t].f].latch,
         y.dirty => frame[th[t].f].dirty, a = "publish" => y.page = th[t].p,
         raced \subseteq raced',
         disk' \in [Pages -> SUBSET (1 .. MaxCalls)], truth' \in [Pages -> SUBSET (1 .. MaxCalls)],
         UNCHANGED <<lists, counts, map, loading, gc, stat>>
  PROVE  PoolInv'
<1>0. PICK f, x : f = th[t].f /\ x = [th[t] EXCEPT !.pc = a]
  OBVIOUS
<1>1. /\ CallShape(th[t]) /\ th[t] \in CallType /\ InCall(t)
      /\ DOMAIN th = Threads /\ f \in Frames /\ frame[f] \in FrameType /\ DOMAIN frame = Frames
      /\ PlaceKnown(th[t])
  BY <1>0, HereIsFrame DEF Located
<1>2. /\ x \in CallType /\ x.pc = a /\ x.f = f /\ x.loader = th[t].loader
      /\ x.kind = th[t].kind /\ x.p = th[t].p /\ a \in Pcs
  <2>1. a \in Pcs
    BY DEF Pcs
  <2> QED
    BY <1>0, <1>1, <2>1, TurnPc
<1>3. Moved(t, x) /\ Touched(f, y)
  BY <1>0, <1>1, <1>2 DEF Moved, Touched, Shape, CallShape, Located
<1>4. LoadsKept(t, x) /\ CallKept(t, x)
  BY <1>1, <1>2, GoesOn DEF LoadingPcs, Missing
<1>5. frame'[f] = y /\ \A g \in Frames : g # f => frame'[g] = frame[g]
  BY <1>1, <1>3, TouchedFrame
<1>6. PlaceKnown(x)'
  BY <1>0, <1>1, <1>2, <1>5 DEF PlaceKnown, Missing, Apart
<1>7. \A g \in Frames : /\ Owns(x, g) <=> g = f
                        /\ Owns(th[t], g) <=> g = f
                        /\ ~Pins(x, g) /\ ~Pins(th[t], g) /\ ~Reads(x, g) /\ ~Reads(th[t], g)
                        /\ Excludes(x, g) <=> Excludes(th[t], g)
  BY <1>0, <1>2 DEF Owns, Pins, Reads, Excludes
<1>8. PinsExact'
  BY <1>0, <1>3, <1>5, <1>7, PinsSame
<1>9. LatchExact' /\ OneWriter'
  BY <1>0, <1>3, <1>5, <1>7, LatchesSame
<1> QED
  BY <1>0, <1>1, <1>3, <1>4, <1>6, <1>7, <1>8, <1>9, TouchStep DEF counts

LEMMA WriteBackStep ==
  ASSUME PoolInv, NEW t \in Threads, WriteBack(t)
  PROVE  PoolInv'
<1>0. PICK y : y = [frame[th[t].f] EXCEPT !.dirty = FALSE]
  OBVIOUS
<1>1. /\ th[t].pc = "writeback" /\ th[t].f \in Frames /\ frame[th[t].f] \in FrameType
      /\ DOMAIN frame = Frames /\ disk \in [Pages -> SUBSET (1 .. MaxCalls)]
      /\ truth \in [Pages -> SUBSET (1 .. MaxCalls)]
  BY HereIsFrame DEF WriteBack, Located
<1>2. /\ y \in FrameType /\ y.pins = frame[th[t].f].pins /\ y.latch = frame[th[t].f].latch
      /\ ~y.dirty
  BY <1>0, <1>1 DEF FrameType
<1>3. frame' = [frame EXCEPT ![th[t].f] = y] /\ th' = [th EXCEPT ![t].pc = "fill"]
  BY <1>0, <1>1 DEF WriteBack
<1>4. disk' \in [Pages -> SUBSET (1 .. MaxCalls)]
  BY <1>1 DEF WriteBack, FrameType
<1> QED
  BY <1>1, <1>2, <1>3, <1>4, RefillStep DEF WriteBack

LEMMA FillStep ==
  ASSUME PoolInv, NEW t \in Threads, Fill(t)
  PROVE  PoolInv'
<1>0. PICK p, d, y : /\ p = th[t].p /\ d = disk[p]
                     /\ y = [frame[th[t].f] EXCEPT !.page = p, !.data = d, !.ref = TRUE]
  OBVIOUS
<1>1. /\ th[t].pc = "fill" /\ th[t].f \in Frames /\ frame[th[t].f] \in FrameType
      /\ DOMAIN frame = Frames /\ disk \in [Pages -> SUBSET (1 .. MaxCalls)]
      /\ truth \in [Pages -> SUBSET (1 .. MaxCalls)] /\ th[t] \in CallType
  BY HereIsFrame DEF Fill, Located
<1>2. p \in 0 .. NumPages /\ d \in SUBSET (1 .. MaxCalls)
  BY <1>0, <1>1, BufPoolAssumption DEF CallType, Pages
<1>3. /\ y \in FrameType /\ y.pins = frame[th[t].f].pins /\ y.latch = frame[th[t].f].latch
      /\ y.dirty = frame[th[t].f].dirty /\ y.page = p
  BY <1>0, <1>1, <1>2 DEF FrameType
<1>4. /\ frame' = [frame EXCEPT ![th[t].f] = y] /\ th' = [th EXCEPT ![t].pc = "publish"]
      /\ raced \subseteq raced' /\ UNCHANGED <<lists, counts, map, loading, gc, stat, disk, truth>>
  BY <1>0, <1>1 DEF Fill
<1>5. "publish" \in {"fill", "publish"} /\ th[t].pc \in {"writeback", "fill"} /\ y.page = th[t].p
  BY <1>0, <1>1, <1>3
<1> QED
  BY <1>1, <1>3, <1>4, <1>5, RefillStep

LEMMA CpFillStep ==
  ASSUME PoolInv, NEW t \in Threads, CpFill(t)
  PROVE  PoolInv'
<1>0. PICK p, d, y : /\ p = th[t].p /\ d = {ncalls}
                     /\ y = [frame[th[t].f] EXCEPT !.page = p, !.data = d, !.ref = TRUE]
  OBVIOUS
<1>1. /\ th[t].pc = "fill" /\ th[t].f \in Frames /\ frame[th[t].f] \in FrameType
      /\ DOMAIN frame = Frames /\ disk \in [Pages -> SUBSET (1 .. MaxCalls)]
      /\ truth \in [Pages -> SUBSET (1 .. MaxCalls)] /\ th[t] \in CallType /\ InCall(t)
  BY HereIsFrame DEF CpFill, Located
<1>2. p \in 0 .. NumPages /\ d \in SUBSET (1 .. MaxCalls)
  <2>1. ncalls \in 1 .. MaxCalls
    BY <1>1, BufPoolAssumption DEF PoolInv, PoolTyped
  <2> QED
    BY <1>0, <1>1, <2>1, BufPoolAssumption DEF CallType, Pages
<1>3. /\ y \in FrameType /\ y.pins = frame[th[t].f].pins /\ y.latch = frame[th[t].f].latch
      /\ y.dirty = frame[th[t].f].dirty /\ y.page = p
  BY <1>0, <1>1, <1>2 DEF FrameType
<1>4. /\ frame' = [frame EXCEPT ![th[t].f] = y] /\ th' = [th EXCEPT ![t].pc = "publish"]
      /\ truth' \in [Pages -> SUBSET (1 .. MaxCalls)] /\ raced \subseteq raced'
      /\ UNCHANGED <<lists, counts, map, loading, gc, stat, disk>>
  BY <1>0, <1>1, <1>2 DEF CpFill
<1>5. "publish" \in {"fill", "publish"} /\ th[t].pc \in {"writeback", "fill"} /\ y.page = th[t].p
  BY <1>0, <1>1, <1>3
<1> QED
  BY <1>1, <1>3, <1>4, <1>5, RefillStep

-----------------------------------------------------------------------------
(* Claiming a frame *)

LEMMA ClearedSame ==
  ASSUME PoolInv, NEW S
  PROVE  /\ Cleared(S) \in [Frames -> FrameType]
         /\ \A g \in Frames : /\ Cleared(S)[g].page = frame[g].page
                              /\ Cleared(S)[g].data = frame[g].data
                              /\ Cleared(S)[g].dirty = frame[g].dirty
                              /\ Cleared(S)[g].pins = frame[g].pins
                              /\ Cleared(S)[g].latch = frame[g].latch
<1>1. ASSUME NEW g \in Frames
      PROVE  /\ Cleared(S)[g] \in FrameType
             /\ Cleared(S)[g].page = frame[g].page /\ Cleared(S)[g].data = frame[g].data
             /\ Cleared(S)[g].dirty = frame[g].dirty
             /\ Cleared(S)[g].pins = frame[g].pins /\ Cleared(S)[g].latch = frame[g].latch
  <2>1. frame[g] \in FrameType
    BY DEF PoolInv, PoolTyped
  <2>2. PICK y : y = [frame[g] EXCEPT !.ref = FALSE]
    OBVIOUS
  <2>3. /\ y \in FrameType /\ y.page = frame[g].page /\ y.dirty = frame[g].dirty
        /\ y.pins = frame[g].pins /\ y.latch = frame[g].latch /\ y.data = frame[g].data
    BY <2>1, <2>2 DEF FrameType
  <2>4. Cleared(S)[g] = y \/ Cleared(S)[g] = frame[g]
    BY <2>2 DEF Cleared
  <2> QED
    BY <2>1, <2>3, <2>4
<1>2. \E F : Cleared(S) = [g \in Frames |-> F[g]]
  <2>1. Cleared(S) = [g \in Frames |-> Cleared(S)[g]]
    BY DEF Cleared
  <2> QED
    BY <2>1
<1> QED
  BY <1>1, <1>2

LEMMA ClaimThrowStep ==
  ASSUME PoolInv, NEW t \in Threads, ClaimThrow(t)
  PROVE  PoolInv'
<1>0. PICK S : frame' = Cleared(S)
  BY DEF ClaimThrow
<1>1. /\ th[t].pc = "claim" /\ CallShape(th[t]) /\ th[t] \in CallType /\ InCall(t)
      /\ DOMAIN th = Threads
  BY InCallShape DEF ClaimThrow
<1>2. Moved(t, Idle)
  BY DEF ClaimThrow, Moved, Shape
<1>3. loading' = IF th[t].loader THEN loading \ {th[t].p} ELSE loading
  BY DEF ClaimThrow, FinishLoad
<1>4. LoadsKept(t, Idle)
  BY <1>1, <1>3 DEF LoadsKept, Loads, LoadingPcs, Idle, PoolInv, PoolTyped
<1>5. /\ CallKept(t, Idle) /\ PlaceKnown(Idle)'
      /\ \A g \in Frames : ~Pins(Idle, g) /\ ~Reads(Idle, g) /\ ~Excludes(Idle, g) /\ ~Owns(Idle, g)
  BY DEF CallKept, Copies, Searching, Idle, PlaceKnown, Pins, Reads, Excludes, Owns, Missing, Apart, MissKept
<1>6. \A g \in Frames : ~Pins(th[t], g) /\ ~Reads(th[t], g) /\ ~Excludes(th[t], g) /\ ~Owns(th[t], g)
  BY <1>1 DEF Pins, Reads, Excludes, Owns
<1>7. /\ frame' \in [Frames -> FrameType]
      /\ \A g \in Frames : /\ frame'[g].page = frame[g].page /\ frame'[g].dirty = frame[g].dirty
                           /\ frame'[g].pins = frame[g].pins /\ frame'[g].latch = frame[g].latch
  BY <1>0, ClearedSame
<1>8. PinsExact'
  BY <1>2, <1>5, <1>6, <1>7, PinsSame
<1>9. LatchExact' /\ OneWriter'
  BY <1>2, <1>5, <1>6, <1>7, LatchesSame
<1>10. ContentTyped /\ PagesKept(t, Idle)
  BY <1>5, <1>6, <1>7 DEF ClaimThrow, ContentTyped, PagesKept, counts, PoolInv, PoolTyped
<1>11. QuietStep(t, Idle)
  BY <1>1, <1>2, <1>4, <1>5, <1>10 DEF QuietStep, ClaimThrow
<1> QED
  BY <1>5, <1>8, <1>9, <1>11, Quiet

\* With no free frame the LRU list holds every frame.
LEMMA AllOnLru ==
  ASSUME PoolInv, free = <<>>
  PROVE  lru # <<>> /\ On(lru, hand) /\ hand \in Frames /\ \A g \in Frames : ~On(free, g)
<1>1. \A g \in Frames : ~On(free, g) /\ On(lru, g)
  BY DEF PoolInv, ListsApart, On
<1>2. lru # <<>>
  BY <1>1, BufPoolAssumption DEF On
<1> QED
  BY <1>1, <1>2, BufPoolAssumption DEF PoolInv, ListsApart, On

\* A frame that nobody has pinned or latched is in nobody's hands.
LEMMA EvictableUnheld ==
  ASSUME PoolInv, NEW f \in Frames, Evictable(f), NEW u \in Threads
  PROVE  /\ ~Excludes(th[u], f) /\ ~Owns(th[u], f)
         /\ th[u].pc \in {"finish", "hold", "pinned"} => th[u].f # f
<1>1. frame[f].latch = 0 /\ frame[f].pins = 0
  BY DEF Evictable, Unlatched
<1>2. ~Excludes(th[u], f) /\ ~Owns(th[u], f)
  BY <1>1, LatchedNot DEF Excludes
<1>3. ~Pins(th[u], f)
  BY <1>1, PinnedFrame
<1>4. ASSUME th[u].pc \in {"finish", "hold", "pinned"}, th[u].f = f
      PROVE  FALSE
  <2>1. CallShape(th[u])
    BY <1>4, InCallShape
  <2> QED
    BY <1>2, <1>3, <1>4, <2>1 DEF Excludes, Pins, CallShape
<1> QED
  BY <1>2, <1>4

\* Unmapping a frame that nobody holds.
LEMMA UnmapKnown ==
  ASSUME PoolInv, NEW f \in Frames, Evictable(f), NEW p \in Pages, Apart => map[p] = f,
         raced \subseteq raced', map' = [map EXCEPT ![p] = NoFrame], NEW u \in Threads, th'[u] = th[u],
         \A g \in Frames : frame'[g].page = frame[g].page
  PROVE  PlaceKnown(th[u])'
<1>1. PlaceKnown(th[u])
  BY DEF PoolInv, PlacesKnown
<1>2. \A q \in Pages : map'[q] = IF q = p THEN NoFrame ELSE map[q]
  BY DEF PoolInv, PoolTyped
<1>3. CASE th[u].pc = "idle"
  BY <1>3 DEF PlaceKnown, Missing
<1>4. CASE th[u].pc # "idle"
  <2>1. th[u].p \in Pages /\ (th[u].pc \in Located => th[u].f \in Frames)
    BY <1>4, InCallShape DEF CallShape, CallType
  <2>2. th[u].pc \in {"finish", "hold", "pinned"} => th[u].f # f
    BY EvictableUnheld
  <2> QED
    BY <1>1, <1>2, <2>1, <2>2, ApartKept DEF PlaceKnown, Located, Missing
<1> QED
  BY <1>3, <1>4

LEMMA FrontOnce ==
  ASSUME NEW s \in Seq(Frames), NEW f \in Frames, Once(s), ~On(s, f)
  PROVE  /\ <<f>> \o s \in Seq(Frames) /\ Len(<<f>> \o s) = Len(s) + 1 /\ Once(<<f>> \o s)
         /\ \A g \in Frames : On(<<f>> \o s, g) <=> On(s, g) \/ g = f
         /\ <<f>> \o s # <<>>
<1>0. PICK w : w = <<f>> \o s
  OBVIOUS
<1>1. w \in Seq(Frames) /\ Len(w) = Len(s) + 1 /\ DOMAIN w = 1 .. Len(w) /\ DOMAIN s = 1 .. Len(s)
      /\ Len(s) \in Nat
  BY <1>0
<1>2. w[1] = f /\ \A j \in 2 .. Len(w) : w[j] = s[j - 1]
  BY <1>0, <1>1
<1>3. Once(w)
  <2> SUFFICES ASSUME NEW i \in 1 .. Len(w), NEW j \in 1 .. Len(w), w[i] = w[j]
               PROVE  i = j
    BY <1>1 DEF Once
  <2>1. \A k \in 2 .. Len(w) : k - 1 \in DOMAIN s /\ w[k] = s[k - 1] /\ w[k] # f
    <3> TAKE k \in 2 .. Len(w)
    <3>1. k - 1 \in DOMAIN s /\ w[k] = s[k - 1]
      BY <1>1, <1>2
    <3> QED
      BY <3>1 DEF On
  <2>2. CASE i = 1 \/ j = 1
    BY <1>1, <1>2, <2>1, <2>2
  <2>3. CASE i # 1 /\ j # 1
    <3>1. i - 1 = j - 1
      BY <1>1, <2>1, <2>3 DEF Once
    <3> QED
      BY <1>1, <3>1
  <2> QED
    BY <2>2, <2>3
<1>4. ASSUME NEW g \in Frames
      PROVE  On(w, g) <=> On(s, g) \/ g = f
  <2>1. ASSUME On(w, g) PROVE On(s, g) \/ g = f
    <3>1. PICK j \in 1 .. Len(w) : w[j] = g
      BY <1>1, <2>1 DEF On
    <3>2. j = 1 \/ (j - 1 \in 1 .. Len(s) /\ s[j - 1] = g)
      BY <1>1, <1>2, <3>1
    <3> QED
      BY <1>1, <1>2, <3>1, <3>2 DEF On
  <2>2. ASSUME On(s, g) PROVE On(w, g)
    <3>1. PICK j \in 1 .. Len(s) : s[j] = g
      BY <1>1, <2>2 DEF On
    <3>2. j + 1 \in 2 .. Len(w) /\ w[j + 1] = g
      BY <1>1, <1>2, <3>1
    <3> QED
      BY <1>1, <3>2 DEF On
  <2>3. On(w, f)
    BY <1>1, <1>2 DEF On
  <2> QED
    BY <2>1, <2>2, <2>3
<1> QED
  BY <1>0, <1>1, <1>3, <1>4

\* Thread t becomes the owner of f, whose latch it takes.
ClaimedBy(t, x, f) ==
  /\ th[t].pc = "claim" /\ f \in Frames /\ frame[f].latch = 0
  /\ x \in CallType /\ x.pc \in {"writeback", "fill"} /\ x.f = f
  /\ x.kind = th[t].kind /\ x.p = th[t].p /\ x.loader = th[t].loader
  /\ th' = [th EXCEPT ![t] = x]
  /\ frame' \in [Frames -> FrameType] /\ frame'[f].latch = -1
  /\ \A g \in Frames : /\ frame'[g].page = frame[g].page /\ frame'[g].dirty = frame[g].dirty
                       /\ frame'[g].pins = frame[g].pins
                       /\ g # f => frame'[g].latch = frame[g].latch
  /\ UNCHANGED <<counts, loading, disk, gc, stat, truth>>

LEMMA ClaimCommon ==
  ASSUME PoolInv, NEW t \in Threads, NEW x, NEW f, ClaimedBy(t, x, f),
         map' \in [Pages -> Frames \cup {NoFrame}], raced \subseteq raced'
  PROVE  /\ PoolTyped' /\ PinsExact' /\ LatchExact' /\ OneWriter' /\ LoadersApart' /\ CopiesApart'
         /\ SearchesServed' /\ Retiring' /\ ScansApart' /\ Moved(t, x)
         /\ \A u \in Threads : \A g \in Frames : Owns(th'[u], g) <=> Owns(th[u], g) \/ (u = t /\ g = f)
         /\ \A g \in Frames : Owned(g)' <=> Owned(g) \/ g = f
<1>1. /\ CallShape(th[t]) /\ th[t] \in CallType /\ InCall(t) /\ DOMAIN th = Threads /\ f \in Frames
      /\ th[t].pc = "claim"
  BY InCallShape DEF ClaimedBy
<1>2. Moved(t, x)
  BY <1>1 DEF ClaimedBy, Moved, Shape, CallShape, Located
<1>3. LoadsKept(t, x) /\ CallKept(t, x)
  BY <1>1, GoesOn DEF ClaimedBy, LoadingPcs, Pcs, Missing
<1>4. \A g \in Frames : /\ ~Pins(x, g) /\ ~Pins(th[t], g) /\ ~Reads(x, g) /\ ~Reads(th[t], g)
                        /\ ~Excludes(th[t], g) /\ ~Owns(th[t], g) /\ (Excludes(x, g) => g = f)
                        /\ (Owns(x, g) <=> g = f)
  BY <1>1 DEF ClaimedBy, Pins, Reads, Excludes, Owns
<1>5. PinsExact'
  BY <1>2, <1>4, PinsSame DEF ClaimedBy
<1>6. LatchExact' /\ OneWriter'
  BY <1>1, <1>2, <1>4, WriterEnters DEF ClaimedBy
<1>7. ContentTyped
  BY DEF ClaimedBy, ContentTyped, counts, PoolInv, PoolTyped
<1>8. PoolTyped'
  <2>1. /\ loading' \in SUBSET Pages /\ stat' \in [Pages -> {"live", "old", "free", "new"}]
    BY DEF ClaimedBy, PoolInv, PoolTyped
  <2> QED
    BY <1>1, <1>2, <1>7, <2>1, TypesStep
<1>9. LoadersApart' /\ CopiesApart' /\ SearchesServed' /\ Retiring' /\ ScansApart'
  BY <1>2, <1>3, LoadsStep, CallsStep DEF ClaimedBy
<1>10. \A u \in Threads : \A g \in Frames : Owns(th'[u], g) <=> Owns(th[u], g) \/ (u = t /\ g = f)
  BY <1>2, <1>4, MovedThread DEF PoolInv
<1>11. \A g \in Frames : Owned(g)' <=> Owned(g) \/ g = f
  BY <1>10 DEF Owned
<1> QED
  BY <1>2, <1>5, <1>6, <1>8, <1>9, <1>10, <1>11

LEMMA ClaimFreeStep ==
  ASSUME PoolInv, NEW t \in Threads, ClaimFree(t)
  PROVE  PoolInv'
<1>0. PICK f, x, y : /\ f = Head(free) /\ x = [th[t] EXCEPT !.pc = "fill", !.f = f]
                     /\ y = [frame[f] EXCEPT !.latch = -1]
  OBVIOUS
<1>1. /\ lru \in Seq(Frames) /\ free \in Seq(Frames) /\ free # <<>> /\ Once(lru) /\ Once(free)
      /\ frame \in [Frames -> FrameType] /\ map' = map
      /\ lru' = <<f>> \o lru /\ free' = Tail(free) /\ hand' = IF lru = <<>> THEN f ELSE hand
      /\ raced' = raced
  BY <1>0 DEF PoolInv, PoolTyped, ListsApart, ClaimFree
<1>2. f \in Frames /\ On(free, f) /\ ~On(lru, f) /\ frame[f] \in FrameType
  <2>1. f \in Frames /\ On(free, f)
    BY <1>0, <1>1 DEF On
  <2> QED
    BY <1>1, <2>1 DEF PoolInv, ListsApart
<1>3. ClaimedBy(t, x, f)
  <2>1. /\ th[t].pc = "claim" /\ th[t] \in CallType /\ DOMAIN th = Threads
    BY InCallShape DEF ClaimFree
  <2>2. /\ x \in CallType /\ x.pc = "fill" /\ x.f = f /\ x.kind = th[t].kind /\ x.p = th[t].p
        /\ x.loader = th[t].loader
    BY <1>0, <1>2, <2>1 DEF CallType, Pcs
  <2>3. /\ y \in FrameType /\ y.page = frame[f].page /\ y.dirty = frame[f].dirty
        /\ y.pins = frame[f].pins /\ y.latch = -1
    BY <1>0, <1>2 DEF FrameType
  <2>4. frame' = [frame EXCEPT ![f] = y] /\ th' = [th EXCEPT ![t] = x] /\ frame[f].latch = 0
        /\ UNCHANGED <<counts, loading, disk, gc, stat, truth>>
    BY <1>0, <1>1, <2>1 DEF ClaimFree, Unlatched
  <2> QED
    BY <1>1, <1>2, <2>1, <2>2, <2>3, <2>4 DEF ClaimedBy
<1>4. /\ PoolTyped' /\ PinsExact' /\ LatchExact' /\ OneWriter' /\ LoadersApart' /\ CopiesApart'
      /\ SearchesServed' /\ Retiring' /\ ScansApart' /\ Moved(t, x)
      /\ \A u \in Threads : \A g \in Frames : Owns(th'[u], g) <=> Owns(th[u], g) \/ (u = t /\ g = f)
      /\ \A g \in Frames : Owned(g)' <=> Owned(g) \/ g = f
  <2>1. map' \in [Pages -> Frames \cup {NoFrame}]
    BY <1>1 DEF PoolInv, PoolTyped
  <2> QED
    BY <1>1, <1>3, <2>1, ClaimCommon
<1>5. /\ free' \in Seq(Frames) /\ Len(free') = Len(free) - 1 /\ Once(free')
      /\ \A g \in Frames : On(free', g) <=> On(free, g) /\ g # f
  <2>0. PICK w : w = Tail(free)
    OBVIOUS
  <2>1. /\ w \in Seq(Frames) /\ Len(w) = Len(free) - 1 /\ Len(free) \in Nat \ {0}
        /\ DOMAIN w = 1 .. Len(w) /\ DOMAIN free = 1 .. Len(free) /\ free[1] = f
    BY <1>0, <1>1, <2>0
  <2>2. \A j \in 1 .. Len(w) : w[j] = free[j + 1]
    BY <1>1, <2>0
  <2>3. Once(w)
    <3> SUFFICES ASSUME NEW i \in 1 .. Len(w), NEW j \in 1 .. Len(w), w[i] = w[j]
                 PROVE  i = j
      BY <2>1 DEF Once
    <3>1. i + 1 \in DOMAIN free /\ j + 1 \in DOMAIN free /\ free[i + 1] = free[j + 1]
      BY <2>1, <2>2
    <3>2. i + 1 = j + 1
      BY <1>1, <3>1 DEF Once
    <3> QED
      BY <2>1, <3>2
  <2>4. ASSUME NEW g \in Frames
        PROVE  On(w, g) <=> On(free, g) /\ g # f
    <3>1. ASSUME On(w, g) PROVE On(free, g) /\ g # f
      <4>1. PICK j \in 1 .. Len(w) : w[j] = g
        BY <2>1, <3>1 DEF On
      <4>2. j + 1 \in 1 .. Len(free) /\ free[j + 1] = g /\ j + 1 # 1 /\ 1 \in 1 .. Len(free)
        BY <2>1, <2>2, <4>1
      <4> QED
        BY <1>1, <2>1, <4>2 DEF On, Once
    <3>2. ASSUME On(free, g), g # f PROVE On(w, g)
      <4>1. PICK j \in 1 .. Len(free) : free[j] = g
        BY <2>1, <3>2 DEF On
      <4>2. j - 1 \in 1 .. Len(w) /\ w[j - 1] = g
        BY <2>1, <2>2, <3>2, <4>1
      <4> QED
        BY <2>1, <4>2 DEF On
    <3> QED
      BY <3>1, <3>2
  <2> QED
    BY <1>1, <2>0, <2>1, <2>3, <2>4
<1>6. /\ lru' \in Seq(Frames) /\ Len(lru') = Len(lru) + 1 /\ Once(lru') /\ lru' # <<>>
      /\ \A g \in Frames : On(lru', g) <=> On(lru, g) \/ g = f
  BY <1>1, <1>2, FrontOnce
<1>7. \A g \in Frames : frame'[g].page = frame[g].page /\ frame'[g].dirty = frame[g].dirty
  BY <1>3 DEF ClaimedBy
<1>8. ListsApart'
  <2>1. hand' \in Frames \cup {NoFrame} /\ On(lru', hand')
    <3>1. CASE lru = <<>>
      BY <1>1, <1>2, <1>6, <3>1
    <3>2. CASE lru # <<>>
      <4>1. hand' = hand /\ On(lru, hand) /\ hand \in Frames \cup {NoFrame}
        BY <1>1, <3>2 DEF PoolInv, ListsApart
      <4>2. hand \in Frames
        BY <1>1, <4>1 DEF On
      <4> QED
        BY <1>6, <4>1, <4>2
    <3> QED
      BY <3>1, <3>2
  <2>2. \A g \in Frames : On(lru', g) <=> ~On(free', g)
    BY <1>2, <1>5, <1>6 DEF PoolInv, ListsApart
  <2>3. Len(lru') + Len(free') = Cardinality(Frames)
    <3>1. Len(lru) \in Nat /\ Len(free) \in Nat /\ Len(lru) + Len(free) = Cardinality(Frames)
      <4>1. Len(lru) + Len(free) = Cardinality(Frames)
        BY Zenon DEF PoolInv, ListsApart
      <4> QED
        BY <1>1, <4>1
    <3> QED
      BY <1>5, <1>6, <3>1
  <2>4. \A g \in Frames : (On(free', g) /\ frame'[g].dirty) => "late mark" \in raced'
    BY <1>1, <1>5, <1>7 DEF PoolInv, ListsApart
  <2> QED
    BY <1>5, <1>6, <2>1, <2>2, <2>3, <2>4 DEF ListsApart
<1>9. MapExact'
  BY <1>1, <1>2, <1>4, <1>5, <1>7 DEF PoolInv, MapExact, PoolTyped
<1>10. Resident'
  BY <1>1, <1>4, <1>5, <1>7 DEF PoolInv, Resident, Apart
<1>11. OwnersApart'
  BY <1>4, <1>5 DEF PoolInv, OwnersApart
<1>12. PlacesKnown'
  <2> SUFFICES ASSUME NEW u \in Threads
               PROVE  PlaceKnown(th[u])'
    BY DEF PlacesKnown
  <2>1. CASE u = t
    <3>1. th'[u] = x /\ PlaceKnown(th[t])
      BY <1>4, <2>1, MovedThread DEF PoolInv, PlacesKnown
    <3> QED
      BY <1>1, <1>3, <2>1, <3>1 DEF PlaceKnown, ClaimedBy, Missing, Apart
  <2>2. CASE u # t
    <3>1. th'[u] = th[u] /\ PlaceKnown(th[u]) /\ Shape(th[u])
      BY <1>4, <2>2, MovedThread DEF PoolInv, PlacesKnown, PoolTyped
    <3> QED
      BY <1>1, <1>7, <3>1 DEF PlaceKnown, Shape, CallShape, Idle, Located, Missing, Apart
  <2> QED
    BY <2>1, <2>2
<1> QED
  BY <1>4, <1>8, <1>9, <1>10, <1>11, <1>12 DEF PoolInv

LEMMA ClaimVictimStep ==
  ASSUME PoolInv, NEW t \in Threads, ClaimVictim(t)
  PROVE  PoolInv'
<1>0. PICK f, h, S, a, b, x, Y, y :
        /\ f = find_victim_page.victim /\ h = find_victim_page.hand
        /\ S = find_victim_page.cleared
        /\ a = IF frame[f].dirty THEN "writeback" ELSE "fill"
        /\ b = IF frame[f].dirty THEN frame[f].page ELSE 0
        /\ x = [th[t] EXCEPT !.pc = a, !.f = f, !.wb = b]
        /\ Y = Cleared(S) /\ y = [Y[f] EXCEPT !.latch = -1]
  OBVIOUS
<1>1. /\ lru \in Seq(Frames) /\ free = <<>> /\ Once(lru) /\ f # NoFrame
      /\ lru' = <<f>> \o Without(lru, f) /\ free' = free /\ hand' = HandWithout(h, f)
      /\ raced \subseteq raced' /\ map' = Unmapped(f)
      /\ UNCHANGED <<counts, loading, disk, gc, stat, truth>>
      /\ frame' = [Y EXCEPT ![f].latch = -1] /\ th[t].pc = "claim"
      /\ th' = [th EXCEPT ![t].pc = a, ![t].f = f, ![t].wb = b]
  BY <1>0 DEF PoolInv, ListsApart, ClaimVictim
<1>2. f \in Frames /\ On(lru, f) /\ Evictable(f) /\ h \in Frames /\ On(lru, h)
  BY <1>0, <1>1, AllOnLru, VictimFree
<1>3. \A u \in Threads : ~Owns(th[u], f)
  BY <1>2, EvictableUnheld
<1>4. PICK p : /\ p = frame[f].page /\ p \in Pages /\ (Apart => map[p] = f)
               /\ map' = [map EXCEPT ![p] = NoFrame]
  <2>1. ~On(free, f) /\ ~Owned(f)
    BY <1>1, <1>2, <1>3, AllOnLru DEF Owned
  <2>2. frame[f].page \in Pages /\ (Apart => map[frame[f].page] = f)
    BY <1>2, <2>1 DEF PoolInv, Resident
  <2> QED
    BY <1>1, <2>2 DEF Unmapped
<1>5. map' \in [Pages -> Frames \cup {NoFrame}] /\ map \in [Pages -> Frames \cup {NoFrame}]
      /\ \A q \in Pages : map'[q] = IF q = p THEN NoFrame ELSE map[q]
  BY <1>4 DEF PoolInv, PoolTyped
<1>6. ClaimedBy(t, x, f)
  <2>1. th[t] \in CallType /\ DOMAIN th = Threads
    BY <1>1, InCallShape
  <2>2. /\ x \in CallType /\ x.pc = a /\ x.f = f /\ x.kind = th[t].kind /\ x.p = th[t].p
        /\ x.loader = th[t].loader /\ a \in {"writeback", "fill"}
    <3>1. b \in 0 .. NumPages /\ a \in Pcs /\ a \in {"writeback", "fill"}
      <4>1. frame[f] \in FrameType
        BY <1>2 DEF PoolInv, PoolTyped
      <4> QED
        BY <1>0, <4>1, BufPoolAssumption DEF FrameType, Pcs
    <3> QED
      BY <1>0, <1>2, <2>1, <3>1 DEF CallType
  <2>3. /\ Y \in [Frames -> FrameType]
        /\ \A g \in Frames : /\ Y[g].page = frame[g].page /\ Y[g].dirty = frame[g].dirty
                             /\ Y[g].pins = frame[g].pins /\ Y[g].latch = frame[g].latch
    BY <1>0, ClearedSame
  <2>4. /\ y \in FrameType /\ y.page = frame[f].page /\ y.dirty = frame[f].dirty
        /\ y.pins = frame[f].pins /\ y.latch = -1
    <3>1. Y[f] \in FrameType
      BY <1>2, <2>3
    <3>2. y \in FrameType /\ y.page = Y[f].page /\ y.dirty = Y[f].dirty /\ y.pins = Y[f].pins
          /\ y.latch = -1
      BY <1>0, <3>1 DEF FrameType
    <3> QED
      BY <1>2, <2>3, <3>2
  <2>5. frame' = [Y EXCEPT ![f] = y] /\ th' = [th EXCEPT ![t] = x]
    BY <1>0, <1>1, <1>2, <2>1, <2>3
  <2>6. frame[f].latch = 0
    BY <1>2 DEF Evictable, Unlatched
  <2>7. /\ frame' \in [Frames -> FrameType] /\ frame'[f].latch = -1
        /\ \A g \in Frames : /\ frame'[g].page = frame[g].page /\ frame'[g].dirty = frame[g].dirty
                             /\ frame'[g].pins = frame[g].pins
                             /\ g # f => frame'[g].latch = frame[g].latch
    BY <1>2, <2>3, <2>4, <2>5
  <2> QED
    BY <1>1, <1>2, <2>2, <2>5, <2>6, <2>7 DEF ClaimedBy
<1>7. /\ PoolTyped' /\ PinsExact' /\ LatchExact' /\ OneWriter' /\ LoadersApart' /\ CopiesApart'
      /\ SearchesServed' /\ Retiring' /\ ScansApart' /\ Moved(t, x)
      /\ \A u \in Threads : \A g \in Frames : Owns(th'[u], g) <=> Owns(th[u], g) \/ (u = t /\ g = f)
      /\ \A g \in Frames : Owned(g)' <=> Owned(g) \/ g = f
  BY <1>1, <1>5, <1>6, ClaimCommon
<1>8. \A g \in Frames : ~On(free, g)
  BY <1>1, AllOnLru
<1>9. \A g \in Frames : frame'[g].page = frame[g].page
  BY <1>6 DEF ClaimedBy
<1>10. ListsApart'
  <2>0. PICK w : w = Without(lru, f)
    OBVIOUS
  <2>1. /\ w \in Seq(Frames) /\ Len(w) = Len(lru) - 1 /\ Once(w)
        /\ \A g \in Frames : On(w, g) <=> On(lru, g) /\ g # f
    BY <1>1, <1>2, <2>0, WithoutExact
  <2>2. /\ lru' \in Seq(Frames) /\ Len(lru') = Len(w) + 1 /\ Once(lru')
        /\ \A g \in Frames : On(lru', g) <=> On(w, g) \/ g = f
    BY <1>1, <1>2, <2>0, <2>1, FrontOnce
  <2>3. \A g \in Frames : On(lru', g) <=> On(lru, g)
    BY <1>2, <2>1, <2>2
  <2>4. hand' \in Frames /\ On(lru', hand')
    <3>1. hand' \in Frames /\ On(lru, hand')
      BY <1>1, <1>2, NextOfFound DEF HandWithout
    <3> QED
      BY <2>3, <3>1
  <2>5. Len(lru') + Len(free') = Cardinality(Frames)
    <3>1. Len(lru) + Len(free) = Cardinality(Frames)
      BY Zenon DEF PoolInv, ListsApart
    <3>2. Len(lru') = Len(lru)
      BY <1>1, <2>1, <2>2
    <3> QED
      BY <1>1, <3>1, <3>2
  <2>6. free' \in Seq(Frames) /\ Once(free') /\ \A g \in Frames : ~On(free', g)
    BY <1>1, <1>8 DEF PoolInv, ListsApart
  <2>7. \A g \in Frames : On(lru, g) <=> ~On(free, g)
    BY DEF PoolInv, ListsApart
  <2> QED
    BY <1>8, <2>2, <2>3, <2>4, <2>5, <2>6, <2>7 DEF ListsApart
<1>11. MapExact'
  <2> SUFFICES ASSUME NEW q \in Pages, map'[q] # NoFrame
               PROVE  (frame[map[q]].page = q /\ ~On(free, map[q]) /\ ~Owned(map[q]))'
    BY DEF MapExact
  <2>1. PICK g \in Frames : g = map'[q] /\ g = map[q] /\ q # p
    BY <1>5
  <2>2. frame[g].page = q /\ ~Owned(g)
    BY <1>5, <2>1, BufPoolAssumption DEF PoolInv, MapExact
  <2>3. g # f
    BY <1>4, <2>1, <2>2
  <2>4. frame'[g].page = q /\ ~On(free', g) /\ ~Owned(g)'
    BY <1>1, <1>7, <1>8, <1>9, <2>2, <2>3
  <2> QED
    BY <2>1, <2>4 DEF Owned
<1>12. Resident'
  <2> SUFFICES ASSUME NEW g \in Frames, ~Owned(g)'
               PROVE  frame'[g].page \in Pages /\ (Apart' => map'[frame'[g].page] = g)
    BY DEF Resident
  <2>1. g # f /\ frame[g].page \in Pages /\ (Apart => map[frame[g].page] = g)
    BY <1>7, <1>8 DEF PoolInv, Resident
  <2> QED
    BY <1>1, <1>4, <1>5, <1>9, <2>1, ApartKept
<1>13. OwnersApart'
  BY <1>1, <1>8 DEF OwnersApart
<1>14. PlacesKnown'
  <2> SUFFICES ASSUME NEW u \in Threads
               PROVE  PlaceKnown(th[u])'
    BY DEF PlacesKnown
  <2>1. CASE u = t
    <3>1. th'[u] = x /\ PlaceKnown(th[t]) /\ x.p \in Pages
      BY <1>6, <1>7, <2>1, MovedThread DEF PoolInv, PlacesKnown, ClaimedBy, CallType
    <3>2. (Apart' => map'[x.p] = NoFrame) /\ x.pc \in {"writeback", "fill"}
      BY <1>1, <1>5, <1>6, <3>1, ApartKept DEF PlaceKnown, ClaimedBy, Missing
    <3> QED
      BY <2>1, <3>1, <3>2 DEF PlaceKnown, Missing
  <2>2. CASE u # t
    <3>1. th'[u] = th[u]
      BY <1>7, <2>2, MovedThread DEF PoolInv
    <3> QED
      BY <1>1, <1>2, <1>4, <1>9, <3>1, UnmapKnown
  <2> QED
    BY <2>1, <2>2
<1> QED
  BY <1>7, <1>10, <1>11, <1>12, <1>13, <1>14 DEF PoolInv

-----------------------------------------------------------------------------
(* Publishing a page *)

\* No call but t's has to find p absent, or in the frame where it found it.
NoRival(t, p) ==
  \A u \in Threads \ {t} : th[u].p = p =>
    /\ th[u].pc \notin {"claim", "writeback", "fill", "publish"}
    /\ ~(th[u].pc \in {"pin", "latch", "verify"} /\ th[u].loader /\ th[u].kind # "scan")

\* The owner of a filled frame maps it; no other call is bound to find the page
\* absent.
LEMMA PublishCommon ==
  ASSUME PoolInv, NEW t \in Threads, th[t].pc = "publish", NEW x, Moved(t, x), NEW f, NEW p,
         f = th[t].f, p = th[t].p, x.pc \in {"finish", "mark"}, x.p = p, x.f = f,
         map' = IF map[p] = NoFrame THEN [map EXCEPT ![p] = f] ELSE map, UNCHANGED lists, raced \subseteq raced',
         \A g \in Frames : frame'[g].page = frame[g].page /\ frame'[g].dirty = frame[g].dirty,
         Apart => NoRival(t, p)
  PROVE  ListsApart' /\ MapExact' /\ Resident' /\ OwnersApart' /\ PlacesKnown'
<1>1. /\ f \in Frames /\ p \in Pages /\ (Apart => map[p] = NoFrame) /\ frame[f].page = p
      /\ map \in [Pages -> Frames \cup {NoFrame}]
  <2>1. f \in Frames /\ th[t] \in CallType /\ PlaceKnown(th[t])
    BY HereIsFrame DEF Located
  <2> QED
    BY <2>1 DEF PlaceKnown, CallType, PoolInv, PoolTyped, Missing
<1>2. \A q \in Pages : map'[q] = IF q = p /\ map[p] = NoFrame THEN f ELSE map[q]
  BY <1>1
<1>a. Apart' => Apart
  BY ApartKept
<1>3. th'[t] = x /\ \A u \in Threads : u # t => th'[u] = th[u]
  BY MovedThread DEF PoolInv
<1>4. Owns(th[t], f) /\ \A u \in Threads : Owns(th[u], f) => u = t
  <2>1. Owns(th[t], f)
    BY DEF Owns
  <2> QED
    BY <1>1, <2>1 DEF Excludes, PoolInv, OneWriter
<1>5. \A g \in Frames : ~Owns(x, g) /\ (g # f => ~Owns(th[t], g))
  BY DEF Owns
<1>6. \A u \in Threads : \A g \in Frames : Owns(th'[u], g) <=> Owns(th[u], g) /\ g # f
  BY <1>3, <1>4, <1>5
<1>7. \A g \in Frames : Owned(g)' <=> Owned(g) /\ g # f
  BY <1>6 DEF Owned
<1>8. lru' = lru /\ free' = free /\ hand' = hand
  BY DEF lists
<1>9. ListsApart'
  BY <1>8 DEF PoolInv, ListsApart
<1>10. MapExact'
  <2> SUFFICES ASSUME NEW q \in Pages, map'[q] # NoFrame
               PROVE  (frame[map[q]].page = q /\ ~On(free, map[q]) /\ ~Owned(map[q]))'
    BY DEF MapExact
  <2>1. PICK g \in Frames : g = map'[q]
    BY <1>1, <1>2
  <2>2. frame'[g].page = q /\ ~On(free', g) /\ ~Owned(g)'
    <3>1. CASE q = p /\ map[p] = NoFrame
      BY <1>1, <1>2, <1>4, <1>7, <1>8, <2>1, <3>1 DEF PoolInv, OwnersApart
    <3>2. CASE ~(q = p /\ map[p] = NoFrame)
      <4>1. frame[g].page = q /\ ~On(free, g) /\ ~Owned(g)
        BY <1>2, <2>1, <3>2, BufPoolAssumption DEF PoolInv, MapExact
      <4> QED
        BY <1>7, <1>8, <4>1
    <3> QED
      BY <3>1, <3>2
  <2> QED
    BY <2>1, <2>2 DEF Owned
<1>11. Resident'
  <2> SUFFICES ASSUME NEW g \in Frames, ~On(free, g), ~Owned(g)'
               PROVE  frame'[g].page \in Pages /\ (Apart' => map'[frame'[g].page] = g)
    BY <1>8 DEF Resident
  <2>1. CASE g = f
    BY <1>1, <1>2, <1>a, <2>1
  <2>2. CASE g # f
    <3>1. frame[g].page \in Pages /\ (Apart => map[frame[g].page] = g)
      BY <1>7, <2>2 DEF PoolInv, Resident
    <3> QED
      BY <1>1, <1>2, <1>a, <3>1, BufPoolAssumption
  <2> QED
    BY <2>1, <2>2
<1>12. OwnersApart'
  BY <1>6, <1>8 DEF PoolInv, OwnersApart
<1>13. PlacesKnown'
  <2> SUFFICES ASSUME NEW u \in Threads
               PROVE  PlaceKnown(th[u])'
    BY DEF PlacesKnown
  <2>1. CASE u = t
    BY <1>1, <1>2, <1>3, <1>a, <2>1 DEF PlaceKnown, Missing
  <2>2. CASE u # t /\ th[u].pc = "idle"
    BY <1>3, <2>2 DEF PlaceKnown, Missing
  <2>3. CASE u # t /\ th[u].pc # "idle"
    <3>1. /\ th'[u] = th[u] /\ PlaceKnown(th[u]) /\ th[u].p \in Pages
          /\ (th[u].pc \in Located => th[u].f \in Frames)
      BY <1>3, <2>3, InCallShape DEF PoolInv, PlacesKnown, CallShape, CallType
    <3> QED
      BY <1>1, <1>2, <1>a, <2>3, <3>1, BufPoolAssumption DEF PlaceKnown, Located, NoRival, Missing
  <2> QED
    BY <2>1, <2>2, <2>3
<1> QED
  BY <1>9, <1>10, <1>11, <1>12, <1>13

LEMMA PublishStep ==
  ASSUME PoolInv, NEW t \in Threads, Publish(t)
  PROVE  PoolInv'
<1>0. PICK f, p, x : f = th[t].f /\ p = th[t].p /\ x = [th[t] EXCEPT !.pc = "finish"]
  OBVIOUS
<1>1. /\ th[t].pc = "publish" /\ CallShape(th[t]) /\ th[t] \in CallType /\ InCall(t)
      /\ DOMAIN th = Threads /\ f \in Frames /\ PlaceKnown(th[t]) /\ th[t].kind # "cp"
  BY <1>0, HereIsFrame DEF Publish, Located
<1>2. /\ th' = [th EXCEPT ![t] = x] /\ map' = (IF map[p] = NoFrame THEN [map EXCEPT ![p] = f] ELSE map)
      /\ p \in Pages
  BY <1>0, <1>1 DEF Publish, CallType
<1>3. /\ x \in CallType /\ x.pc = "finish" /\ x.f = f /\ x.loader = th[t].loader
      /\ x.kind = th[t].kind /\ x.p = th[t].p /\ x.p = p
  <2>1. "finish" \in Pcs
    BY DEF Pcs
  <2> QED
    BY <1>0, <1>1, <2>1, TurnPc
<1>4. Moved(t, x)
  BY <1>1, <1>2, <1>3 DEF Moved, Shape, CallShape, Located
<1>5. LoadsKept(t, x) /\ CallKept(t, x)
  BY <1>1, <1>3, GoesOn DEF Publish, LoadingPcs, Pcs, Missing
<1>6. Apart => NoRival(t, p)
  <2> SUFFICES ASSUME Apart, NEW u \in Threads, u # t, th[u].p = p,
                      \/ th[u].pc \in {"claim", "writeback", "fill", "publish"}
                      \/ th[u].pc \in {"pin", "latch", "verify"} /\ th[u].loader /\ th[u].kind # "scan"
               PROVE  FALSE
    BY DEF NoRival
  <2>1. CallShape(th[u]) /\ th[u] \in CallType
    BY InCallShape
  <2>2. Loads(th[t]) /\ (Searching(th[t]) \/ th[t].kind = "scan")
    BY <1>1 DEF Loads, LoadingPcs, Searching, CallShape, CallType, Kinds
  <2>3. CASE th[u].kind = "cp"
    <3>1. Copies(th[u]) /\ Missing(th[u]) /\ Missing(th[t])
      BY <1>1, <2>1, <2>3 DEF Copies, Missing, CallShape
    <3> QED
      BY <1>0, <2>2, <2>3, <3>1 DEF PoolInv, CopiesApart, SearchesServed, ScansApart
  <2>4. CASE th[u].kind # "cp"
    <3>1. Loads(th[u])
      BY <2>1, <2>4 DEF Loads, LoadingPcs, CallShape
    <3> QED
      BY <1>0, <2>2, <3>1 DEF PoolInv, LoadersApart
  <2> QED
    BY <2>3, <2>4
<1>7. frame' = frame /\ raced' = raced /\ UNCHANGED lists
  BY DEF Publish
<1>8. ListsApart' /\ MapExact' /\ Resident' /\ OwnersApart' /\ PlacesKnown'
  <2>1. f = th[t].f /\ p = th[t].p /\ x.pc \in {"finish", "mark"}
    BY <1>0, <1>3
  <2> QED
    BY <1>1, <1>2, <1>3, <1>4, <1>6, <1>7, <2>1, PublishCommon
<1>9. \A g \in Frames : /\ ~Pins(x, g) /\ ~Pins(th[t], g) /\ ~Reads(x, g) /\ ~Reads(th[t], g)
                        /\ Excludes(x, g) <=> Excludes(th[t], g)
  BY <1>0, <1>1, <1>3 DEF Pins, Reads, Excludes, Owns
<1>10. PinsExact'
  BY <1>4, <1>7, <1>9, PinsSame
<1>11. LatchExact' /\ OneWriter'
  BY <1>4, <1>7, <1>9, LatchesSame
<1>12. LoadersApart' /\ CopiesApart' /\ SearchesServed' /\ Retiring' /\ ScansApart'
  BY <1>4, <1>5, LoadsStep, CallsStep DEF Publish
<1>13. PoolTyped'
  <2>1. /\ loading' \in SUBSET Pages /\ stat' \in [Pages -> {"live", "old", "free", "new"}]
        /\ map' \in [Pages -> Frames \cup {NoFrame}]
    <3>1. loading' = loading /\ stat' = stat
      BY DEF Publish
    <3>2. /\ loading \in SUBSET Pages /\ stat \in [Pages -> {"live", "old", "free", "new"}]
          /\ map \in [Pages -> Frames \cup {NoFrame}]
      BY DEF PoolInv, PoolTyped
    <3> QED
      BY <1>1, <1>2, <3>1, <3>2
  <2>2. ContentTyped
    BY ContentSame DEF Publish, counts
  <2> QED
    BY <1>1, <1>4, <2>1, <2>2, TypesStep
<1> QED
  BY <1>8, <1>10, <1>11, <1>12, <1>13 DEF PoolInv

LEMMA CpPublishStep ==
  ASSUME PoolInv, NEW t \in Threads, CpPublish(t)
  PROVE  PoolInv'
<1>0. PICK f, p, x, y : /\ f = th[t].f /\ p = th[t].p /\ x = [th[t] EXCEPT !.pc = "mark"]
                        /\ y = [frame[f] EXCEPT !.latch = 0]
  OBVIOUS
<1>1. /\ th[t].pc = "publish" /\ CallShape(th[t]) /\ th[t] \in CallType /\ InCall(t)
      /\ DOMAIN th = Threads /\ f \in Frames /\ PlaceKnown(th[t]) /\ th[t].kind = "cp"
      /\ frame[f] \in FrameType /\ DOMAIN frame = Frames
  BY <1>0, HereIsFrame DEF CpPublish, Located
<1>2. /\ th' = [th EXCEPT ![t] = x] /\ map' = (IF map[p] = NoFrame THEN [map EXCEPT ![p] = f] ELSE map)
      /\ p \in Pages
      /\ frame' = [frame EXCEPT ![f] = y]
  BY <1>0, <1>1 DEF CpPublish, CallType
<1>3. /\ x \in CallType /\ x.pc = "mark" /\ x.f = f /\ x.loader = th[t].loader
      /\ x.kind = th[t].kind /\ x.p = th[t].p /\ x.p = p
  <2>1. "mark" \in Pcs
    BY DEF Pcs
  <2> QED
    BY <1>0, <1>1, <2>1, TurnPc
<1>4. Moved(t, x)
  BY <1>1, <1>2, <1>3 DEF Moved, Shape, CallShape, Located
<1>5. LoadsKept(t, x) /\ CallKept(t, x)
  <2>1. loading' = loading
    BY DEF CpPublish
  <2> QED
    BY <1>1, <1>3, <2>1, GoesOn DEF LoadingPcs, Pcs, Missing
<1>6. Apart => NoRival(t, p)
  <2> SUFFICES ASSUME Apart, NEW u \in Threads, u # t, th[u].p = p,
                      \/ th[u].pc \in {"claim", "writeback", "fill", "publish"}
                      \/ th[u].pc \in {"pin", "latch", "verify"} /\ th[u].loader /\ th[u].kind # "scan"
               PROVE  FALSE
    BY DEF NoRival
  <2>1. Copies(th[t])
    BY <1>1 DEF Copies
  <2>2. CASE th[u].kind = "cp"
    <3>1. Copies(th[u])
      BY <2>2 DEF Copies
    <3> QED
      BY <1>0, <2>1, <3>1 DEF PoolInv, CopiesApart
  <2>3. CASE th[u].kind \notin {"cp", "scan"}
    <3>1. Searching(th[u])
      <4>1. th[u] \in CallType
        BY InCallShape
      <4> QED
        BY <2>3, <4>1 DEF Searching, CallType, Kinds
    <3> QED
      BY <1>0, <2>1, <3>1 DEF PoolInv, CopiesApart, SearchesServed
  <2>4. CASE th[u].kind = "scan"
    <3>1. Missing(th[u]) /\ Missing(th[t])
      BY <1>1, <2>4 DEF Missing
    <3> QED
      BY <1>0, <1>1, <2>4, <3>1 DEF PoolInv, ScansApart
  <2> QED
    BY <2>2, <2>3, <2>4
<1>7. /\ y \in FrameType /\ y.page = frame[f].page /\ y.dirty = frame[f].dirty
      /\ y.pins = frame[f].pins /\ y.latch = 0
  BY <1>0, <1>1 DEF FrameType
<1>8. /\ frame' \in [Frames -> FrameType] /\ frame'[f] = y
      /\ \A g \in Frames : g # f => frame'[g] = frame[g]
  BY <1>1, <1>2, <1>7, TouchedFrame DEF Touched
<1>9. /\ raced \subseteq raced' /\ UNCHANGED lists
      /\ \A g \in Frames : frame'[g].page = frame[g].page /\ frame'[g].dirty = frame[g].dirty
  BY <1>7, <1>8 DEF CpPublish
<1>10. ListsApart' /\ MapExact' /\ Resident' /\ OwnersApart' /\ PlacesKnown'
  <2>1. f = th[t].f /\ p = th[t].p /\ x.pc \in {"finish", "mark"}
    BY <1>0, <1>3
  <2> QED
    BY <1>1, <1>2, <1>3, <1>4, <1>6, <1>9, <2>1, PublishCommon
<1>11. /\ Excludes(th[t], f)
       /\ \A g \in Frames : ~Pins(x, g) /\ ~Pins(th[t], g) /\ ~Reads(x, g) /\ ~Excludes(x, g)
  BY <1>0, <1>1, <1>3 DEF Pins, Reads, Excludes, Owns
<1>12. PinsExact'
  BY <1>4, <1>7, <1>8, <1>11, PinsSame
<1>13. LatchExact' /\ OneWriter'
  BY <1>1, <1>4, <1>7, <1>8, <1>11, WriterLeaves
<1>14. LoadersApart' /\ CopiesApart' /\ SearchesServed' /\ Retiring' /\ ScansApart'
  BY <1>4, <1>5, LoadsStep, CallsStep DEF CpPublish
<1>15. PoolTyped'
  <2>1. /\ loading' \in SUBSET Pages /\ stat' \in [Pages -> {"live", "old", "free", "new"}]
        /\ map' \in [Pages -> Frames \cup {NoFrame}]
    <3>1. loading' = loading /\ stat' = stat
      BY DEF CpPublish
    <3> QED
      BY <1>1, <1>2, <3>1 DEF PoolInv, PoolTyped
  <2>2. ContentTyped
    BY <1>8 DEF ContentTyped, CpPublish, counts, PoolInv, PoolTyped
  <2> QED
    BY <1>1, <1>4, <2>1, <2>2, TypesStep
<1> QED
  BY <1>10, <1>12, <1>13, <1>14, <1>15 DEF PoolInv

\* mark_dirty, and the vertices are switched to the new page.
LEMMA CpMarkStep ==
  ASSUME PoolInv, NEW t \in Threads, CpMark(t)
  PROVE  PoolInv'
<1>0. PICK f, p, y : f = th[t].f /\ p = th[t].p /\ y = [frame[f] EXCEPT !.dirty = TRUE]
  OBVIOUS
<1>1. /\ th[t].pc = "mark" /\ CallShape(th[t]) /\ th[t] \in CallType /\ InCall(t)
      /\ DOMAIN th = Threads /\ f \in Frames /\ frame[f] \in FrameType /\ DOMAIN frame = Frames
      /\ p \in Pages /\ th[t].kind = "cp"
  BY <1>0, HereIsFrame DEF CpMark, Located, CallShape, CallType
<1>2. /\ y \in FrameType /\ y.page = frame[f].page /\ y.pins = frame[f].pins
      /\ y.latch = frame[f].latch
  BY <1>0, <1>1 DEF FrameType
<1>3. /\ th' = [th EXCEPT ![t] = Idle] /\ frame' = [frame EXCEPT ![f] = y]
      /\ stat' = [stat EXCEPT ![p] = "live"] /\ loading' = loading /\ raced \subseteq raced'
      /\ (map[p] # f => "late mark" \in raced')
      /\ UNCHANGED <<lists, counts, map, disk, gc, truth>>
  BY <1>0, <1>1 DEF CpMark
<1>4. Moved(t, Idle) /\ Touched(f, y)
  BY <1>2, <1>3, GoesIdle DEF Moved, Touched
<1>5. /\ frame' \in [Frames -> FrameType] /\ frame'[f] = y
      /\ \A g \in Frames : g # f => frame'[g] = frame[g]
  BY <1>1, <1>4, TouchedFrame
<1>6. \A g \in Frames : ~Pins(th[t], g) /\ ~Reads(th[t], g) /\ ~Excludes(th[t], g) /\ ~Owns(th[t], g)
  BY <1>1 DEF Pins, Reads, Excludes, Owns
<1>7. PinsExact' /\ LatchExact' /\ OneWriter'
  <2>1. \A g \in Frames : frame'[g].pins = frame[g].pins /\ frame'[g].latch = frame[g].latch
    BY <1>2, <1>5
  <2>2. \A g \in Frames : ~Pins(Idle, g) /\ ~Reads(Idle, g) /\ ~Excludes(Idle, g)
    BY DEF Idle, Pins, Reads, Excludes, Owns
  <2> QED
    BY <1>4, <1>6, <2>1, <2>2, PinsSame, LatchesSame
<1>9. PagesKept(t, Idle)
  <2>1. ~On(free, f) \/ "late mark" \in raced'
    <3>1. CASE map[p] = f
      BY <1>1, <3>1, BufPoolAssumption DEF PoolInv, MapExact
    <3> QED
      BY <1>3, <3>1
  <2> QED
    BY <1>2, <1>3, <1>5, <1>6, <2>1, GoesIdle DEF PagesKept
<1>10. ListsApart' /\ MapExact' /\ Resident' /\ OwnersApart' /\ PlacesKnown'
  BY <1>3, <1>4, <1>9, GoesIdle, MapStep, PlacesStep
<1>11. LoadersApart'
  BY <1>3, <1>4, GoesIdle, LoadsStep
<1>12. PoolTyped'
  <2>1. ContentTyped /\ loading' \in SUBSET Pages /\ map' \in [Pages -> Frames \cup {NoFrame}]
        /\ stat' \in [Pages -> {"live", "old", "free", "new"}]
    BY <1>3, <1>5 DEF ContentTyped, counts, PoolInv, PoolTyped
  <2> QED
    BY <1>1, <1>4, <2>1, TypesStep
<1>13. /\ th'[t] = Idle /\ \A u \in Threads : u # t => th'[u] = th[u]
  BY <1>4, MovedThread DEF PoolInv
<1>14. \A q \in Pages : stat'[q] = IF q = p THEN "live" ELSE stat[q]
  BY <1>1, <1>3 DEF PoolInv, PoolTyped
<1>15. Copies(th[t]) /\ ~Copies(Idle) /\ ~Searching(Idle)
  BY <1>1 DEF Copies, Searching, Idle
<1>16. \A u \in Threads : (Copies(th[u]) \/ Searching(th[u])) => th[u].p \in Pages
  BY InCallShape DEF Copies, Searching, CallType
<1>17. CopiesApart'
  BY <1>0, <1>13, <1>14, <1>15, <1>16 DEF PoolInv, CopiesApart
<1>18. SearchesServed'
  BY <1>13, <1>14, <1>15, <1>16 DEF PoolInv, SearchesServed
<1>19. Retiring'
  <2>1. stat[p] = "new" /\ gc' = gc
    BY <1>0, <1>3, <1>15 DEF PoolInv, CopiesApart
  <2>2. \A u \in Threads : Searching(th'[u]) => Searching(th[u]) /\ th'[u].p = th[u].p
    BY <1>13, <1>15
  <2>3. CASE gc = Idle
    BY <2>1, <2>3 DEF Retiring
  <2>4. CASE gc # Idle
    <3>1. /\ gc \in [pc : {"retire"}, p : Pages, f : Frames] /\ stat[gc.p] = "old"
          /\ \A u \in Threads : Searching(th[u]) => th[u].p # gc.p
      BY <2>4 DEF PoolInv, Retiring
    <3>2. gc.p \in Pages /\ gc.p # p
      BY <2>1, <3>1
    <3>3. stat'[gc.p] = "old"
      BY <1>14, <3>1, <3>2
    <3> QED
      BY <2>1, <2>2, <3>1, <3>3 DEF Retiring
  <2> QED
    BY <2>3, <2>4
<1>20. ScansApart'
  BY <1>3, <1>4, ScansStep DEF Missing, Idle
<1> QED
  BY <1>7, <1>10, <1>11, <1>12, <1>17, <1>18, <1>19, <1>20 DEF PoolInv

-----------------------------------------------------------------------------
(* Calls, replaced pages, the reclaimer and the flusher *)

LEMMA CallStep ==
  ASSUME PoolInv, NEW t \in Threads, NEW kind \in Calls, NEW p \in Pages,
         Call(t, kind, p)
  PROVE  PoolInv'
<1>0. PICK x : x = [pc |-> IF kind = "cp" THEN "cp_find" ELSE "find", kind |-> kind,
                    p |-> p, f |-> NoFrame, loader |-> FALSE, wb |-> 0]
  OBVIOUS
<1>1. kind \in Kinds
  BY BufPoolAssumption DEF Kinds
<1>2. /\ x \in CallType /\ x.pc = IF kind = "cp" THEN "cp_find" ELSE "find"
      /\ x.kind = kind /\ x.p = p /\ ~x.loader
  <2>1. 0 \in 0 .. NumPages
    BY BufPoolAssumption
  <2> QED
    BY <1>0, <1>1, <2>1 DEF CallType, Pcs
<1>3. /\ th[t].pc = "idle" /\ ncalls < MaxCalls /\ th' = [th EXCEPT ![t] = x]
      /\ ncalls' = ncalls + 1
      /\ stat' = IF kind = "cp" THEN [stat EXCEPT ![p] = "new"] ELSE stat
      /\ kind = "cp" => stat[p] = "free"
      /\ kind \in {"read", "slot", "job"} => stat[p] = "live"
      /\ UNCHANGED <<lists, map, frame, loading, disk, gc, truth, nretires, raced>>
  BY <1>0, <1>1 DEF Call, InCall, Kinds
<1>4. Moved(t, x)
  BY <1>2, <1>3 DEF Moved, Shape, CallShape, Located
<1>5. /\ DOMAIN th' = Threads /\ th'[t] = x /\ \A u \in Threads : u # t => th'[u] = th[u]
      /\ \A u \in Threads : Shape(th'[u])
  BY <1>4, MovedThread DEF PoolInv
<1>6. \A g \in Frames : /\ ~Pins(x, g) /\ ~Pins(th[t], g) /\ ~Reads(x, g) /\ ~Reads(th[t], g)
                        /\ ~Excludes(x, g) /\ ~Excludes(th[t], g) /\ ~Owns(x, g) /\ ~Owns(th[t], g)
  BY <1>2, <1>3 DEF Pins, Reads, Excludes, Owns
<1>7. PinsExact'
  BY <1>3, <1>4, <1>6, PinsSame
<1>8. LatchExact' /\ OneWriter'
  BY <1>3, <1>4, <1>6, LatchesSame
<1>9. PagesKept(t, x) /\ LoadsKept(t, x) /\ PlaceKnown(x)'
  BY <1>2, <1>3, <1>6 DEF PagesKept, LoadsKept, Loads, PlaceKnown, PoolInv, PoolTyped, Missing, Apart
<1>10. ListsApart' /\ MapExact' /\ Resident' /\ OwnersApart' /\ PlacesKnown' /\ LoadersApart'
  BY <1>3, <1>4, <1>9, MapStep, PlacesStep, LoadsStep
<1>11. PoolTyped'
  <2>1. ncalls' \in 0 .. MaxCalls /\ ncalls' # 0
    BY <1>3, BufPoolAssumption DEF PoolInv, PoolTyped
  <2>2. stat' \in [Pages -> {"live", "old", "free", "new"}]
    BY <1>3 DEF PoolInv, PoolTyped
  <2> QED
    BY <1>3, <1>5, <2>1, <2>2 DEF PoolInv, PoolTyped
<1>12. \A q \in Pages : stat'[q] = IF q = p /\ kind = "cp" THEN "new" ELSE stat[q]
  BY <1>3 DEF PoolInv, PoolTyped
<1>13. /\ ~Copies(th[t]) /\ ~Searching(th[t]) /\ (Copies(x) <=> kind = "cp")
       /\ (Searching(x) <=> kind \in {"read", "slot", "job"})
  BY <1>2, <1>3 DEF Copies, Searching
<1>14. \A u \in Threads : (Copies(th[u]) \/ Searching(th[u])) => th[u].p \in Pages
  BY InCallShape DEF Copies, Searching, CallType
<1>15. CopiesApart'
  BY <1>2, <1>3, <1>5, <1>12, <1>13, <1>14 DEF PoolInv, CopiesApart
<1>16. SearchesServed'
  BY <1>2, <1>3, <1>5, <1>12, <1>13, <1>14 DEF PoolInv, SearchesServed
<1>17. Retiring'
  <2>1. CASE gc = Idle
    BY <1>3, <2>1 DEF Retiring
  <2>2. CASE gc # Idle
    <3>1. /\ gc \in [pc : {"retire"}, p : Pages, f : Frames] /\ stat[gc.p] = "old"
          /\ \A u \in Threads : Searching(th[u]) => th[u].p # gc.p
      BY <2>2 DEF PoolInv, Retiring
    <3>2. gc.p \in Pages /\ gc' = gc /\ (kind # "scan" => gc.p # p)
      BY <1>1, <1>3, <3>1 DEF Kinds
    <3>3. stat'[gc.p] = "old"
      BY <1>12, <3>1, <3>2
    <3>4. \A u \in Threads : Searching(th'[u]) => th'[u].p # gc.p
      BY <1>2, <1>5, <1>13, <3>1, <3>2
    <3> QED
      BY <3>1, <3>2, <3>3, <3>4 DEF Retiring
  <2> QED
    BY <2>1, <2>2
<1>18. ScansApart'
  BY <1>2, <1>3, <1>4, ScansStep DEF Missing
<1> QED
  BY <1>7, <1>8, <1>10, <1>11, <1>15, <1>16, <1>17, <1>18 DEF PoolInv

\* Steps in which no thread moves and no frame changes hands.
LEMMA StillStep ==
  ASSUME PoolInv, UNCHANGED <<th, map, lists, loading, truth, ncalls, raced>>,
         frame' \in [Frames -> FrameType], disk' \in [Pages -> SUBSET (1 .. MaxCalls)],
         \A g \in Frames : /\ frame'[g].page = frame[g].page /\ frame'[g].pins = frame[g].pins
                           /\ frame'[g].latch = frame[g].latch /\ (frame'[g].dirty => frame[g].dirty),
         stat' \in [Pages -> {"live", "old", "free", "new"}],
         CopiesApart', SearchesServed', Retiring'
  PROVE  PoolInv'
<1>1. PoolTyped'
  BY DEF PoolInv, PoolTyped, InCall
<1>2. PinsExact'
  BY DEF PoolInv, PinsExact, Pinners
<1>3. LatchExact' /\ OneWriter'
  BY DEF PoolInv, LatchExact, OneWriter, Readers
<1>4. ListsApart'
  BY DEF PoolInv, ListsApart, lists
<1>5. free' = free /\ \A g \in Frames : Owned(g)' <=> Owned(g)
  BY DEF Owned, lists
<1>6. MapExact'
  BY <1>5 DEF PoolInv, MapExact, PoolTyped
<1>7. Resident'
  BY <1>5 DEF PoolInv, Resident, Apart
<1>8. OwnersApart' /\ LoadersApart'
  BY <1>5 DEF PoolInv, OwnersApart, LoadersApart
<1>9. PlacesKnown'
  <2> SUFFICES ASSUME NEW u \in Threads
               PROVE  PlaceKnown(th[u])'
    BY DEF PlacesKnown
  <2>1. PlaceKnown(th[u]) /\ Shape(th[u])
    BY DEF PoolInv, PlacesKnown, PoolTyped
  <2> QED
    BY <2>1 DEF PlaceKnown, Shape, CallShape, Idle, Located, Missing, Apart
<1>10. ScansApart'
  BY DEF PoolInv, ScansApart, Apart
<1> QED
  BY <1>1, <1>2, <1>3, <1>4, <1>6, <1>7, <1>8, <1>9, <1>10 DEF PoolInv

LEMMA FlushStep ==
  ASSUME PoolInv, NEW f \in Frames, Flush(f)
  PROVE  PoolInv'
<1>0. PICK y : y = [frame[f] EXCEPT !.dirty = FALSE]
  OBVIOUS
<1>1. frame \in [Frames -> FrameType] /\ disk \in [Pages -> SUBSET (1 .. MaxCalls)]
      /\ frame[f] \in FrameType
  BY DEF PoolInv, PoolTyped
<1>2. /\ y \in FrameType /\ y.page = frame[f].page /\ y.pins = frame[f].pins
      /\ y.latch = frame[f].latch /\ ~y.dirty
  BY <1>0, <1>1 DEF FrameType
<1>3. frame' = [frame EXCEPT ![f] = y]
  BY <1>0, <1>1 DEF Flush
<1>4. /\ frame' \in [Frames -> FrameType]
      /\ \A g \in Frames : /\ frame'[g].page = frame[g].page /\ frame'[g].pins = frame[g].pins
                           /\ frame'[g].latch = frame[g].latch /\ (frame'[g].dirty => frame[g].dirty)
  BY <1>1, <1>2, <1>3
<1>5. disk' \in [Pages -> SUBSET (1 .. MaxCalls)]
  BY <1>1 DEF Flush, FrameType
<1>6. /\ UNCHANGED <<th, map, lists, loading, truth, ncalls, raced, stat, gc>>
      /\ stat' \in [Pages -> {"live", "old", "free", "new"}]
  BY DEF Flush, counts, PoolInv, PoolTyped
<1>7. CopiesApart' /\ SearchesServed' /\ Retiring'
  BY <1>6 DEF PoolInv, CopiesApart, SearchesServed, Retiring
<1> QED
  BY <1>4, <1>5, <1>6, <1>7, StillStep

\* A page without searchers changes its status; pages that are copied keep theirs.
LEMMA StatusStep ==
  ASSUME PoolInv, NEW p \in Pages, NEW v \in {"old", "free"},
         v = "old" => stat[p] = "live",
         v = "free" => stat[p] = "old" /\ \A u \in Threads : Searching(th[u]) => th[u].p # p,
         th' = th, stat' = [stat EXCEPT ![p] = v]
  PROVE  CopiesApart' /\ SearchesServed' /\ \A q \in Pages : q # p => stat'[q] = stat[q]
<1>1. \A q \in Pages : stat'[q] = IF q = p THEN v ELSE stat[q]
  BY DEF PoolInv, PoolTyped
<1>2. \A u \in Threads : (Copies(th[u]) \/ Searching(th[u])) => th[u].p \in Pages
  BY InCallShape DEF Copies, Searching, CallType
<1>3. CopiesApart'
  BY <1>1, <1>2 DEF PoolInv, CopiesApart
<1>4. SearchesServed'
  BY <1>1, <1>2 DEF PoolInv, SearchesServed
<1> QED
  BY <1>1, <1>3, <1>4

LEMMA ReplaceStep ==
  ASSUME PoolInv, NEW p \in Pages, Replace(p)
  PROVE  PoolInv'
<1>1. /\ stat[p] = "live" /\ stat' = [stat EXCEPT ![p] = "old"]
      /\ UNCHANGED <<lists, map, frame, loading, disk, th, gc, truth, ncalls, raced>>
  BY DEF Replace
<1>2. CopiesApart' /\ SearchesServed' /\ \A q \in Pages : q # p => stat'[q] = stat[q]
  BY <1>1, StatusStep
<1>3. Retiring'
  <2>1. CASE gc = Idle
    BY <1>1, <2>1 DEF Retiring
  <2>2. CASE gc # Idle
    <3>1. /\ gc \in [pc : {"retire"}, p : Pages, f : Frames] /\ stat[gc.p] = "old"
          /\ \A u \in Threads : Searching(th[u]) => th[u].p # gc.p
      BY <2>2 DEF PoolInv, Retiring
    <3>2. gc.p \in Pages /\ gc.p # p
      BY <1>1, <3>1
    <3> QED
      BY <1>1, <1>2, <3>1, <3>2 DEF Retiring
  <2> QED
    BY <2>1, <2>2
<1>4. /\ frame' \in [Frames -> FrameType] /\ disk' \in [Pages -> SUBSET (1 .. MaxCalls)]
      /\ stat' \in [Pages -> {"live", "old", "free", "new"}]
  BY <1>1 DEF PoolInv, PoolTyped
<1> QED
  BY <1>1, <1>2, <1>3, <1>4, StillStep

LEMMA NotProtected ==
  ASSUME PoolInv, NEW p \in Pages, ~Protected(p), NEW u \in Threads, Searching(th[u])
  PROVE  th[u].p # p
<1>1. th[u].pc \notin {"idle", "hold", "pinned"} /\ th[u].kind \in {"read", "slot", "job"}
  BY InCallShape DEF Searching, CallType, Kinds
<1> QED
  BY <1>1 DEF Protected

LEMMA RetireFindStep ==
  ASSUME PoolInv, NEW p \in Pages, RetireFind(p)
  PROVE  PoolInv'
<1>1. /\ stat[p] = "old" /\ ~Protected(p) /\ gc.pc = "idle"
      /\ UNCHANGED <<lists, counts, map, frame, loading, disk, th, truth, raced>>
  BY DEF RetireFind
<1>2. \A u \in Threads : Searching(th[u]) => th[u].p # p
  BY <1>1, NotProtected
<1>3. gc = Idle
  BY <1>1 DEF PoolInv, Retiring, Idle
<1>4. /\ frame' \in [Frames -> FrameType] /\ disk' \in [Pages -> SUBSET (1 .. MaxCalls)]
      /\ map \in [Pages -> Frames \cup {NoFrame}]
      /\ stat \in [Pages -> {"live", "old", "free", "new"}]
  BY <1>1 DEF PoolInv, PoolTyped
<1>5. CASE map[p] = NoFrame
  <2>1. stat' = [stat EXCEPT ![p] = "free"] /\ gc' = gc
    BY <1>5 DEF RetireFind
  <2>2. CopiesApart' /\ SearchesServed'
    BY <1>1, <1>2, <2>1, StatusStep
  <2>3. Retiring' /\ stat' \in [Pages -> {"live", "old", "free", "new"}]
    BY <1>3, <1>4, <2>1 DEF Retiring
  <2> QED
    BY <1>1, <1>4, <2>2, <2>3, StillStep DEF counts
<1>6. CASE map[p] # NoFrame
  <2>1. gc' = [pc |-> "retire", p |-> p, f |-> map[p]] /\ stat' = stat
    BY <1>6 DEF RetireFind
  <2>2. CopiesApart' /\ SearchesServed'
    BY <1>1, <2>1 DEF PoolInv, CopiesApart, SearchesServed
  <2>3. Retiring' /\ stat' \in [Pages -> {"live", "old", "free", "new"}]
    <3>1. map[p] \in Frames
      BY <1>4, <1>6
    <3>2. gc' \in [pc : {"retire"}, p : Pages, f : Frames] /\ gc'.p = p
      BY <2>1, <3>1
    <3> QED
      BY <1>1, <1>2, <1>4, <2>1, <3>2 DEF Retiring
  <2> QED
    BY <1>1, <1>4, <2>2, <2>3, StillStep DEF counts
<1> QED
  BY <1>5, <1>6

LEMMA AppendOnce ==
  ASSUME NEW s \in Seq(Frames), NEW f \in Frames, Once(s), ~On(s, f)
  PROVE  /\ Append(s, f) \in Seq(Frames) /\ Len(Append(s, f)) = Len(s) + 1 /\ Once(Append(s, f))
         /\ \A g \in Frames : On(Append(s, f), g) <=> On(s, g) \/ g = f
<1>0. PICK w : w = Append(s, f)
  OBVIOUS
<1>1. w \in Seq(Frames) /\ Len(w) = Len(s) + 1 /\ DOMAIN w = 1 .. Len(w) /\ DOMAIN s = 1 .. Len(s)
      /\ Len(s) \in Nat
  BY <1>0
<1>2. w[Len(w)] = f /\ \A j \in 1 .. Len(s) : w[j] = s[j] /\ s[j] # f
  BY <1>0, <1>1 DEF On
<1>3. Once(w)
  <2> SUFFICES ASSUME NEW i \in 1 .. Len(w), NEW j \in 1 .. Len(w), w[i] = w[j]
               PROVE  i = j
    BY <1>1 DEF Once
  <2>1. CASE i = Len(w) \/ j = Len(w)
    BY <1>1, <1>2, <2>1
  <2>2. CASE i # Len(w) /\ j # Len(w)
    <3>1. i \in DOMAIN s /\ j \in DOMAIN s /\ s[i] = s[j]
      BY <1>1, <1>2, <2>2
    <3> QED
      BY <3>1 DEF Once
  <2> QED
    BY <2>1, <2>2
<1>4. ASSUME NEW g \in Frames
      PROVE  On(w, g) <=> On(s, g) \/ g = f
  <2>1. ASSUME On(w, g) PROVE On(s, g) \/ g = f
    <3>1. PICK j \in 1 .. Len(w) : w[j] = g
      BY <1>1, <2>1 DEF On
    <3>2. j = Len(w) \/ (j \in 1 .. Len(s) /\ s[j] = g)
      BY <1>1, <1>2, <3>1
    <3> QED
      BY <1>1, <1>2, <3>1, <3>2 DEF On
  <2>2. ASSUME On(s, g) PROVE On(w, g)
    <3>1. PICK j \in 1 .. Len(s) : s[j] = g
      BY <1>1, <2>2 DEF On
    <3>2. j \in 1 .. Len(w) /\ w[j] = g
      BY <1>1, <1>2, <3>1
    <3> QED
      BY <1>1, <3>2 DEF On
  <2>3. On(w, f)
    BY <1>1, <1>2 DEF On
  <2> QED
    BY <2>1, <2>2, <2>3
<1> QED
  BY <1>0, <1>1, <1>3, <1>4

\* A mapped frame that nobody holds goes to the free list.
LEMMA RecycleStep ==
  ASSUME PoolInv, NEW p \in Pages, NEW f \in Frames, map[p] = f, Evictable(f), stat[p] = "old",
         \A u \in Threads : Searching(th[u]) => th[u].p # p,
         map' = [map EXCEPT ![p] = NoFrame],
         frame' = [frame EXCEPT ![f].dirty = FALSE, ![f].ref = FALSE],
         lru' = Without(lru, f), hand' = HandWithout(hand, f), free' = Append(free, f),
         stat' = [stat EXCEPT ![p] = "free"], gc' = Idle,
         UNCHANGED <<counts, loading, disk, th, truth, raced>>
  PROVE  PoolInv'
<1>1. /\ frame \in [Frames -> FrameType] /\ frame[f] \in FrameType
      /\ map \in [Pages -> Frames \cup {NoFrame}]
  BY DEF PoolInv, PoolTyped
<1>2. \A q \in Pages : map'[q] = IF q = p THEN NoFrame ELSE map[q]
  BY <1>1
<1>3. PICK y : y = [frame[f] EXCEPT !.dirty = FALSE, !.ref = FALSE]
  OBVIOUS
<1>4. /\ y \in FrameType /\ y.page = frame[f].page /\ y.pins = frame[f].pins
      /\ y.latch = frame[f].latch /\ ~y.dirty
  BY <1>1, <1>3 DEF FrameType
<1>5. frame' = [frame EXCEPT ![f] = y]
  BY <1>1, <1>3
<1>6. /\ frame' \in [Frames -> FrameType] /\ ~frame'[f].dirty
      /\ \A g \in Frames : /\ frame'[g].page = frame[g].page /\ frame'[g].pins = frame[g].pins
                           /\ frame'[g].latch = frame[g].latch
                           /\ (g # f => frame'[g].dirty = frame[g].dirty)
  <2>1. frame'[f] = y
    BY <1>1, <1>5
  <2>2. \A g \in Frames : g # f => frame'[g] = frame[g]
    BY <1>1, <1>5
  <2>3. frame' \in [Frames -> FrameType]
    <3>1. ASSUME NEW h \in [Frames -> FrameType], NEW z \in FrameType
          PROVE  [h EXCEPT ![f] = z] \in [Frames -> FrameType]
      OBVIOUS
    <3> QED
      BY <1>1, <1>4, <1>5, <3>1
  <2> QED
    BY <1>4, <2>1, <2>2, <2>3
<1>7. frame[f].page = p /\ ~On(free, f) /\ ~Owned(f) /\ On(lru, f)
  <2>1. frame[f].page = p /\ ~On(free, f) /\ ~Owned(f)
    BY BufPoolAssumption DEF PoolInv, MapExact
  <2> QED
    BY <2>1 DEF PoolInv, ListsApart
<1>8. /\ lru \in Seq(Frames) /\ free \in Seq(Frames) /\ Once(lru) /\ Once(free)
      /\ \A g \in Frames : On(lru, g) <=> ~On(free, g)
  BY DEF PoolInv, ListsApart
<1>9. /\ lru' \in Seq(Frames) /\ Len(lru') = Len(lru) - 1 /\ Once(lru')
      /\ \A g \in Frames : On(lru', g) <=> On(lru, g) /\ g # f
  BY <1>7, <1>8, WithoutExact
<1>10. /\ free' \in Seq(Frames) /\ Len(free') = Len(free) + 1 /\ Once(free')
       /\ \A g \in Frames : On(free', g) <=> On(free, g) \/ g = f
  BY <1>7, <1>8, AppendOnce
<1>11. ListsApart'
  <2>1. hand \in Frames /\ On(lru, hand)
    <3>1. lru # <<>>
      BY <1>7 DEF On
    <3>2. On(lru, hand) /\ hand \in Frames \cup {NoFrame}
      BY <3>1 DEF PoolInv, ListsApart
    <3> QED
      BY <1>8, <3>2 DEF On
  <2>2. /\ hand' \in Frames /\ On(lru, hand') /\ (Len(lru) > 1 => hand' # f)
    BY <1>7, <1>8, <2>1, NextOfFound DEF HandWithout
  <2>3. lru' = <<>> \/ On(lru', hand')
    <3>1. CASE Len(lru) > 1
      BY <1>9, <2>2, <3>1
    <3>2. CASE ~(Len(lru) > 1)
      <4>1. Len(lru') = 0
        BY <1>8, <1>9, <3>2
      <4> QED
        BY <1>9, <4>1
    <3> QED
      BY <3>1, <3>2
  <2>4. \A g \in Frames : On(lru', g) <=> ~On(free', g)
    BY <1>7, <1>8, <1>9, <1>10
  <2>5. Len(lru') + Len(free') = Cardinality(Frames)
    <3>1. Len(lru) + Len(free) = Cardinality(Frames)
      BY Zenon DEF PoolInv, ListsApart
    <3>2. Len(lru) \in Nat /\ Len(free) \in Nat
      BY <1>8
    <3> QED
      BY <1>9, <1>10, <3>1, <3>2
  <2>6. \A g \in Frames : (On(free', g) /\ frame'[g].dirty) => "late mark" \in raced'
    BY <1>6, <1>10 DEF PoolInv, ListsApart
  <2> QED
    BY <1>9, <1>10, <2>2, <2>3, <2>4, <2>5, <2>6 DEF ListsApart
<1>12. \A g \in Frames : Owned(g)' <=> Owned(g)
  BY DEF Owned
<1>13. MapExact'
  <2> SUFFICES ASSUME NEW q \in Pages, map'[q] # NoFrame
               PROVE  (frame[map[q]].page = q /\ ~On(free, map[q]) /\ ~Owned(map[q]))'
    BY DEF MapExact
  <2>1. PICK g \in Frames : g = map'[q] /\ g = map[q] /\ q # p
    BY <1>1, <1>2
  <2>2. frame[g].page = q /\ ~On(free, g) /\ ~Owned(g)
    BY <2>1, BufPoolAssumption DEF PoolInv, MapExact
  <2>3. frame'[g].page = q /\ ~On(free', g) /\ ~Owned(g)'
    BY <1>6, <1>7, <1>10, <1>12, <2>1, <2>2
  <2> QED
    BY <2>1, <2>3 DEF Owned
<1>14. Resident'
  <2> SUFFICES ASSUME NEW g \in Frames, ~On(free', g), ~Owned(g)'
               PROVE  frame'[g].page \in Pages /\ (Apart' => map'[frame'[g].page] = g)
    BY DEF Resident
  <2>1. g # f /\ frame[g].page \in Pages /\ (Apart => map[frame[g].page] = g)
    BY <1>10, <1>12 DEF PoolInv, Resident
  <2> QED
    BY <1>2, <1>6, <2>1, ApartKept
<1>15. OwnersApart'
  BY <1>7, <1>10 DEF PoolInv, OwnersApart, Owned
<1>16. LoadersApart'
  BY DEF PoolInv, LoadersApart
<1>17. CopiesApart' /\ SearchesServed'
  BY StatusStep
<1>18. Retiring'
  BY DEF Retiring
<1>19. PlacesKnown'
  <2> SUFFICES ASSUME NEW u \in Threads
               PROVE  PlaceKnown(th[u])'
    BY DEF PlacesKnown
  <2> QED
    BY <1>6, UnmapKnown
<1>20. PinsExact'
  BY <1>6 DEF PoolInv, PinsExact, Pinners
<1>21. LatchExact' /\ OneWriter'
  <2>1. \A g \in Frames : Readers(g)' = Readers(g)
    BY DEF Readers
  <2>2. LatchExact'
    BY <1>6, <2>1 DEF PoolInv, LatchExact
  <2>3. OneWriter'
    BY DEF PoolInv, OneWriter
  <2> QED
    BY <2>2, <2>3
<1>22. PoolTyped'
  <2>1. map' \in [Pages -> Frames \cup {NoFrame}]
    BY <1>1
  <2>2. stat' \in [Pages -> {"live", "old", "free", "new"}]
    BY DEF PoolInv, PoolTyped
  <2> QED
    BY <1>6, <2>1, <2>2 DEF PoolInv, PoolTyped, InCall, counts
<1>23. ScansApart'
  BY DEF PoolInv, ScansApart, Apart
<1> QED
  BY <1>11, <1>13, <1>14, <1>15, <1>16, <1>17, <1>18, <1>19, <1>20, <1>21, <1>22, <1>23 DEF PoolInv

LEMMA RetireLockedStep ==
  ASSUME PoolInv, RetireLocked
  PROVE  PoolInv'
<1>1. PICK p, f : p = gc.p /\ f = gc.f
  OBVIOUS
<1>2. /\ p \in Pages /\ f \in Frames /\ stat[p] = "old"
      /\ \A u \in Threads : Searching(th[u]) => th[u].p # p
  BY <1>1 DEF RetireLocked, PoolInv, Retiring, Idle
<1>3. gc' = Idle /\ UNCHANGED <<counts, loading, disk, th, truth, raced>>
  BY DEF RetireLocked
<1>4. Retiring'
  BY <1>3 DEF Retiring
<1>5. CASE map[p] # f /\ stat' = [stat EXCEPT ![p] = "free"] /\ UNCHANGED <<lists, map, frame>>
  <2>1. CopiesApart' /\ SearchesServed'
    BY <1>2, <1>3, <1>5, StatusStep
  <2>2. /\ frame' \in [Frames -> FrameType] /\ disk' \in [Pages -> SUBSET (1 .. MaxCalls)]
        /\ stat' \in [Pages -> {"live", "old", "free", "new"}]
    BY <1>3, <1>5 DEF PoolInv, PoolTyped
  <2> QED
    BY <1>3, <1>4, <1>5, <2>1, <2>2, StillStep DEF counts
<1>6. CASE UNCHANGED <<lists, map, frame, stat>>
  <2>1. CopiesApart' /\ SearchesServed'
    BY <1>3, <1>6 DEF PoolInv, CopiesApart, SearchesServed
  <2>2. /\ frame' \in [Frames -> FrameType] /\ disk' \in [Pages -> SUBSET (1 .. MaxCalls)]
        /\ stat' \in [Pages -> {"live", "old", "free", "new"}]
    BY <1>3, <1>6 DEF PoolInv, PoolTyped
  <2> QED
    BY <1>3, <1>4, <1>6, <2>1, <2>2, StillStep DEF counts
<1>7. CASE /\ map[p] = f /\ Evictable(f)
           /\ map' = [map EXCEPT ![p] = NoFrame]
           /\ frame' = [frame EXCEPT ![f].dirty = FALSE, ![f].ref = FALSE]
           /\ lru' = Without(lru, f)
           /\ hand' = HandWithout(hand, f)
           /\ free' = Append(free, f)
           /\ stat' = [stat EXCEPT ![p] = "free"]
  BY <1>2, <1>3, <1>7, RecycleStep
<1> QED
  BY <1>1, <1>5, <1>6, <1>7 DEF RetireLocked

-----------------------------------------------------------------------------
(* Results *)

LEMMA PoolStart == Init => PoolInv
<1> SUFFICES ASSUME Init
             PROVE  PoolInv
  OBVIOUS
<1>1. /\ map = [p \in Pages |-> NoFrame] /\ frame = [f \in Frames |-> Empty]
      /\ lru = <<>> /\ hand = NoFrame /\ loading = {} /\ disk = [p \in Pages |-> {}]
      /\ th = [t \in Threads |-> Idle] /\ gc = Idle
      /\ stat = [p \in Pages |-> IF p <= LivePages THEN "live" ELSE "free"]
      /\ truth = [p \in Pages |-> {}] /\ ncalls = 0
      /\ free \in [1 .. Cardinality(Frames) -> Frames] /\ Once(free)
  BY DEF Init, Once
<1>2. Empty \in FrameType /\ Empty.pins = 0 /\ Empty.latch = 0 /\ ~Empty.dirty
  <2>1. 0 \in 0 .. NumPages
    BY BufPoolAssumption
  <2> QED
    BY <2>1 DEF Empty, FrameType
<1>3. Cardinality(Frames) \in Nat
  BY BufPoolAssumption, FS_CardinalityType
<1>4. \A t \in Threads : th[t].pc = "idle"
  BY <1>1 DEF Idle
<1>5. PoolTyped
  <2>1. frame \in [Frames -> FrameType]
    BY <1>1, <1>2
  <2>2. \A t \in Threads : Shape(th[t]) /\ ~InCall(t)
    BY <1>1, <1>4 DEF Shape, InCall
  <2>3. ncalls \in 0 .. MaxCalls
    BY <1>1, BufPoolAssumption
  <2> QED
    BY <1>1, <2>1, <2>2, <2>3 DEF PoolTyped
<1>6. PinsExact
  <2>1. \A f \in Frames : Pinners(f) = {}
    BY <1>4 DEF Pinners, Pins
  <2> QED
    BY <1>1, <1>2, <2>1, FS_EmptySet DEF PinsExact
<1>7. LatchExact /\ OneWriter
  <2>1. \A f \in Frames : Readers(f) = {} /\ \A t \in Threads : ~Excludes(th[t], f)
    BY <1>4 DEF Readers, Reads, Excludes, Owns
  <2> QED
    BY <1>1, <1>2, <2>1, FS_EmptySet DEF LatchExact, OneWriter
<1>8. \A f \in Frames : On(free, f) /\ ~Owned(f)
  <2>1. \A f \in Frames : ~Owned(f)
    BY <1>4 DEF Owned, Owns
  <2>2. \A f \in Frames : On(free, f)
    <3>1. DOMAIN free = 1 .. Cardinality(Frames) /\ IsFiniteSet(1 .. Cardinality(Frames))
          /\ Cardinality(1 .. Cardinality(Frames)) = Cardinality(Frames)
      BY <1>1, <1>3, FS_Interval
    <3>2. free \in Injection(1 .. Cardinality(Frames), Frames)
      BY <1>1, <3>1 DEF Injection, IsInjective, Once
    <3>3. free \in Surjection(1 .. Cardinality(Frames), Frames)
      BY <3>1, <3>2, BufPoolAssumption, FS_Injection
    <3> QED
      BY <3>1, <3>3 DEF Surjection, On
  <2> QED
    BY <2>1, <2>2
<1>9. ListsApart
  <2>1. free \in Seq(Frames) /\ Len(free) = Cardinality(Frames)
    BY <1>1, <1>3
  <2>2. lru \in Seq(Frames) /\ Len(lru) = 0 /\ Once(lru) /\ \A f \in Frames : ~On(lru, f)
    BY <1>1 DEF Once, On
  <2>3. \A f \in Frames : On(lru, f) <=> ~On(free, f)
    BY <1>8, <2>2
  <2>4. Len(lru) + Len(free) = Cardinality(Frames)
    BY <1>3, <2>1, <2>2
  <2>5. \A f \in Frames : ~frame[f].dirty
    BY <1>1, <1>2
  <2> QED
    BY <1>1, <2>1, <2>2, <2>3, <2>4, <2>5 DEF ListsApart
<1>10. MapExact /\ Resident
  BY <1>1, <1>8 DEF MapExact, Resident
<1>11. OwnersApart /\ LoadersApart /\ CopiesApart /\ SearchesServed
  BY <1>4 DEF OwnersApart, Owns, LoadersApart, Loads, LoadingPcs, CopiesApart, Copies,
              SearchesServed, Searching
<1>12. Retiring
  BY <1>1 DEF Retiring
<1>13. PlacesKnown
  BY <1>4 DEF PlacesKnown, PlaceKnown, Missing
<1>14. ScansApart
  BY <1>4 DEF ScansApart, Missing
<1> QED
  BY <1>5, <1>6, <1>7, <1>9, <1>10, <1>11, <1>12, <1>13, <1>14 DEF PoolInv

LEMMA PoolStep == PoolInv /\ [Next]_vars => PoolInv'
<1> SUFFICES ASSUME PoolInv, [Next]_vars
             PROVE  PoolInv'
  OBVIOUS
<1>1. CASE \E t \in Threads, kind \in Calls, p \in Pages : Call(t, kind, p)
  BY <1>1, CallStep
<1>2. ASSUME NEW t \in Threads, Step(t)
      PROVE  PoolInv'
  <2>1. CASE Find(t) \/ Pin(t) \/ Latch(t) \/ Register(t) \/ Wait(t)
    BY <2>1, FindStep, PinStep, LatchStep, RegisterStep, WaitStep
  <2>2. CASE Verify(t)
    BY <2>2, VerifyHitStep, VerifyMissStep
  <2>3. CASE ClaimFree(t) \/ ClaimVictim(t) \/ ClaimThrow(t) \/ WriteBack(t) \/ Fill(t)
    BY <2>3, ClaimFreeStep, ClaimVictimStep, ClaimThrowStep, WriteBackStep, FillStep
  <2>4. CASE Publish(t) \/ Finish(t) \/ SlotWrite(t) \/ Keep(t) \/ Unpin(t) \/ Release(t)
    BY <2>4, PublishStep, FinishStep, SlotWriteStep, KeepStep, UnpinStep, ReleaseStep
  <2>5. CASE CpFind(t) \/ CpFill(t) \/ CpPublish(t) \/ CpMark(t)
    BY <2>5, CpFindStep, CpFillStep, CpPublishStep, CpMarkStep
  <2> QED
    BY <1>2, <2>1, <2>2, <2>3, <2>4, <2>5 DEF Step
<1>3. CASE \E p \in Pages : Replace(p) \/ RetireFind(p)
  BY <1>3, ReplaceStep, RetireFindStep
<1>4. CASE RetireLocked
  BY <1>4, RetireLockedStep
<1>5. CASE \E f \in Frames : Flush(f)
  BY <1>5, FlushStep
<1>6. CASE UNCHANGED vars
  <2>1. UNCHANGED <<th, map, lists, loading, truth, ncalls, raced, frame, disk, stat, gc>>
    BY <1>6 DEF vars, lists
  <2>2. CopiesApart' /\ SearchesServed' /\ Retiring'
    BY <2>1 DEF PoolInv, CopiesApart, SearchesServed, Retiring
  <2>3. /\ frame' \in [Frames -> FrameType] /\ disk' \in [Pages -> SUBSET (1 .. MaxCalls)]
        /\ stat' \in [Pages -> {"live", "old", "free", "new"}]
    BY <2>1 DEF PoolInv, PoolTyped
  <2> QED
    BY <2>1, <2>2, <2>3, StillStep
<1> QED
  BY <1>1, <1>2, <1>3, <1>4, <1>5, <1>6 DEF Next

LEMMA PoolInvariant == Spec => []PoolInv
<1>1. PoolInv /\ [Next]_vars => PoolInv'
  BY PoolStep
<1> QED
  BY <1>1, PoolStart, PTL DEF Spec

\* A page that a caller or a scan has latched or pinned stays in its frame, until
\* a scan crosses the copy to the number it reads: neither eviction nor retirement
\* nor a late reader gets past the pin, the latch and the second lookup.
THEOREM PoolPageStays == Spec => []PageStays
<1>1. ASSUME PoolInv PROVE PageStays
  <2> SUFFICES ASSUME Apart, NEW t \in Threads, Using(t)
               PROVE  map[th[t].p] = th[t].f /\ frame[th[t].f].page = th[t].p
    BY DEF PageStays, Apart
  <2>1. /\ th[t].pc \in {"hold", "pinned"} /\ th[t].f \in Frames /\ th[t].p \in Pages
        /\ PlaceKnown(th[t])
    BY <1>1, HereIsFrame DEF Using, Located, CallType
  <2>2. map[th[t].p] = th[t].f
    BY <2>1 DEF PlaceKnown
  <2> QED
    BY <1>1, <2>1, <2>2, BufPoolAssumption DEF PoolInv, MapExact
<1> QED
  BY <1>1, PoolInvariant, PTL

\* The shared cold loads, of any page numbers, and the copies of the consolidation
\* never put the same page into two frames, until a scan crosses a copy.
THEOREM PoolOneCopy == Spec => []OneCopy
<1>1. ASSUME PoolInv PROVE OneCopy
  <2> SUFFICES ASSUME Apart, NEW f \in Frames, NEW g \in Frames, frame[f].page = frame[g].page, f # g,
                      f \notin Refilling, g \notin Refilling, ~On(free, f), ~On(free, g)
               PROVE  FALSE
    BY DEF OneCopy, On, Apart
  <2>1. ASSUME NEW h \in Frames, ~On(free, h), h \notin Refilling
        PROVE  \/ map[frame[h].page] = h
               \/ \E t \in Threads : /\ th[t].pc = "publish" /\ th[t].f = h
                                     /\ th[t].p = frame[h].page /\ map[frame[h].page] = NoFrame
    <3>1. CASE ~Owned(h)
      BY <1>1, <2>1, <3>1 DEF PoolInv, Resident
    <3>2. CASE Owned(h)
      <4>1. PICK t \in Threads : Owns(th[t], h)
        BY <3>2 DEF Owned
      <4>2. th[t].pc = "publish" /\ th[t].f = h
        BY <2>1, <4>1 DEF Owns, Refilling
      <4>3. PlaceKnown(th[t])
        BY <1>1 DEF PoolInv, PlacesKnown
      <4> QED
        BY <4>2, <4>3 DEF PlaceKnown, Missing
    <3> QED
      BY <3>1, <3>2
  <2>2. ASSUME NEW t \in Threads, NEW u \in Threads, th[t].pc = "publish", th[u].pc = "publish",
               th[t].p = th[u].p
        PROVE  t = u
    <3>1. CallShape(th[t]) /\ CallShape(th[u])
      BY <1>1, <2>2, InCallShape
    <3>2. ASSUME NEW w \in {t, u}
          PROVE  /\ Missing(th[w])
                 /\ \/ Copies(th[w]) /\ th[w].kind = "cp"
                    \/ Loads(th[w]) /\ (Searching(th[w]) \/ th[w].kind = "scan")
      BY <2>2, <3>1 DEF CallShape, Copies, Loads, LoadingPcs, Searching, CallType, Kinds, Missing
    <3> QED
      BY <1>1, <2>2, <3>2 DEF PoolInv, CopiesApart, LoadersApart, SearchesServed, ScansApart
  <2> QED
    BY <2>1, <2>2, BufPoolAssumption
<1> QED
  BY <1>1, PoolInvariant, PTL

\* Whatever races, every frame stays on exactly one list and the clock hand on the
\* LRU list, free frames are unmapped, and no pin count or latch word underflows.
THEOREM PoolListsExact == Spec => []ListsExact
<1>1. ASSUME PoolInv PROVE ListsExact
  <2>1. TypeOK
    BY <1>1 DEF TypeOK, PoolInv, PoolTyped, ListsApart, FrameType
  <2>2. {lru[i] : i \in DOMAIN lru} \cup {free[i] : i \in DOMAIN free} = Frames
    <3>1. \A f \in Frames : On(lru, f) \/ On(free, f)
      BY <1>1 DEF PoolInv, ListsApart
    <3>2. \A i \in DOMAIN lru : lru[i] \in Frames
      BY <2>1 DEF TypeOK
    <3>3. \A i \in DOMAIN free : free[i] \in Frames
      BY <2>1 DEF TypeOK
    <3> QED
      BY <3>1, <3>2, <3>3 DEF On
  <2>3. Len(lru) + Len(free) = Cardinality(Frames)
    BY <1>1, Zenon DEF PoolInv, ListsApart
  <2>4. lru = <<>> \/ \E i \in DOMAIN lru : lru[i] = hand
    BY <1>1 DEF PoolInv, ListsApart, On
  <2>5. ASSUME NEW i \in DOMAIN free
        PROVE  /\ frame[free[i]].dirty => "late mark" \in raced
               /\ \A p \in Pages : map[p] # free[i]
    <3>1. free[i] \in Frames /\ On(free, free[i])
      BY <2>1 DEF TypeOK, On
    <3>2. frame[free[i]].dirty => "late mark" \in raced
      BY <1>1, <3>1 DEF PoolInv, ListsApart
    <3>3. \A p \in Pages : map[p] # free[i]
      BY <1>1, <3>1, BufPoolAssumption DEF PoolInv, MapExact
    <3> QED
      BY <3>2, <3>3
  <2> QED
    BY <2>1, <2>2, <2>3, <2>4, <2>5 DEF ListsExact
<1> QED
  BY <1>1, PoolInvariant, PTL
-----------------------------------------------------------------------------
(* Contents: what the pool caches, writes back and reads in, as long as none of *)
(* the races has happened after which a holder may see old content              *)

\* None of those races has happened.
Calm == raced \cap StaleRaces = {}

\* A page that vertices, or readers of a replaced version, may refer to; one whose
\* content counts also because a caller holds it or has just copied it.
Served(p) == stat[p] \in {"live", "old"}
Holds(x, p) == x.pc \in {"mark", "hold", "pinned"} /\ x.kind # "scan" /\ x.p = p
Relied(p) == Served(p) \/ \E u \in Threads : Holds(th[u], p)

\* A cached page, and a frame about to be mapped, has the acknowledged content;
\* what a scan reads of a number that nobody relies on may be anything.
CachedCurrent == \A p \in Pages : (Relied(p) /\ map[p] # NoFrame) => frame[map[p]].data = truth[p]
FilledCurrent ==
  \A t \in Threads : (th[t].pc = "publish" /\ (th[t].kind = "cp" \/ Relied(th[t].p))) =>
    frame[th[t].f].data = truth[th[t].p]

\* A page that is not cached is on disk, or the thread that evicted it carries it there.
SavedCurrent ==
  \A p \in Pages : (Relied(p) /\ map[p] = NoFrame) => disk[p] = truth[p] \/ WritingBack(p)
CarriedCurrent ==
  \A t \in Threads : th[t].pc = "writeback" =>
    /\ th[t].wb \in Pages
    /\ Relied(th[t].wb) => map[th[t].wb] = NoFrame /\ frame[th[t].f].data = truth[th[t].wb]

\* Nobody writes back a page that has just been read in or copied.
NotOvertaken == \A t \in Threads : th[t].pc \in {"publish", "mark"} => ~WritingBack(th[t].p)

\* A claimed frame is clean once it is written back, and a copy is clean until it is marked.
ClaimedClean == \A t \in Threads : th[t].pc \in {"fill", "publish"} => ~frame[th[t].f].dirty
CopiedClean ==
  \A t \in Threads : (th[t].pc = "mark" /\ map[th[t].p] # NoFrame) => ~frame[map[th[t].p]].dirty

ContentsCurrent ==
  /\ CachedCurrent /\ FilledCurrent /\ SavedCurrent /\ CarriedCurrent /\ NotOvertaken
  /\ ClaimedClean /\ CopiedClean

\* The inductive invariant of the contents.
ContentInv == Calm => ContentsCurrent

\* Program points at which a call answers for the content of a frame.
Busy == {"writeback", "fill", "publish", "mark"}

LEMMA BusyPlace ==
  ASSUME PoolInv, NEW t \in Threads, th[t].pc \in Busy
  PROVE  /\ th[t] \in CallType /\ th[t].f \in Frames /\ th[t].p \in Pages /\ th[t].pc # "idle"
         /\ th[t].pc # "mark" => /\ \A p \in Pages : map[p] # th[t].f
                                 /\ Owns(th[t], th[t].f) /\ (Apart => map[th[t].p] = NoFrame)
<1>1. th[t] \in CallType /\ th[t].f \in Frames /\ th[t].p \in Pages /\ PlaceKnown(th[t])
  BY HereIsFrame DEF Busy, Located, CallType
<1>2. th[t].pc # "mark" => Owns(th[t], th[t].f) /\ (Apart => map[th[t].p] = NoFrame)
  BY <1>1 DEF Owns, Busy, PlaceKnown, Missing
<1>3. th[t].pc # "mark" => \A p \in Pages : map[p] # th[t].f
  BY <1>1, <1>2, BufPoolAssumption DEF PoolInv, MapExact, Owned
<1> QED
  BY <1>1, <1>2, <1>3 DEF Busy

LEMMA CalmApart ==
  ASSUME Calm
  PROVE  Apart /\ "late mark" \notin raced
BY DEF Calm, Apart, StaleRaces

\* A page is relied upon no more than before when its status does not improve and
\* nobody comes to hold it.
LEMMA ReliedKept ==
  ASSUME \A p \in Pages : Served(p)' => Served(p),
         \A u \in Threads : \A p \in Pages : Holds(th'[u], p) => Holds(th[u], p) \/ Served(p)
  PROVE  \A p \in Pages : Relied(p)' => Relied(p)
BY DEF Relied

\* A page that a caller holds is mapped to the frame where the caller found it.
LEMMA HeldMapped ==
  ASSUME PoolInv, Apart, NEW u \in Threads, NEW p, Holds(th[u], p)
  PROVE  (th[u].pc = "mark" /\ Copies(th[u])) \/ (map[p] = th[u].f /\ th[u].f \in Frames)
<1>1. th[u].pc \in {"mark", "hold", "pinned"} /\ th[u].p = p
  BY DEF Holds
<1>2. CallShape(th[u]) /\ th[u].f \in Frames /\ PlaceKnown(th[u])
  BY <1>1, HereIsFrame DEF Located
<1> QED
  BY <1>1, <1>2 DEF PlaceKnown, CallShape, Copies

\* Steps that leave the map and every content alone, or take a clean frame from the free list.
LEMMA CalmStep ==
  ASSUME PoolInv, ContentsCurrent, UNCHANGED <<map, truth, disk>>,
         \A p \in Pages : Relied(p)' => Relied(p),
         \A f \in Frames : frame'[f].data = frame[f].data /\ (frame'[f].dirty => frame[f].dirty),
         \A u \in Threads :
           \/ th'[u] = th[u]
           \/ th'[u].pc \notin Busy /\ th[u].pc # "writeback"
           \/ /\ th'[u].pc = "fill" /\ th[u].pc # "writeback"
              /\ th'[u].f \in Frames /\ ~frame[th'[u].f].dirty
  PROVE  ContentsCurrent'
<1>1. \A p \in Pages : WritingBack(p)' <=> WritingBack(p)
  BY DEF WritingBack, Busy
<1>2. \A u \in Threads : th'[u].pc \in {"writeback", "publish", "mark"} => th'[u] = th[u]
  BY DEF Busy
<1>3. \A u \in Threads : th[u].pc \in Busy => th[u].f \in Frames /\ th[u].p \in Pages
  BY BusyPlace
<1>4. map \in [Pages -> Frames \cup {NoFrame}]
  BY DEF PoolInv, PoolTyped
<1>5. CachedCurrent'
  BY <1>4 DEF ContentsCurrent, CachedCurrent
<1>6. FilledCurrent'
  BY <1>2, <1>3 DEF ContentsCurrent, FilledCurrent, Busy
<1>7. SavedCurrent'
  BY <1>1 DEF ContentsCurrent, SavedCurrent
<1>8. CarriedCurrent'
  BY <1>2, <1>3 DEF ContentsCurrent, CarriedCurrent, Busy
<1>9. NotOvertaken'
  BY <1>1, <1>2, <1>3 DEF ContentsCurrent, NotOvertaken, Busy
<1>10. ClaimedClean'
  BY <1>3 DEF ContentsCurrent, ClaimedClean, Busy
<1>11. CopiedClean'
  BY <1>2, <1>3, <1>4 DEF ContentsCurrent, CopiedClean, Busy
<1> QED
  BY <1>5, <1>6, <1>7, <1>8, <1>9, <1>10, <1>11 DEF ContentsCurrent

\* A thread that is in a call and not at a frame it answers for goes on.
LEMMA CalmTurn ==
  ASSUME PoolInv, NEW t \in Threads, th[t].pc # "idle", th[t].pc # "writeback",
         NEW A \in SUBSET (Pcs \ Busy),
         \/ \E a \in A : th' = [th EXCEPT ![t].pc = a]
         \/ \E a \in A : \E f : th' = [th EXCEPT ![t].f = f, ![t].pc = a]
         \/ \E a \in A : \E l : th' = [th EXCEPT ![t].pc = a, ![t].loader = l]
         \/ th' = [th EXCEPT ![t] = Idle]
  PROVE  /\ \A u \in Threads : th'[u] = th[u] \/ (th'[u].pc \notin Busy /\ th[u].pc # "writeback")
         /\ \A u \in Threads : u # t => th'[u] = th[u]
         /\ \/ th'[t].pc = "idle"
            \/ th'[t].pc \in A /\ th'[t].p = th[t].p /\ th'[t].kind = th[t].kind
<1>1. th[t] \in CallType /\ DOMAIN th = Threads
  BY InCallShape
<1>2. \A u \in Threads : u # t => th'[u] = th[u]
  BY <1>1
<1>3. \/ th'[t].pc = "idle"
      \/ th'[t].pc \in A /\ th'[t].p = th[t].p /\ th'[t].kind = th[t].kind
  <2>1. ASSUME NEW a \in A, th' = [th EXCEPT ![t].pc = a] PROVE <1>3!2
    BY <1>1, <2>1 DEF CallType
  <2>2. ASSUME NEW a \in A, NEW f, th' = [th EXCEPT ![t].f = f, ![t].pc = a] PROVE <1>3!2
    BY <1>1, <2>2 DEF CallType
  <2>3. ASSUME NEW a \in A, NEW l, th' = [th EXCEPT ![t].pc = a, ![t].loader = l] PROVE <1>3!2
    BY <1>1, <2>3 DEF CallType
  <2>4. CASE th' = [th EXCEPT ![t] = Idle]
    BY <1>1, <2>4 DEF Idle
  <2> QED
    BY <2>1, <2>2, <2>3, <2>4
<1>4. th'[t].pc \notin Busy
  BY <1>3 DEF Busy
<1> QED
  BY <1>2, <1>3, <1>4

\* A frame whose latch, pins or reference bit changes keeps its content.
LEMMA SameContent ==
  ASSUME PoolInv, NEW f \in Frames,
         \/ frame' = frame
         \/ \E n : frame' = [frame EXCEPT ![f].pins = n]
         \/ \E n : frame' = [frame EXCEPT ![f].latch = n]
         \/ \E n, k : frame' = [frame EXCEPT ![f].latch = n, ![f].pins = k]
         \/ \E n : frame' = [frame EXCEPT ![f].ref = n]
  PROVE  \A g \in Frames : frame'[g].data = frame[g].data /\ frame'[g].dirty = frame[g].dirty
<1>1. frame \in [Frames -> FrameType]
  BY DEF PoolInv, PoolTyped
<1>2. \A g \in Frames : g # f => frame'[g] = frame[g]
  BY <1>1
<1>3. frame'[f].data = frame[f].data /\ frame'[f].dirty = frame[f].dirty
  BY <1>1 DEF FrameType
<1> QED
  BY <1>2, <1>3

LEMMA SearchCurrent ==
  ASSUME PoolInv, ContentsCurrent, NEW t \in Threads,
         Find(t) \/ Register(t) \/ Wait(t) \/ CpFind(t)
  PROVE  ContentsCurrent'
<1>1. /\ th[t].pc \in {"find", "register", "wait", "cp_find"}
      /\ UNCHANGED <<map, truth, disk, frame, stat>>
  BY DEF Find, Register, Wait, CpFind
<1> DEFINE A == {"claim", "register", "latch", "pin", "find", "wait"}
<1>2. A \in SUBSET (Pcs \ Busy)
  BY DEF Pcs, Busy
<1>3. /\ \A u \in Threads : th'[u] = th[u] \/ (th'[u].pc \notin Busy /\ th[u].pc # "writeback")
      /\ \A u \in Threads : u # t => th'[u] = th[u]
      /\ th'[t].pc = "idle" \/ th'[t].pc \in A
  <2>1. CASE Find(t)
    <3>1. PICK a, f : /\ f = map[th[t].p]
                      /\ a = IF f = NoFrame THEN (IF th[t].loader THEN "claim" ELSE "register")
                            ELSE IF Writes(t) THEN "latch" ELSE "pin"
      OBVIOUS
    <3>2. th' = [th EXCEPT ![t].f = f, ![t].pc = a] /\ a \in A
      BY <2>1, <3>1 DEF Find
    <3> QED
      BY <1>1, <1>2, <3>2, CalmTurn
  <2>2. CASE Register(t) \/ Wait(t) \/ CpFind(t)
    <3>1. \/ th' = [th EXCEPT ![t].pc = "find", ![t].loader = TRUE]
          \/ \E a \in A : th' = [th EXCEPT ![t].pc = a]
          \/ th' = [th EXCEPT ![t] = Idle]
      BY <2>2 DEF Register, Wait, CpFind
    <3> QED
      BY <1>1, <1>2, <3>1, CalmTurn
  <2> QED
    BY <2>1, <2>2
<1>4. \A p \in Pages : Relied(p)' => Relied(p)
  BY <1>1, <1>3, ReliedKept DEF Served, Holds
<1> QED
  BY <1>1, <1>3, <1>4, CalmStep

LEMMA HoldCurrent ==
  ASSUME PoolInv, ContentsCurrent, NEW t \in Threads,
         Pin(t) \/ Latch(t) \/ Verify(t) \/ Finish(t) \/ Keep(t) \/ Unpin(t) \/ Release(t)
  PROVE  ContentsCurrent'
<1>1. /\ th[t].pc \in {"pin", "latch", "verify", "finish", "hold", "pinned"}
      /\ UNCHANGED <<map, truth, disk, stat>>
  BY DEF Pin, Latch, Verify, Finish, Keep, Unpin, Release
<1> DEFINE A == {"claim", "register", "latch", "verify", "hold", "pinned"}
<1>2. A \in SUBSET (Pcs \ Busy)
  BY DEF Pcs, Busy
<1>3. \/ \E a \in A : th' = [th EXCEPT ![t].pc = a]
      \/ th' = [th EXCEPT ![t] = Idle]
  BY DEF Pin, Latch, Verify, Finish, Keep, Unpin, Release
<1>4. /\ \A u \in Threads : th'[u] = th[u] \/ (th'[u].pc \notin Busy /\ th[u].pc # "writeback")
      /\ \A u \in Threads : u # t => th'[u] = th[u]
      /\ \/ th'[t].pc = "idle"
         \/ th'[t].pc \in A /\ th'[t].p = th[t].p /\ th'[t].kind = th[t].kind
  BY <1>1, <1>2, <1>3, CalmTurn
<1>5. th[t].f \in Frames
  BY <1>1, HereIsFrame DEF Located
<1>6. \/ frame' = frame
      \/ \E n : frame' = [frame EXCEPT ![th[t].f].pins = n]
      \/ \E n : frame' = [frame EXCEPT ![th[t].f].latch = n]
      \/ \E n, k : frame' = [frame EXCEPT ![th[t].f].latch = n, ![th[t].f].pins = k]
      \/ \E n : frame' = [frame EXCEPT ![th[t].f].ref = n]
  <2>1. CASE Pin(t)
    BY <2>1 DEF Pin
  <2>2. CASE Latch(t) \/ Keep(t)
    BY <2>2 DEF Latch, Keep
  <2>3. CASE Unpin(t)
    BY <2>3 DEF Unpin
  <2>4. CASE Finish(t)
    <3>1. \/ frame' = frame
          \/ frame' = [frame EXCEPT ![th[t].f].latch = 1,
                                    ![th[t].f].pins = frame[th[t].f].pins + 1]
      BY <2>4 DEF Finish
    <3> QED
      BY <3>1
  <2>5. CASE Verify(t) \/ Release(t)
    <3>1. \/ frame' = [frame EXCEPT ![th[t].f].ref = TRUE]
          \/ frame' = Unlatch(t, th[t].f)
      BY <2>5 DEF Verify, Release
    <3>2. \/ Unlatch(t, th[t].f) = [frame EXCEPT ![th[t].f].latch = 0]
          \/ Unlatch(t, th[t].f) = [frame EXCEPT ![th[t].f].latch = frame[th[t].f].latch - 1,
                                                 ![th[t].f].pins = frame[th[t].f].pins - 1]
      BY DEF Unlatch
    <3> QED
      BY <3>1, <3>2
  <2> QED
    BY <2>1, <2>2, <2>3, <2>4, <2>5
<1>7. \A g \in Frames : frame'[g].data = frame[g].data /\ frame'[g].dirty = frame[g].dirty
  BY <1>5, <1>6, SameContent
<1>8. \A p \in Pages : Relied(p)' => Relied(p)
  <2>1. CallShape(th[t]) /\ th[t] \in CallType
    BY <1>1, InCallShape
  <2>2. Searching(th[t]) => Served(th[t].p)
    BY DEF PoolInv, SearchesServed, Served
  <2>3. ASSUME NEW p, Holds(th'[t], p)
        PROVE  Holds(th[t], p) \/ Served(p)
    <3>1. th'[t].p = th[t].p /\ th'[t].kind = th[t].kind /\ th[t].kind # "scan" /\ p = th[t].p
      BY <1>4, <2>3 DEF Holds
    <3>2. CASE th[t].pc \in {"hold", "pinned"}
      BY <3>1, <3>2 DEF Holds
    <3>3. CASE th[t].pc \notin {"hold", "pinned"}
      BY <1>1, <2>1, <2>2, <3>1, <3>3 DEF Searching, CallShape, CallType, Kinds
    <3> QED
      BY <3>2, <3>3
  <2>4. \A q \in Pages : Served(q)' => Served(q)
    BY <1>1 DEF Served
  <2> QED
    BY <1>4, <2>3, <2>4, ReliedKept
<1> QED
  BY <1>1, <1>4, <1>7, <1>8, CalmStep

LEMMA CallCurrent ==
  ASSUME PoolInv, ContentsCurrent, NEW t \in Threads, NEW kind, NEW p \in Pages, Call(t, kind, p)
  PROVE  ContentsCurrent'
<1>0. PICK a, x : /\ a = IF kind = "cp" THEN "cp_find" ELSE "find"
                  /\ x = [pc |-> a, kind |-> kind, p |-> p, f |-> NoFrame, loader |-> FALSE,
                          wb |-> 0]
  OBVIOUS
<1>1. x.pc \notin Busy
  BY <1>0 DEF Busy
<1>2. th' = [th EXCEPT ![t] = x] /\ th[t].pc = "idle" /\ UNCHANGED <<map, truth, disk, frame>>
  BY <1>0 DEF Call, InCall
<1>3. \A u \in Threads : th'[u] = th[u] \/ (th'[u].pc \notin Busy /\ th[u].pc # "writeback")
  BY <1>1, <1>2 DEF PoolInv, PoolTyped
<1>4. \A q \in Pages : Served(q)' => Served(q)
  BY DEF Call, Served, PoolInv, PoolTyped
<1>5. \A q \in Pages : Relied(q)' => Relied(q)
  <2>1. \A q : ~Holds(x, q)
    BY <1>0 DEF Holds
  <2>2. \A u \in Threads : th'[u] = th[u] \/ th'[u] = x
    BY <1>2 DEF PoolInv, PoolTyped
  <2> QED
    BY <1>4, <2>1, <2>2, ReliedKept
<1> QED
  BY <1>2, <1>3, <1>5, CalmStep

\* Replacing a page keeps it served, and retirement ends its service.
LEMMA StatusCurrent ==
  ASSUME PoolInv, ContentsCurrent, NEW p \in Pages, Replace(p) \/ RetireFind(p)
  PROVE  ContentsCurrent'
<1>1. UNCHANGED <<map, truth, disk, frame, th>>
  BY DEF Replace, RetireFind
<1>2. \A q \in Pages : Served(q)' => Served(q)
  BY DEF Replace, RetireFind, Served, PoolInv, PoolTyped
<1>3. \A q \in Pages : Relied(q)' => Relied(q)
  BY <1>1, <1>2, ReliedKept
<1> QED
  BY <1>1, <1>3, CalmStep

LEMMA ClaimFreeCurrent ==
  ASSUME PoolInv, ContentsCurrent, Calm, NEW t \in Threads, ClaimFree(t)
  PROVE  ContentsCurrent'
<1>1. PICK f : f = Head(free)
  OBVIOUS
<1>2. f \in Frames /\ On(free, f)
  <2>1. free \in Seq(Frames) /\ free # <<>>
    BY DEF ClaimFree, PoolInv, ListsApart
  <2>2. 1 \in DOMAIN free /\ free[1] = f
    BY <1>1, <2>1
  <2> QED
    BY <2>1, <2>2 DEF On
<1>3. ~frame[f].dirty
  BY <1>2, CalmApart DEF PoolInv, ListsApart
<1>4. /\ th[t].pc = "claim" /\ th' = [th EXCEPT ![t].pc = "fill", ![t].f = f]
      /\ frame' = [frame EXCEPT ![f].latch = -1] /\ UNCHANGED <<map, truth, disk, stat>>
  BY <1>1 DEF ClaimFree
<1>5. th[t] \in CallType /\ DOMAIN th = Threads
  BY <1>4, InCallShape
<1>6. th'[t].pc = "fill" /\ th'[t].f = f /\ \A u \in Threads : u # t => th'[u] = th[u]
  BY <1>4, <1>5 DEF CallType
<1>7. \A g \in Frames : frame'[g].data = frame[g].data /\ frame'[g].dirty = frame[g].dirty
  BY <1>2, <1>4, SameContent
<1>8. \A p \in Pages : Relied(p)' => Relied(p)
  BY <1>4, <1>6, ReliedKept DEF Served, Holds
<1> QED
  BY <1>2, <1>3, <1>4, <1>6, <1>7, <1>8, CalmStep

LEMMA ClaimThrowCurrent ==
  ASSUME PoolInv, ContentsCurrent, NEW t \in Threads, ClaimThrow(t)
  PROVE  ContentsCurrent'
<1>1. /\ th[t].pc = "claim" /\ th' = [th EXCEPT ![t] = Idle] /\ UNCHANGED <<map, truth, disk, stat>>
  BY DEF ClaimThrow
<1>2. PICK S : frame' = Cleared(S)
  BY DEF ClaimThrow
<1>3. \A u \in Threads : th'[u] = th[u] \/ (th'[u].pc \notin Busy /\ th[u].pc # "writeback")
  <2>1. {} \in SUBSET (Pcs \ Busy)
    OBVIOUS
  <2> QED
    BY <1>1, <2>1, CalmTurn
<1>4. \A g \in Frames : frame'[g].data = frame[g].data /\ frame'[g].dirty = frame[g].dirty
  BY <1>2, ClearedSame
<1>5. \A p \in Pages : Relied(p)' => Relied(p)
  <2>1. th'[t].pc = "idle" /\ \A u \in Threads : u # t => th'[u] = th[u]
    BY <1>1 DEF PoolInv, PoolTyped, Idle
  <2> QED
    BY <1>1, <2>1, ReliedKept DEF Served, Holds
<1> QED
  BY <1>1, <1>3, <1>4, <1>5, CalmStep

\* A frame that one call is refilling is no other call's and no page's.
LEMMA RefilledAlone ==
  ASSUME PoolInv, NEW t \in Threads, th[t].pc \in Busy, th[t].pc # "mark",
         NEW u \in Threads, u # t, th[u].pc \in Busy
  PROVE  th[u].pc # "mark" => th[u].f # th[t].f
BY BusyPlace DEF PoolInv, OneWriter, Excludes

LEMMA WriteBackCurrent ==
  ASSUME PoolInv, ContentsCurrent, NEW t \in Threads, WriteBack(t)
  PROVE  ContentsCurrent'
<1>0. PICK f, q : f = th[t].f /\ q = th[t].wb
  OBVIOUS
<1>1. th[t].pc = "writeback" /\ th[t].pc \in Busy
  BY DEF WriteBack, Busy
<1>2. th[t] \in CallType /\ f \in Frames /\ q \in Pages /\ DOMAIN th = Threads
  BY <1>0, <1>1, BusyPlace, InCallShape DEF ContentsCurrent, CarriedCurrent
<1>3. th'[t].pc = "fill" /\ th'[t].f = f /\ \A u \in Threads : u # t => th'[u] = th[u]
  BY <1>0, <1>2 DEF WriteBack, CallType
<1>4. /\ \A g \in Frames : frame'[g].data = frame[g].data /\ (frame'[g].dirty => frame[g].dirty)
      /\ ~frame'[f].dirty
  BY <1>0, <1>2 DEF WriteBack, PoolInv, PoolTyped, FrameType
<1>5. /\ disk'[q] = frame[f].data /\ \A p \in Pages : p # q => disk'[p] = disk[p]
      /\ UNCHANGED <<map, truth, stat>>
  BY <1>0, <1>2 DEF WriteBack, PoolInv, PoolTyped
<1>6. \A p \in Pages : /\ WritingBack(p)' => WritingBack(p)
                       /\ p # q => (WritingBack(p) => WritingBack(p)')
  BY <1>0, <1>3 DEF WritingBack
<1>7. \A u \in Threads : th'[u].pc \in {"writeback", "publish", "mark"} => th'[u] = th[u]
  BY <1>3
<1>8. \A u \in Threads : th[u].pc \in Busy => th[u].f \in Frames /\ th[u].p \in Pages
  BY BusyPlace
<1>9. map \in [Pages -> Frames \cup {NoFrame}]
  BY DEF PoolInv, PoolTyped
<1>a. \A p \in Pages : Relied(p)' => Relied(p)
  BY <1>1, <1>3, <1>5, ReliedKept DEF Served, Holds
<1>10. CachedCurrent' /\ FilledCurrent'
  BY <1>4, <1>5, <1>7, <1>8, <1>9, <1>a DEF ContentsCurrent, CachedCurrent, FilledCurrent, Busy
<1>11. SavedCurrent'
  <2> SUFFICES ASSUME NEW p \in Pages, Relied(p), map[p] = NoFrame
               PROVE  disk'[p] = truth[p] \/ WritingBack(p)'
    BY <1>5, <1>a DEF SavedCurrent
  <2>1. CASE p = q
    BY <1>0, <1>1, <1>5, <2>1 DEF ContentsCurrent, CarriedCurrent
  <2>2. CASE p # q
    BY <1>5, <1>6, <2>2 DEF ContentsCurrent, SavedCurrent
  <2> QED
    BY <2>1, <2>2
<1>12. CarriedCurrent'
  BY <1>4, <1>5, <1>7, <1>8, <1>a DEF ContentsCurrent, CarriedCurrent, Busy
<1>13. NotOvertaken' /\ CopiedClean'
  BY <1>4, <1>5, <1>6, <1>7, <1>8, <1>9 DEF ContentsCurrent, NotOvertaken, CopiedClean, Busy
<1>14. ClaimedClean'
  BY <1>3, <1>4, <1>8 DEF ContentsCurrent, ClaimedClean, Busy
<1> QED
  BY <1>10, <1>11, <1>12, <1>13, <1>14 DEF ContentsCurrent

\* Thread t has filled the frame f with page p and content d.
Filled(t, f, p, d) ==
  /\ th[t].pc = "fill" /\ th[t].f = f /\ th[t].p = p /\ f \in Frames /\ p \in Pages
  /\ th'[t].pc = "publish" /\ th'[t].f = f /\ th'[t].p = p /\ th'[t].kind = th[t].kind
  /\ \A u \in Threads : u # t => th'[u] = th[u]
  /\ \A g \in Frames : g # f => frame'[g] = frame[g]
  /\ frame'[f].data = d /\ frame'[f].dirty = frame[f].dirty

LEMMA FilledStep ==
  ASSUME PoolInv, ContentsCurrent, Apart, NEW t \in Threads, NEW f, NEW p, NEW d, Filled(t, f, p, d),
         ~WritingBack(p), UNCHANGED <<map, disk, stat>>,
         (th[t].kind = "cp" \/ Relied(p)) => d = truth'[p], \A q \in Pages : q # p => truth'[q] = truth[q],
         truth'[p] = truth[p] \/ ~Relied(p),
         \A u \in Threads : (u # t /\ th[u].pc = "publish") => th[u].p # p
  PROVE  ContentsCurrent'
<1> USE DEF Filled
<1>1. th[t].pc \in Busy
  BY DEF Busy
<1>2. \A q \in Pages : WritingBack(q)' <=> WritingBack(q)
  BY DEF WritingBack
<1>3. \A u \in Threads : th[u].pc \in Busy => th[u].f \in Frames /\ th[u].p \in Pages
  BY BusyPlace
<1>4. \A u \in Threads : (u # t /\ th[u].pc \in Busy /\ th[u].pc # "mark") => th[u].f # f
  BY <1>1, RefilledAlone
<1>5. map \in [Pages -> Frames \cup {NoFrame}] /\ map[p] = NoFrame /\ \A q \in Pages : map[q] # f
  BY <1>1, BusyPlace DEF PoolInv, PoolTyped
<1>a. \A q \in Pages : Relied(q)' => Relied(q)
  BY ReliedKept DEF Served, Holds
<1>6. CachedCurrent'
  BY <1>5, <1>a DEF ContentsCurrent, CachedCurrent
<1>7. FilledCurrent'
  BY <1>3, <1>4, <1>a DEF ContentsCurrent, FilledCurrent, Busy
<1>8. SavedCurrent'
  BY <1>2, <1>a DEF ContentsCurrent, SavedCurrent
<1>9. CarriedCurrent'
  BY <1>3, <1>4, <1>a DEF ContentsCurrent, CarriedCurrent, Busy, WritingBack
<1>10. NotOvertaken'
  BY <1>2, <1>3 DEF ContentsCurrent, NotOvertaken, Busy
<1>11. ClaimedClean'
  BY <1>3, <1>4 DEF ContentsCurrent, ClaimedClean, Busy
<1>12. CopiedClean'
  BY <1>3, <1>5 DEF ContentsCurrent, CopiedClean, Busy
<1> QED
  BY <1>6, <1>7, <1>8, <1>9, <1>10, <1>11, <1>12 DEF ContentsCurrent

LEMMA FilledRecords ==
  ASSUME PoolInv, NEW t \in Threads, th[t].pc = "fill", NEW d,
         th' = [th EXCEPT ![t].pc = "publish"],
         frame' = [frame EXCEPT ![th[t].f].page = th[t].p, ![th[t].f].data = d, ![th[t].f].ref = TRUE]
  PROVE  Filled(t, th[t].f, th[t].p, d)
<1>0. PICK f, p : f = th[t].f /\ p = th[t].p
  OBVIOUS
<1>1. th[t] \in CallType /\ DOMAIN th = Threads /\ f \in Frames /\ p \in Pages
  BY <1>0, InCallShape, BusyPlace DEF Busy
<1>2. /\ th'[t].pc = "publish" /\ th'[t].f = f /\ th'[t].p = p /\ th'[t].kind = th[t].kind
      /\ \A u \in Threads : u # t => th'[u] = th[u]
  BY <1>0, <1>1 DEF CallType
<1>3. /\ \A g \in Frames : g # f => frame'[g] = frame[g]
      /\ frame'[f].data = d /\ frame'[f].dirty = frame[f].dirty
  BY <1>0, <1>1 DEF PoolInv, PoolTyped, FrameType
<1> QED
  BY <1>0, <1>1, <1>2, <1>3 DEF Filled

LEMMA FillCurrent ==
  ASSUME PoolInv, ContentsCurrent, NEW t \in Threads, Fill(t), Apart, Calm'
  PROVE  ContentsCurrent'
<1>0. PICK f, p, d : f = th[t].f /\ p = th[t].p /\ d = disk[p]
  OBVIOUS
<1>1. /\ th[t].pc = "fill" /\ th[t].kind # "cp" /\ ~WritingBack(p)
      /\ th' = [th EXCEPT ![t].pc = "publish"] /\ UNCHANGED <<map, disk, stat, truth>>
      /\ frame' = [frame EXCEPT ![f].page = p, ![f].data = d, ![f].ref = TRUE]
  BY <1>0 DEF Fill, Calm, StaleRaces
<1>2. f \in Frames /\ p \in Pages /\ map[p] = NoFrame
  BY <1>0, <1>1, BusyPlace DEF Busy
<1>3. th[t].kind = "scan" \/ Served(p)
  <2>1. th[t] \in CallType
    BY <1>1, InCallShape
  <2> QED
    BY <1>0, <1>1, <2>1 DEF PoolInv, SearchesServed, Searching, Served, CallType, Kinds
<1>4. Relied(p) => d = truth[p]
  BY <1>0, <1>1, <1>2 DEF ContentsCurrent, SavedCurrent
<1>5. \A u \in Threads : (u # t /\ th[u].pc = "publish") => th[u].p # p
  <2> SUFFICES ASSUME NEW u \in Threads, u # t, th[u].pc = "publish", th[u].p = p
               PROVE  FALSE
    OBVIOUS
  <2>1. CallShape(th[u]) /\ CallShape(th[t])
    BY <1>1, InCallShape
  <2>2. CASE th[u].kind = "cp"
    <3>1. Missing(th[t]) /\ Missing(th[u]) /\ Copies(th[u])
      BY <1>1, <2>2 DEF Missing, Copies
    <3> QED
      BY <1>0, <1>3, <2>2, <3>1 DEF PoolInv, CopiesApart, Served, ScansApart
  <2>3. CASE th[u].kind # "cp"
    BY <1>0, <1>1, <2>1, <2>3 DEF PoolInv, LoadersApart, Loads, LoadingPcs, CallShape
  <2> QED
    BY <2>2, <2>3
<1>6. Filled(t, f, p, d)
  BY <1>0, <1>1, FilledRecords
<1>7. (th[t].kind = "cp" \/ Relied(p) => d = truth'[p]) /\ truth'[p] = truth[p] /\ \A q \in Pages : q # p => truth'[q] = truth[q]
  BY <1>1, <1>4
<1>8. ~WritingBack(p) /\ UNCHANGED <<map, disk, stat>>
  BY <1>1
<1> QED
  BY <1>5, <1>6, <1>7, <1>8, FilledStep

LEMMA CpFillCurrent ==
  ASSUME PoolInv, ContentsCurrent, NEW t \in Threads, CpFill(t), Apart, Calm'
  PROVE  ContentsCurrent'
<1>0. PICK f, p, d : f = th[t].f /\ p = th[t].p /\ d = {ncalls}
  OBVIOUS
<1>1. /\ th[t].pc = "fill" /\ th[t].kind = "cp" /\ ~WritingBack(p)
      /\ th' = [th EXCEPT ![t].pc = "publish"] /\ UNCHANGED <<map, disk, stat>>
      /\ frame' = [frame EXCEPT ![f].page = p, ![f].data = d, ![f].ref = TRUE]
      /\ truth' = [truth EXCEPT ![p] = d]
  BY <1>0 DEF CpFill, Calm, StaleRaces
<1>2. f \in Frames /\ p \in Pages /\ map[p] = NoFrame
  BY <1>0, <1>1, BusyPlace DEF Busy
<1>3. d = truth'[p] /\ \A q \in Pages : q # p => truth'[q] = truth[q]
  BY <1>1, <1>2 DEF PoolInv, PoolTyped
<1>4. stat[p] = "new" /\ ~Relied(p)
  <2>1. stat[p] = "new" /\ ~Served(p) /\ Copies(th[t])
    BY <1>0, <1>1 DEF PoolInv, CopiesApart, Copies, Served
  <2>2. ASSUME NEW u \in Threads, Holds(th[u], p)
        PROVE  FALSE
    <3>1. th[u].p = p /\ u # t
      BY <1>1, <2>2 DEF Holds
    <3>2. CASE th[u].pc = "mark" /\ Copies(th[u])
      BY <1>0, <2>1, <3>1, <3>2 DEF PoolInv, CopiesApart
    <3> QED
      BY <1>2, <2>2, <3>2, HeldMapped, BufPoolAssumption
  <2> QED
    BY <2>1, <2>2 DEF Relied
<1>5. \A u \in Threads : (u # t /\ th[u].pc = "publish") => th[u].p # p
  <2> SUFFICES ASSUME NEW u \in Threads, u # t, th[u].pc = "publish", th[u].p = p
               PROVE  FALSE
    OBVIOUS
  <2>1. CASE th[u].kind = "cp"
    BY <1>0, <1>1, <2>1 DEF PoolInv, CopiesApart, Copies
  <2>2. CASE th[u].kind # "cp"
    <3>1. th[u] \in CallType /\ Missing(th[u]) /\ Missing(th[t])
      BY <1>1, InCallShape DEF Missing
    <3>2. CASE th[u].kind = "scan"
      BY <1>0, <1>1, <3>1, <3>2 DEF PoolInv, ScansApart
    <3>3. CASE th[u].kind # "scan"
      BY <1>4, <2>2, <3>1, <3>3 DEF PoolInv, SearchesServed, Searching, CallType, Kinds
    <3> QED
      BY <3>2, <3>3
  <2> QED
    BY <2>1, <2>2
<1>6. Filled(t, f, p, d)
  BY <1>0, <1>1, FilledRecords
<1>7. ~WritingBack(p) /\ UNCHANGED <<map, disk, stat>>
  BY <1>1
<1> QED
  BY <1>3, <1>4, <1>5, <1>6, <1>7, FilledStep

\* Two calls never copy to the same page number.
LEMMA CopyAlone ==
  ASSUME PoolInv, NEW t \in Threads, NEW u \in Threads, u # t, th[t].pc \in Busy,
         th[u].pc = "mark", th[t].kind = "cp"
  PROVE  th[u].p # th[t].p
<1>1. CallShape(th[u]) /\ th[u].pc # "idle" /\ th[t].pc # "idle"
  BY InCallShape DEF Busy
<1>2. Copies(th[u]) /\ stat[th[u].p] = "new"
  BY <1>1 DEF Copies, CallShape, PoolInv, CopiesApart
<1> QED
  BY <1>1, <1>2 DEF Copies, PoolInv, CopiesApart

\* Thread t maps the frame it has filled.
LEMMA PublishedStep ==
  ASSUME PoolInv, ContentsCurrent, Apart, NEW t \in Threads, th[t].pc = "publish",
         NEW a \in {"finish", "mark"}, a = "mark" => th[t].kind = "cp", th' = [th EXCEPT ![t].pc = a],
         map' = [map EXCEPT ![th[t].p] = th[t].f], UNCHANGED <<disk, truth, stat>>,
         \A g \in Frames : frame'[g].data = frame[g].data /\ frame'[g].dirty = frame[g].dirty
  PROVE  ContentsCurrent'
<1>0. PICK f, p : f = th[t].f /\ p = th[t].p
  OBVIOUS
<1>1. /\ th[t].pc \in Busy /\ th[t] \in CallType /\ DOMAIN th = Threads
      /\ f \in Frames /\ p \in Pages /\ map[p] = NoFrame
  BY <1>0, InCallShape, BusyPlace DEF Busy
<1>2. /\ th'[t].pc = a /\ th'[t].f = f /\ th'[t].p = p /\ th'[t].kind = th[t].kind
      /\ \A u \in Threads : u # t => th'[u] = th[u]
  BY <1>0, <1>1 DEF CallType
<1>3. /\ map \in [Pages -> Frames \cup {NoFrame}] /\ map'[p] = f
      /\ \A q \in Pages : q # p => map'[q] = map[q]
  BY <1>0, <1>1 DEF PoolInv, PoolTyped
<1>4. \A q \in Pages : WritingBack(q)' <=> WritingBack(q)
  BY <1>2 DEF WritingBack
<1>5. \A u \in Threads : th[u].pc \in Busy => th[u].f \in Frames /\ th[u].p \in Pages
  BY BusyPlace
<1>6. /\ ~WritingBack(p) /\ ~frame[f].dirty
      /\ (th[t].kind = "cp" \/ Relied(p)) => frame[f].data = truth[p]
  BY <1>0 DEF ContentsCurrent, FilledCurrent, NotOvertaken, ClaimedClean
<1>a. \A q \in Pages : Relied(q)' => Relied(q) \/ (q = p /\ th[t].kind = "cp")
  <2>1. \A u \in Threads : u # t => th'[u] = th[u]
    BY <1>2
  <2>2. \A q \in Pages : Holds(th'[t], q) => q = p /\ th[t].kind = "cp"
    BY <1>2 DEF Holds
  <2>3. \A q \in Pages : Served(q)' => Served(q)
    BY DEF Served
  <2> QED
    BY <2>1, <2>2, <2>3 DEF Relied
<1>b. ASSUME NEW u \in Threads, u # t, th[u].pc = "publish" PROVE th[u].p # p \/ th[t].kind # "cp"
  <2>1. SUFFICES ASSUME th[u].p = p, th[t].kind = "cp" PROVE FALSE
    OBVIOUS
  <2>2. th[u] \in CallType /\ Missing(th[u]) /\ Missing(th[t]) /\ Copies(th[t])
    BY <1>b, <2>1, InCallShape DEF Missing, Copies
  <2>3. CASE th[u].kind = "scan"
    BY <1>0, <2>1, <2>2, <2>3 DEF PoolInv, ScansApart
  <2>4. CASE th[u].kind = "cp"
    BY <1>0, <1>b, <2>1, <2>2, <2>4 DEF PoolInv, CopiesApart, Copies
  <2>5. CASE th[u].kind \in {"read", "slot", "job"}
    BY <1>0, <1>b, <2>1, <2>2, <2>5 DEF PoolInv, CopiesApart, SearchesServed, Searching
  <2> QED
    BY <2>2, <2>3, <2>4, <2>5 DEF CallType, Kinds
<1>7. CachedCurrent'
  BY <1>1, <1>3, <1>6, <1>a DEF ContentsCurrent, CachedCurrent
<1>8. FilledCurrent'
  BY <1>2, <1>5, <1>a, <1>b DEF ContentsCurrent, FilledCurrent, Busy
<1>9. SavedCurrent'
  BY <1>3, <1>4, <1>1, <1>a, BufPoolAssumption DEF ContentsCurrent, SavedCurrent
<1>10. CarriedCurrent'
  BY <1>2, <1>3, <1>5, <1>6, <1>a DEF ContentsCurrent, CarriedCurrent, WritingBack, Busy
<1>11. NotOvertaken'
  BY <1>2, <1>4, <1>5, <1>6 DEF ContentsCurrent, NotOvertaken, Busy
<1>12. ClaimedClean'
  BY <1>2, <1>5 DEF ContentsCurrent, ClaimedClean, Busy
<1>13. CopiedClean'
  BY <1>1, <1>2, <1>3, <1>5, <1>6 DEF ContentsCurrent, CopiedClean, Busy
<1> QED
  BY <1>7, <1>8, <1>9, <1>10, <1>11, <1>12, <1>13 DEF ContentsCurrent

LEMMA PublishCurrent ==
  ASSUME PoolInv, ContentsCurrent, Apart, NEW t \in Threads, Publish(t) \/ CpPublish(t)
  PROVE  ContentsCurrent'
<1>1. th[t].pc = "publish" /\ UNCHANGED <<disk, truth, stat>>
  BY DEF Publish, CpPublish
<1>2. th[t].f \in Frames /\ map[th[t].p] = NoFrame
  BY <1>1, BusyPlace DEF Busy
<1>3. map' = [map EXCEPT ![th[t].p] = th[t].f]
  BY <1>2 DEF Publish, CpPublish
<1>4. frame' = frame \/ frame' = [frame EXCEPT ![th[t].f].latch = 0]
  BY DEF Publish, CpPublish
<1>5. \A g \in Frames : frame'[g].data = frame[g].data /\ frame'[g].dirty = frame[g].dirty
  BY <1>2, <1>4, SameContent
<1>6. PICK a \in {"finish", "mark"} : /\ th' = [th EXCEPT ![t].pc = a]
                                      /\ a = "mark" => th[t].kind = "cp"
  BY DEF Publish, CpPublish
<1> QED
  BY <1>1, <1>3, <1>5, <1>6, PublishedStep

LEMMA SlotWriteCurrent ==
  ASSUME PoolInv, ContentsCurrent, Apart, NEW t \in Threads, SlotWrite(t)
  PROVE  ContentsCurrent'
<1>0. PICK f, p : f = th[t].f /\ p = th[t].p
  OBVIOUS
<1>1. /\ th[t].pc = "hold" /\ th[t] \in CallType /\ DOMAIN th = Threads
      /\ f \in Frames /\ p \in Pages /\ map[p] = f
  <2>1. th[t].pc = "hold"
    BY DEF SlotWrite
  <2> QED
    BY <1>0, <2>1, HereIsFrame DEF Located, CallType, PlaceKnown
<1>2. th'[t].pc = "idle" /\ \A u \in Threads : u # t => th'[u] = th[u]
  BY <1>1 DEF SlotWrite, Idle
<1>3. /\ \A g \in Frames : g # f => frame'[g] = frame[g]
      /\ frame'[f].data = frame[f].data \cup {ncalls} /\ frame'[f].dirty = frame[f].dirty
  BY <1>0, <1>1 DEF SlotWrite, PoolInv, PoolTyped, FrameType
<1>4. /\ truth'[p] = truth[p] \cup {ncalls} /\ \A q \in Pages : q # p => truth'[q] = truth[q]
      /\ UNCHANGED <<map, disk, stat>>
  BY <1>0, <1>1 DEF SlotWrite, PoolInv, PoolTyped
<1>5. map \in [Pages -> Frames \cup {NoFrame}] /\ \A q \in Pages : map[q] = f => q = p
  BY <1>1, BufPoolAssumption DEF PoolInv, PoolTyped, MapExact
<1>6. \A q \in Pages : WritingBack(q)' <=> WritingBack(q)
  BY <1>1, <1>2 DEF WritingBack
<1>7. \A u \in Threads : th[u].pc \in Busy =>
        /\ th[u].f \in Frames /\ th[u].p \in Pages /\ u # t
        /\ th[u].pc # "mark" => th[u].f # f /\ th[u].p # p
  BY <1>1, BusyPlace, BufPoolAssumption DEF Busy
<1>a. \A q \in Pages : Relied(q)' => Relied(q)
  BY <1>2, <1>4, ReliedKept DEF Served, Holds
<1>b. Relied(p)
  BY <1>0, <1>1 DEF SlotWrite, Writes, Relied, Holds
<1>8. CachedCurrent'
  BY <1>1, <1>3, <1>4, <1>5, <1>a, <1>b DEF ContentsCurrent, CachedCurrent
<1>9. FilledCurrent'
  BY <1>2, <1>3, <1>4, <1>7, <1>a DEF ContentsCurrent, FilledCurrent, Busy
<1>10. SavedCurrent'
  BY <1>1, <1>4, <1>6, <1>a, BufPoolAssumption DEF ContentsCurrent, SavedCurrent
<1>11. CarriedCurrent'
  BY <1>1, <1>2, <1>3, <1>4, <1>7, <1>a, <1>b, BufPoolAssumption
     DEF ContentsCurrent, CarriedCurrent, Busy
<1>12. NotOvertaken'
  BY <1>2, <1>6, <1>7 DEF ContentsCurrent, NotOvertaken, Busy
<1>13. ClaimedClean' /\ CopiedClean'
  BY <1>2, <1>3, <1>4, <1>5, <1>7 DEF ContentsCurrent, ClaimedClean, CopiedClean, Busy
<1> QED
  BY <1>8, <1>9, <1>10, <1>11, <1>12, <1>13 DEF ContentsCurrent

LEMMA CpMarkCurrent ==
  ASSUME PoolInv, ContentsCurrent, NEW t \in Threads, CpMark(t), Apart, Calm'
  PROVE  ContentsCurrent'
<1>0. PICK f, p : f = th[t].f /\ p = th[t].p
  OBVIOUS
<1>1. /\ th[t].pc = "mark" /\ th[t].pc \in Busy /\ th[t] \in CallType /\ DOMAIN th = Threads
      /\ f \in Frames /\ p \in Pages
  <2>1. th[t].pc = "mark"
    BY DEF CpMark
  <2> QED
    BY <1>0, <2>1, BusyPlace, InCallShape DEF Busy
<1>2. map[p] = f /\ th[t].kind = "cp"
  BY <1>0, <1>1, InCallShape DEF CpMark, Calm, StaleRaces, CallShape
<1>3. th'[t].pc = "idle" /\ \A u \in Threads : u # t => th'[u] = th[u]
  BY <1>1 DEF CpMark, Idle
<1>4. /\ \A g \in Frames : frame'[g].data = frame[g].data
      /\ \A g \in Frames : g # f => frame'[g] = frame[g]
  BY <1>0, <1>1 DEF CpMark, PoolInv, PoolTyped, FrameType
<1>5. \A q \in Pages : q # p => stat'[q] = stat[q]
  BY <1>0, <1>1 DEF CpMark, PoolInv, PoolTyped
<1>6. UNCHANGED <<map, disk, truth>>
  BY DEF CpMark
<1>7. \A q \in Pages : WritingBack(q)' <=> WritingBack(q)
  BY <1>1, <1>3 DEF WritingBack
<1>8. \A u \in Threads : th[u].pc \in Busy =>
        /\ th[u].f \in Frames /\ th[u].p \in Pages
        /\ th[u].pc # "mark" => th[u].f # f
  BY <1>1, <1>2, BusyPlace
<1>9. map \in [Pages -> Frames \cup {NoFrame}]
  BY DEF PoolInv, PoolTyped
<1>a. \A q \in Pages : Relied(q)' => Relied(q)
  <2>1. Relied(p)
    BY <1>0, <1>1, <1>2 DEF Relied, Holds
  <2>2. \A q \in Pages : q # p => (Served(q)' => Served(q))
    BY <1>5 DEF Served
  <2>3. \A u \in Threads : \A q \in Pages : Holds(th'[u], q) => Holds(th[u], q)
    BY <1>3 DEF Holds
  <2> QED
    BY <2>1, <2>2, <2>3 DEF Relied
<1>10. CachedCurrent' /\ FilledCurrent'
  BY <1>3, <1>4, <1>6, <1>8, <1>9, <1>a DEF ContentsCurrent, CachedCurrent, FilledCurrent, Busy
<1>11. SavedCurrent'
  BY <1>6, <1>7, <1>a DEF ContentsCurrent, SavedCurrent
<1>12. CarriedCurrent'
  BY <1>3, <1>4, <1>6, <1>8, <1>a DEF ContentsCurrent, CarriedCurrent, Busy
<1>13. NotOvertaken'
  BY <1>3, <1>7, <1>8 DEF ContentsCurrent, NotOvertaken, Busy
<1>14. ClaimedClean'
  BY <1>3, <1>4, <1>8 DEF ContentsCurrent, ClaimedClean, Busy
<1>15. CopiedClean'
  <2> SUFFICES ASSUME NEW u \in Threads, u # t, th[u].pc = "mark", map[th[u].p] # NoFrame
               PROVE  ~frame'[map[th[u].p]].dirty
    BY <1>3, <1>6 DEF CopiedClean
  <2>1. ~frame[map[th[u].p]].dirty
    BY DEF ContentsCurrent, CopiedClean
  <2>2. th[u].p \in Pages /\ map[th[u].p] \in Frames
    BY <1>8, <1>9 DEF Busy
  <2>3. th[u].p # p
    BY <1>0, <1>1, <1>2, CopyAlone
  <2>4. map[th[u].p] # f
    BY <1>1, <1>2, <2>2, <2>3, BufPoolAssumption DEF PoolInv, MapExact
  <2> QED
    BY <1>4, <2>1, <2>2, <2>4
<1> QED
  BY <1>10, <1>11, <1>12, <1>13, <1>14, <1>15 DEF ContentsCurrent

LEMMA ClaimVictimCurrent ==
  ASSUME PoolInv, ContentsCurrent, NEW t \in Threads, ClaimVictim(t), Apart, Calm'
  PROVE  ContentsCurrent'
<1>0. PICK f, S, p, a, b :
        /\ f = find_victim_page.victim /\ S = find_victim_page.cleared /\ p = frame[f].page
        /\ a = IF frame[f].dirty THEN "writeback" ELSE "fill"
        /\ b = IF frame[f].dirty THEN p ELSE 0
  OBVIOUS
<1>1. /\ th[t].pc = "claim" /\ free = <<>> /\ f # NoFrame /\ map' = Unmapped(f)
      /\ frame' = [Cleared(S) EXCEPT ![f].latch = -1] /\ UNCHANGED <<disk, truth, stat>>
      /\ th' = [th EXCEPT ![t].pc = a, ![t].f = f, ![t].wb = b]
      /\ ~Unsaved(f)
  BY <1>0 DEF ClaimVictim, Calm, StaleRaces
<1>2. f \in Frames /\ Evictable(f)
  BY <1>0, <1>1, AllOnLru, VictimFree DEF PoolInv, ListsApart
<1>3. p \in Pages /\ map[p] = f
  <2>1. ~On(free, f) /\ ~Owned(f)
    BY <1>1, <1>2, AllOnLru, EvictableUnheld DEF Owned
  <2> QED
    BY <1>0, <1>2, <2>1 DEF PoolInv, Resident
<1>4. /\ map'[p] = NoFrame /\ \A q \in Pages : q # p => map'[q] = map[q]
      /\ map \in [Pages -> Frames \cup {NoFrame}] /\ map[p] # NoFrame
  BY <1>0, <1>1, <1>2, <1>3, BufPoolAssumption DEF Unmapped, PoolInv, PoolTyped
<1>5. th[t] \in CallType /\ DOMAIN th = Threads
  BY <1>1, InCallShape
<1>6. /\ th'[t].pc = a /\ th'[t].f = f /\ th'[t].wb = b
      /\ \A u \in Threads : u # t => th'[u] = th[u]
  BY <1>1, <1>5 DEF CallType
<1>7. \A g \in Frames : frame'[g].data = frame[g].data /\ frame'[g].dirty = frame[g].dirty
  <2>1. /\ Cleared(S) \in [Frames -> FrameType]
        /\ \A g \in Frames : /\ Cleared(S)[g].data = frame[g].data
                             /\ Cleared(S)[g].dirty = frame[g].dirty
    BY ClearedSame
  <2>2. PICK C : C = Cleared(S)
    OBVIOUS
  <2>3. \A g \in Frames : frame'[g].data = C[g].data /\ frame'[g].dirty = C[g].dirty
    BY <1>1, <1>2, <2>1, <2>2 DEF FrameType
  <2> QED
    BY <2>1, <2>2, <2>3
<1>8. \A u \in Threads : th[u].pc \in Busy =>
        /\ th[u].f \in Frames /\ th[u].p \in Pages /\ u # t
        /\ th[u].pc # "mark" => th[u].p # p
  BY <1>1, <1>4, BusyPlace DEF Busy
<1>a. \A q \in Pages : Relied(q)' => Relied(q)
  <2>1. th'[t].pc \in {"writeback", "fill"}
    BY <1>0, <1>6
  <2>2. \A u \in Threads : \A q \in Pages : Holds(th'[u], q) => Holds(th[u], q)
    BY <1>6, <2>1 DEF Holds
  <2>3. \A q \in Pages : Served(q)' => Served(q)
    BY <1>1 DEF Served
  <2> QED
    BY <2>2, <2>3, ReliedKept
<1>9. (Relied(p) => frame[f].data = truth[p]) /\ \A u \in Threads : th[u].pc = "mark" /\ th[u].p = p => ~frame[f].dirty
  BY <1>3, <1>4 DEF ContentsCurrent, CachedCurrent, CopiedClean
<1>10. \A q \in Pages : /\ WritingBack(q) => WritingBack(q)'
                        /\ WritingBack(q)' => WritingBack(q) \/ (frame[f].dirty /\ q = p)
  <2>1. a \in {"writeback", "fill"} /\ (a = "writeback" => frame[f].dirty /\ b = p)
    BY <1>0
  <2> QED
    BY <1>1, <1>6, <2>1 DEF WritingBack
<1>11. frame[f].dirty => WritingBack(p)'
  BY <1>0, <1>6 DEF WritingBack
<1>12. CachedCurrent'
  BY <1>4, <1>7, <1>1, <1>a DEF ContentsCurrent, CachedCurrent
<1>13. FilledCurrent'
  <2>1. \A u \in Threads : th'[u].pc = "publish" => th'[u] = th[u]
    BY <1>0, <1>6
  <2>2. truth' = truth
    BY <1>1
  <2> QED
    BY <1>7, <1>8, <1>a, <2>1, <2>2 DEF ContentsCurrent, FilledCurrent, Busy
<1>14. SavedCurrent'
  <2> SUFFICES ASSUME NEW q \in Pages, Relied(q), map'[q] = NoFrame
               PROVE  disk[q] = truth[q] \/ WritingBack(q)'
    BY <1>1, <1>a DEF SavedCurrent
  <2>1. CASE q # p
    BY <1>4, <1>10, <2>1 DEF ContentsCurrent, SavedCurrent
  <2>2. CASE q = p
    BY <1>0, <1>1, <1>9, <1>11, <2>2 DEF Unsaved
  <2> QED
    BY <2>1, <2>2
<1>15. CarriedCurrent'
  <2> SUFFICES ASSUME NEW u \in Threads, th'[u].pc = "writeback"
               PROVE  /\ th'[u].wb \in Pages
                      /\ Relied(th'[u].wb) => /\ map'[th'[u].wb] = NoFrame
                                              /\ frame'[th'[u].f].data = truth[th'[u].wb]
    BY <1>1, <1>a DEF CarriedCurrent
  <2>1. CASE u = t
    BY <1>0, <1>2, <1>3, <1>4, <1>6, <1>7, <1>9, <2>1
  <2>2. CASE u # t
    <3>1. th'[u] = th[u] /\ th[u].f \in Frames
      BY <1>6, <1>8, <2>2 DEF Busy
    <3> QED
      BY <1>4, <1>7, <3>1 DEF ContentsCurrent, CarriedCurrent
  <2> QED
    BY <2>1, <2>2
<1>16. NotOvertaken'
  BY <1>0, <1>6, <1>8, <1>9, <1>10 DEF ContentsCurrent, NotOvertaken, Busy
<1>17. ClaimedClean'
  BY <1>0, <1>2, <1>6, <1>7, <1>8 DEF ContentsCurrent, ClaimedClean, Busy
<1>18. CopiedClean'
  BY <1>0, <1>4, <1>6, <1>7, <1>8 DEF ContentsCurrent, CopiedClean, Busy
<1> QED
  BY <1>12, <1>13, <1>14, <1>15, <1>16, <1>17, <1>18 DEF ContentsCurrent

LEMMA RetireLockedCurrent ==
  ASSUME PoolInv, ContentsCurrent, Apart, RetireLocked
  PROVE  ContentsCurrent'
<1>0. PICK p, f : p = gc.p /\ f = gc.f
  OBVIOUS
<1>1. UNCHANGED <<disk, truth, th>> /\ gc.pc = "retire"
  BY DEF RetireLocked
<1>2. p \in Pages /\ f \in Frames
  BY <1>0, <1>1 DEF PoolInv, Retiring, Idle
<1>3. \A q \in Pages : /\ Relied(q)' => Relied(q)
                       /\ map'[q] = map[q] \/ (map'[q] = NoFrame /\ ~Relied(q)')
  <2>1. \A q \in Pages : /\ Served(q)' => Served(q)
                         /\ \/ map'[q] = map[q]
                            \/ map'[q] = NoFrame /\ ~Served(q)' /\ q = p /\ map[p] = f /\ Evictable(f)
    BY <1>0, <1>2 DEF RetireLocked, Served, PoolInv, PoolTyped
  <2>2. \A q \in Pages : Relied(q)' => Relied(q)
    BY <1>1, <2>1, ReliedKept
  <2>3. ASSUME map[p] = f, Evictable(f), NEW u \in Threads, Holds(th[u], p)
        PROVE  FALSE
    <3>1. th[u].p = p /\ th[u].pc \in {"mark", "hold", "pinned"} /\ stat[p] = "old"
      BY <1>0, <1>1, <2>3 DEF Holds, PoolInv, Retiring, Idle
    <3>2. CASE th[u].pc = "mark" /\ Copies(th[u])
      BY <3>1, <3>2 DEF PoolInv, CopiesApart
    <3>3. CASE map[p] = th[u].f
      <4>1. th[u].pc = "mark" => Copies(th[u])
        BY InCallShape DEF CallShape, Copies
      <4> QED
        BY <1>2, <2>3, <3>1, <3>2, <3>3, <4>1, EvictableUnheld
    <3> QED
      BY <2>3, <3>2, <3>3, HeldMapped
  <2>4. map[p] = f /\ Evictable(f) => \A u \in Threads : ~Holds(th'[u], p)
    BY <1>1, <2>3
  <2> QED
    BY <2>1, <2>2, <2>4 DEF Relied
<1>4. \A g \in Frames : frame'[g].data = frame[g].data /\ (frame'[g].dirty => frame[g].dirty)
  <2>1. frame' = frame \/ frame' = [frame EXCEPT ![f].dirty = FALSE, ![f].ref = FALSE]
    BY <1>0 DEF RetireLocked
  <2> QED
    BY <1>2, <2>1 DEF PoolInv, PoolTyped, FrameType
<1>5. \A q \in Pages : WritingBack(q)' <=> WritingBack(q)
  BY <1>1 DEF WritingBack
<1>6. \A u \in Threads : th[u].pc \in Busy => th[u].f \in Frames /\ th[u].p \in Pages
  BY BusyPlace
<1>7. map \in [Pages -> Frames \cup {NoFrame}]
  BY DEF PoolInv, PoolTyped
<1>8. CachedCurrent'
  BY <1>1, <1>3, <1>4, <1>7 DEF ContentsCurrent, CachedCurrent
<1>9. FilledCurrent'
  <2>1. \A q \in Pages : Relied(q)' => Relied(q)
    BY <1>3
  <2> QED
    BY <1>1, <1>4, <1>6, <2>1 DEF ContentsCurrent, FilledCurrent, Busy
<1>10. SavedCurrent'
  BY <1>1, <1>3, <1>5 DEF ContentsCurrent, SavedCurrent
<1>11. CarriedCurrent'
  <2> SUFFICES ASSUME NEW u \in Threads, th[u].pc = "writeback", NEW w, w = th[u].wb
               PROVE  /\ w \in Pages
                      /\ Relied(w)' => map'[w] = NoFrame /\ frame'[th[u].f].data = truth[w]
    BY <1>1 DEF CarriedCurrent
  <2>1. th[u].f \in Frames
    BY <1>6 DEF Busy
  <2>2. w \in Pages /\ (Relied(w) => map[w] = NoFrame /\ frame[th[u].f].data = truth[w])
    BY DEF ContentsCurrent, CarriedCurrent
  <2> QED
    BY <1>3, <1>4, <2>1, <2>2
<1>12. NotOvertaken'
  BY <1>1, <1>5, <1>6 DEF ContentsCurrent, NotOvertaken, Busy
<1>13. ClaimedClean' /\ CopiedClean'
  BY <1>1, <1>3, <1>4, <1>6, <1>7 DEF ContentsCurrent, ClaimedClean, CopiedClean, Busy
<1> QED
  BY <1>8, <1>9, <1>10, <1>11, <1>12, <1>13 DEF ContentsCurrent

LEMMA FlushCurrent ==
  ASSUME PoolInv, ContentsCurrent, Calm, NEW f \in Frames, Flush(f)
  PROVE  ContentsCurrent'
<1>0. PICK p : p = frame[f].page
  OBVIOUS
<1>1. p \in Pages /\ map[p] = f
  <2>1. frame[f].latch = 0 /\ frame[f].dirty
    BY DEF Flush, Unlatched
  <2>2. ~On(free, f)
    BY <2>1, CalmApart DEF PoolInv, ListsApart
  <2>3. ~Owned(f)
    BY <2>1, LatchedNot DEF Owned, Excludes
  <2> QED
    BY <1>0, <2>2, <2>3, CalmApart DEF PoolInv, Resident
<1>2. /\ disk'[p] = frame[f].data /\ \A q \in Pages : q # p => disk'[q] = disk[q]
      /\ UNCHANGED <<map, truth, stat, th>>
  BY <1>0, <1>1 DEF Flush, PoolInv, PoolTyped
<1>3. \A g \in Frames : frame'[g].data = frame[g].data /\ (frame'[g].dirty => frame[g].dirty)
  BY DEF Flush, PoolInv, PoolTyped, FrameType
<1>4. \A q \in Pages : WritingBack(q)' <=> WritingBack(q)
  BY <1>2 DEF WritingBack
<1>5. \A u \in Threads : th[u].pc \in Busy => th[u].f \in Frames /\ th[u].p \in Pages
  BY BusyPlace
<1>6. map \in [Pages -> Frames \cup {NoFrame}]
  BY DEF PoolInv, PoolTyped
<1>a. \A q \in Pages : Relied(q)' => Relied(q)
  BY <1>2, ReliedKept DEF Served
<1>7. CachedCurrent' /\ FilledCurrent'
  BY <1>2, <1>3, <1>5, <1>6, <1>a DEF ContentsCurrent, CachedCurrent, FilledCurrent, Busy
<1>8. SavedCurrent'
  BY <1>1, <1>2, <1>4, <1>a, BufPoolAssumption DEF ContentsCurrent, SavedCurrent
<1>9. CarriedCurrent'
  BY <1>2, <1>3, <1>5, <1>a DEF ContentsCurrent, CarriedCurrent, Busy
<1>10. NotOvertaken'
  BY <1>2, <1>4, <1>5 DEF ContentsCurrent, NotOvertaken, Busy
<1>11. ClaimedClean' /\ CopiedClean'
  BY <1>2, <1>3, <1>5, <1>6 DEF ContentsCurrent, ClaimedClean, CopiedClean, Busy
<1> QED
  BY <1>7, <1>8, <1>9, <1>10, <1>11 DEF ContentsCurrent

\* No step forgets a race.
LEMMA RacesKept ==
  ASSUME [Next]_vars
  PROVE  raced \subseteq raced'
<1>1. ASSUME NEW t \in Threads, Step(t)
      PROVE  raced \subseteq raced'
  BY <1>1 DEF Step, Find, Pin, Latch, Verify, Register, Wait, ClaimFree, ClaimVictim, ClaimThrow,
              WriteBack, Fill, Publish, Finish, SlotWrite, Keep, Unpin, Release, CpFind, CpFill,
              CpPublish, CpMark, Missed
<1>2. ASSUME NEW p \in Pages, Replace(p) \/ RetireFind(p)
      PROVE  raced \subseteq raced'
  BY <1>2 DEF Replace, RetireFind
<1>3. CASE RetireLocked \/ \E f \in Frames : Flush(f)
  BY <1>3 DEF RetireLocked, Flush
<1>4. CASE \E t \in Threads, kind \in Calls, p \in Pages : Call(t, kind, p)
  BY <1>4 DEF Call
<1>5. CASE UNCHANGED vars
  BY <1>5 DEF vars
<1> QED
  BY <1>1, <1>2, <1>3, <1>4, <1>5 DEF Next

LEMMA ContentStep == PoolInv /\ ContentInv /\ [Next]_vars => ContentInv'
<1> SUFFICES ASSUME PoolInv, ContentInv, [Next]_vars, Calm'
             PROVE  ContentsCurrent'
  BY DEF ContentInv
<1>0. Calm /\ Apart /\ ContentsCurrent
  BY RacesKept, CalmApart DEF ContentInv, Calm
<1>1. CASE \E t \in Threads, kind \in Calls, p \in Pages : Call(t, kind, p)
  BY <1>0, <1>1, CallCurrent
<1>2. ASSUME NEW t \in Threads, Step(t)
      PROVE  ContentsCurrent'
  <2>1. CASE Find(t) \/ Register(t) \/ Wait(t) \/ CpFind(t)
    BY <1>0, <2>1, SearchCurrent
  <2>2. CASE Pin(t) \/ Latch(t) \/ Verify(t) \/ Finish(t) \/ Keep(t) \/ Unpin(t) \/ Release(t)
    BY <1>0, <2>2, HoldCurrent
  <2>3. CASE ClaimFree(t) \/ ClaimVictim(t) \/ ClaimThrow(t) \/ WriteBack(t) \/ Fill(t)
    BY <1>0, <2>3, ClaimFreeCurrent, ClaimVictimCurrent, ClaimThrowCurrent, WriteBackCurrent,
       FillCurrent
  <2>4. CASE Publish(t) \/ CpPublish(t) \/ SlotWrite(t) \/ CpFill(t) \/ CpMark(t)
    BY <1>0, <2>4, PublishCurrent, SlotWriteCurrent, CpFillCurrent, CpMarkCurrent
  <2> QED
    BY <1>2, <2>1, <2>2, <2>3, <2>4 DEF Step
<1>3. CASE \E p \in Pages : Replace(p) \/ RetireFind(p)
  BY <1>0, <1>3, StatusCurrent
<1>4. CASE RetireLocked
  BY <1>0, <1>4, RetireLockedCurrent
<1>5. CASE \E f \in Frames : Flush(f)
  BY <1>0, <1>5, FlushCurrent
<1>6. CASE UNCHANGED vars
  <2>1. UNCHANGED <<map, truth, disk, frame, th, stat>>
    BY <1>6 DEF vars
  <2> QED
    BY <1>0, <2>1, CalmStep, ReliedKept DEF Served
<1> QED
  BY <1>1, <1>2, <1>3, <1>4, <1>5, <1>6 DEF Next

LEMMA ContentStart == Init => ContentInv
<1> SUFFICES ASSUME Init PROVE ContentsCurrent
  BY DEF ContentInv
<1>1. \A t \in Threads : th[t].pc = "idle"
  BY DEF Init, Idle
<1>2. \A p \in Pages : map[p] = NoFrame /\ disk[p] = truth[p]
  BY DEF Init
<1> QED
  BY <1>1, <1>2 DEF ContentsCurrent, CachedCurrent, FilledCurrent, SavedCurrent, CarriedCurrent,
                    NotOvertaken, ClaimedClean, CopiedClean

\* Until a load or a copy overtakes a write-back, a page is evicted or leaves its
\* frame before it is marked dirty, or a scan crosses a copy, a caller that holds a
\* page, and a scan of a page that is in use, sees the content the database has
\* acknowledged: no eviction, write-back, flush, retirement or reuse of a page
\* number loses it.
THEOREM PoolReadsCurrent == Spec => []ReadsCurrent
<1>1. PoolInv /\ ContentInv /\ [Next]_vars => PoolInv' /\ ContentInv'
  BY PoolStep, ContentStep
<1>2. ASSUME PoolInv, ContentInv PROVE ReadsCurrent
  <2> SUFFICES ASSUME Calm, NEW t \in Threads, Using(t), th[t].kind = "scan" => Served(th[t].p)
               PROVE  frame[th[t].f].data = truth[th[t].p]
    BY DEF ReadsCurrent, Calm, Served
  <2>1. th[t].f \in Frames /\ th[t].p \in Pages /\ map[th[t].p] = th[t].f
    BY <1>2, HereIsFrame, CalmApart DEF Using, Located, CallType, PlaceKnown
  <2>2. Relied(th[t].p)
    BY DEF Relied, Holds, Using
  <2> QED
    BY <1>2, <2>1, <2>2, BufPoolAssumption DEF ContentInv, ContentsCurrent, CachedCurrent
<1> QED
  BY <1>1, <1>2, PoolStart, ContentStart, PTL DEF Spec
==============================================================================
