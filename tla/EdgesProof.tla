----------------------------- MODULE EdgesProof -----------------------------
(***************************************************************************)
(* Proofs that consolidation is transparent, for any writers, readers,     *)
(* vertices, pages and jobs and both ways of publishing versions: as long  *)
(* as no race and no loss is on record (Lossless), page and delta chain of *)
(* a vertex say what the acknowledged updates say (EdgesExact), and a read *)
(* that walks a chain while all this goes on is regular (ReadsRegular).    *)
(*                                                                         *)
(* The chain of a vertex is described as a set: its records above a floor, *)
(* which the switch of a version raises.  Walk, View and the merge follow  *)
(* links and lists; the first sections show that they compute, on such a   *)
(* set, the newest record of each edge.  The invariant then says which     *)
(* records lie on which page, chain and list of strays, and what they say. *)
(***************************************************************************)
EXTENDS ConsolidationProof, WellFoundedInduction

-----------------------------------------------------------------------------
(* Least and greatest members *)

\* A set of naturals that is not empty has a least member.
LEMMA LeastExists ==
  ASSUME NEW T \in SUBSET Nat, T # {}
  PROVE  \E x \in T : \A y \in T : x <= y
<1> DEFINE R == OpToRel(<, Nat)
<1>1. R = {ss \in Nat \X Nat : ss[1] < ss[2]}
  BY DEF OpToRel
<1>2. IsWellFoundedOn(R, Nat)
  BY NatLessThanWellFounded
<1> HIDE DEF R
<1>3. PICK x \in T : \A y \in T : ~(<<y, x>> \in R)
  BY <1>2, WFMin, Zenon
<1>4. \A y \in T : x <= y
  <2> TAKE y \in T
  <2>1. x \in Nat /\ y \in Nat
    OBVIOUS
  <2>2. y < x => <<y, x>> \in R
    BY <1>1, <2>1
  <2> QED
    BY <1>3, <2>1, <2>2
<1> QED
  BY <1>4

\* ... and a bounded one has a greatest member.
LEMMA GreatestExists ==
  ASSUME NEW n \in Nat, NEW S \in SUBSET (1 .. n), S # {}
  PROVE  \E x \in S : \A y \in S : y <= x
<1> DEFINE T == {n - p : p \in S}
<1>1. T \in SUBSET Nat /\ T # {}
  OBVIOUS
<1> HIDE DEF T
<1>2. PICK x \in T : \A y \in T : x <= y
  BY <1>1, LeastExists
<1>3. PICK q \in S : x = n - q
  BY DEF T
<1>4. \A p \in S : n - q <= n - p
  BY <1>2, <1>3 DEF T
<1> QED
  BY <1>4

\* Max is what its name says ...
LEMMA MaxIs ==
  ASSUME NEW n \in Nat, NEW S \in SUBSET (1 .. n), NEW m \in S, \A y \in S : y <= m
  PROVE  Max(S) = m
<1> DEFINE P(x) == x \in S /\ \A y \in S : x >= y
<1>1. Max(S) = CHOOSE x : P(x)
  BY Zenon DEF Max
<1>2. P(m)
  OBVIOUS
<1>3. \A x : P(x) => x = m
  OBVIOUS
<1> HIDE DEF P
<1> QED
  BY <1>1, <1>2, <1>3

\* ... and a member of a set that is not empty.
LEMMA MaxExists ==
  ASSUME NEW n \in Nat, NEW S \in SUBSET (1 .. n), S # {}
  PROVE  Max(S) \in S /\ \A y \in S : y <= Max(S)
<1>1. PICK x \in S : \A y \in S : y <= x
  BY GreatestExists
<1>2. Max(S) = x
  BY <1>1, MaxIs
<1> QED
  BY <1>1, <1>2

\* Min is what its name says ...
LEMMA MinIs ==
  ASSUME NEW n \in Nat, NEW S \in SUBSET (1 .. n), NEW m \in S, \A y \in S : m <= y
  PROVE  Min(S) = m
<1> DEFINE P(x) == x \in S /\ \A y \in S : x =< y
<1>1. Min(S) = CHOOSE x : P(x)
  BY Zenon DEF Min
<1>2. P(m)
  OBVIOUS
<1>3. \A x : P(x) => x = m
  OBVIOUS
<1> HIDE DEF P
<1> QED
  BY <1>1, <1>2, <1>3

\* ... and a member of a set that is not empty.
LEMMA MinExists ==
  ASSUME NEW n \in Nat, NEW S \in SUBSET (1 .. n), S # {}
  PROVE  Min(S) \in S /\ \A y \in S : Min(S) <= y
<1>1. S \in SUBSET Nat
  OBVIOUS
<1>2. PICK x \in S : \A y \in S : x <= y
  BY <1>1, LeastExists
<1>3. Min(S) = x
  BY <1>2, MinIs
<1> QED
  BY <1>2, <1>3

-----------------------------------------------------------------------------
(* What a set of records says of an edge *)

\* The locations a list holds, and a list in the order of the appends.
Locs(s) == {s[i] : i \in 1 .. Len(s)}
Increasing(s) == \A i, j \in 1 .. Len(s) : i < j => s[i] < s[j]

\* The edge (v, d) is on a page with adjacency base.
Stored(base, v, d) == v \in DOMAIN base /\ d \in base[v]

\* Of the locations T in the records R, those of the edge (v, d); and the state
\* of the edge that the newest of them leaves on top of b.
Hits(R, T, v, d) == {l \in T : R[l].src = v /\ R[l].dst = d}
Value(R, T, v, d, b) ==
  IF Hits(R, T, v, d) = {} THEN b ELSE R[Max(Hits(R, T, v, d))].typ = "INSERT"

\* Without a record of the edge the base decides.
LEMMA ValueNone ==
  ASSUME NEW R, NEW T, NEW v, NEW d, NEW b, Hits(R, T, v, d) = {}
  PROVE  Value(R, T, v, d, b) <=> b
  BY DEF Value

\* The newest record decides.
LEMMA ValueTop ==
  ASSUME NEW R, NEW n \in Nat, NEW T \in SUBSET (1 .. n), NEW v, NEW d, NEW b,
         NEW l \in Hits(R, T, v, d), \A m \in Hits(R, T, v, d) : m <= l
  PROVE  Value(R, T, v, d, b) <=> R[l].typ = "INSERT"
<1>1. Hits(R, T, v, d) \in SUBSET (1 .. n)
  BY DEF Hits
<1>2. Max(Hits(R, T, v, d)) = l
  BY <1>1, MaxIs
<1> QED
  BY <1>2 DEF Value

\* Among the records of an edge there is a newest one.
LEMMA HitsTop ==
  ASSUME NEW R, NEW n \in Nat, NEW T \in SUBSET (1 .. n), NEW v, NEW d, Hits(R, T, v, d) # {}
  PROVE  \E l \in Hits(R, T, v, d) : \A m \in Hits(R, T, v, d) : m <= l
<1>1. Hits(R, T, v, d) \in SUBSET (1 .. n)
  BY DEF Hits
<1> QED
  BY <1>1, GreatestExists

\* Only the records of the edge count.
LEMMA ValueSame ==
  ASSUME NEW R, NEW Q, NEW n \in Nat, NEW T \in SUBSET (1 .. n), NEW U, NEW v, NEW d,
         NEW b, Hits(Q, U, v, d) = Hits(R, T, v, d),
         \A l \in Hits(R, T, v, d) : Q[l].typ = R[l].typ
  PROVE  Value(Q, U, v, d, b) <=> Value(R, T, v, d, b)
<1>1. CASE Hits(R, T, v, d) = {}
  BY <1>1, ValueNone
<1>2. CASE Hits(R, T, v, d) # {}
  <2>1. PICK l \in Hits(R, T, v, d) : \A m \in Hits(R, T, v, d) : m <= l
    BY <1>2, HitsTop
  <2>2. Hits(R, T, v, d) \in SUBSET (1 .. n)
    BY DEF Hits
  <2>3. Max(Hits(R, T, v, d)) = l
    BY <2>1, <2>2, MaxIs
  <2> QED
    BY <1>2, <2>1, <2>3 DEF Value
<1> QED
  BY <1>1, <1>2

\* The locations of a list are the values of the sequence.
LEMMA LocsAt ==
  ASSUME NEW s \in Seq(Nat), NEW n \in Nat, \A i \in 1 .. Len(s) : s[i] \in 1 .. n
  PROVE  Locs(s) \in SUBSET (1 .. n) /\ DOMAIN s = 1 .. Len(s) /\ Len(s) \in Nat
  BY DEF Locs

\* build_merged_graph applies its records in the order of the appends: the
\* newest one of an edge decides.
LEMMA MergeOneIs ==
  ASSUME NEW base, NEW ds \in Seq(Nat), Increasing(ds), Len(recs) \in Nat,
         \A i \in 1 .. Len(ds) : ds[i] \in 1 .. Len(recs), NEW v, NEW d \in Dsts
  PROVE  d \in MergeOne(base, ds, v) <=> Value(recs, Locs(ds), v, d, Stored(base, v, d))
<1> DEFINE hits == {i \in DOMAIN ds : recs[ds[i]].src = v /\ recs[ds[i]].dst = d}
           H == Hits(recs, Locs(ds), v, d)
<1>1. Locs(ds) \in SUBSET (1 .. Len(recs)) /\ DOMAIN ds = 1 .. Len(ds) /\ Len(ds) \in Nat
  BY LocsAt
<1>2. d \in MergeOne(base, ds, v)
        <=> IF hits = {} THEN Stored(base, v, d) ELSE recs[ds[Max(hits)]].typ = "INSERT"
  BY DEF MergeOne, Stored
<1>3. \A i \in hits : ds[i] \in H
  BY <1>1 DEF Hits, Locs
<1>4. \A l \in H : \E i \in hits : l = ds[i]
  BY <1>1 DEF Hits, Locs
<1>6. CASE hits = {}
  BY <1>2, <1>4, <1>6, ValueNone
<1>7. CASE hits # {}
  <2>1. hits \in SUBSET (1 .. Len(ds))
    BY <1>1
  <2>2. Max(hits) \in hits /\ \A i \in hits : i <= Max(hits)
    BY <1>1, <1>7, <2>1, MaxExists
  <2> DEFINE m == Max(hits)
  <2> HIDE DEF hits, m
  <2>3. \A i \in hits : ds[i] <= ds[m]
    <3> TAKE i \in hits
    <3>1. i \in 1 .. Len(ds) /\ m \in 1 .. Len(ds) /\ i <= m
      BY <2>1, <2>2 DEF m
    <3>2. ds[i] \in Nat /\ ds[m] \in Nat
      BY <3>1
    <3> QED
      BY <3>1, <3>2 DEF Increasing
  <2>4. ds[m] \in H /\ \A l \in H : l <= ds[m]
    BY <1>3, <1>4, <2>2, <2>3 DEF m
  <2> DEFINE T == Locs(ds)
             l == ds[m]
  <2>5. T \in SUBSET (1 .. Len(recs)) /\ l \in Hits(recs, T, v, d)
    BY <1>1, <2>4
  <2>6. \A j \in Hits(recs, T, v, d) : j <= l
    BY <2>4
  <2> HIDE DEF T, l
  <2>7. Value(recs, T, v, d, Stored(base, v, d)) <=> recs[l].typ = "INSERT"
    BY <2>5, <2>6, ValueTop
  <2> QED
    BY <1>2, <1>7, <2>7 DEF m, T, l
<1> QED
  BY <1>6, <1>7

-----------------------------------------------------------------------------
(* Chains *)

\* h is the newest location of S, or 0 when there is none.
IsTop(S, h) == (S = {} /\ h = 0) \/ (h \in S /\ \A m \in S : m <= h)

\* A chain that starts at h runs through the locations S from the newest to the
\* oldest one.
Linked(R, S, h) == IsTop(S, h) /\ \A l \in S : IsTop({m \in S : m < l}, R[l].next)

\* The equations of Walk.
LEMMA WalkEquations ==
  ASSUME Len(recs) \in Nat, \A i \in 1 .. Len(recs) : recs[i].next \in Nat /\ recs[i].next < i
  PROVE  /\ Walk[0] = <<>>
         /\ \A n \in 1 .. Len(recs) : Walk[n] = <<n>> \o Walk[recs[n].next]
<1> DEFINE Eq(f, n) == f = [m \in 0 .. n |-> IF m = 0 THEN <<>> ELSE <<m>> \o f[recs[m].next]]
           Bad == {n \in 0 .. Len(recs) : ~ \E f : Eq(f, n)}
<1>1. ASSUME NEW n \in Nat, NEW f, Eq(f, n), n + 1 <= Len(recs)
      PROVE  \E g : Eq(g, n + 1)
  <2> DEFINE g == [m \in 0 .. n + 1 |-> IF m = n + 1 THEN <<m>> \o f[recs[m].next] ELSE f[m]]
  <2>1. \A m \in 0 .. n : g[m] = f[m]
    OBVIOUS
  <2>2. \A m \in 1 .. n + 1 : recs[m].next \in 0 .. n
    <3> TAKE m \in 1 .. n + 1
    <3>1. m \in 1 .. Len(recs)
      BY <1>1
    <3> QED
      BY <3>1
  <2>3. \A m \in 1 .. n : g[m] = <<m>> \o f[recs[m].next]
    <3> TAKE m \in 1 .. n
    <3>1. m \in 0 .. n /\ m # 0
      OBVIOUS
    <3>2. f[m] = <<m>> \o f[recs[m].next]
      BY <1>1, <3>1
    <3> QED
      BY <2>1, <3>1, <3>2
  <2>4. g[0] = <<>>
    <3>1. 0 \in 0 .. n
      OBVIOUS
    <3>2. f[0] = <<>>
      BY <1>1, <3>1
    <3> QED
      BY <2>1, <3>1, <3>2
  <2>5. g[n + 1] = <<n + 1>> \o f[recs[n + 1].next]
    OBVIOUS
  <2>6. \A m \in 1 .. n + 1 : g[recs[m].next] = f[recs[m].next]
    BY <2>1, <2>2
  <2>7. g = [m \in 0 .. n + 1 |-> g[m]]
    OBVIOUS
  <2> HIDE DEF g
  <2>8. \A m \in 0 .. n + 1 : g[m] = IF m = 0 THEN <<>> ELSE <<m>> \o g[recs[m].next]
    <3> TAKE m \in 0 .. n + 1
    <3>1. m = 0 \/ m \in 1 .. n + 1
      OBVIOUS
    <3>2. CASE m = 0
      BY <2>4, <3>2
    <3>3. CASE m \in 1 .. n + 1
      <4>1. m # 0 /\ (m \in 1 .. n \/ m = n + 1)
        BY <3>3
      <4>2. g[m] = <<m>> \o f[recs[m].next]
        BY <2>3, <2>5, <4>1, Zenon
      <4>3. g[recs[m].next] = f[recs[m].next]
        BY <2>6, <3>3, Zenon
      <4> QED
        BY <4>1, <4>2, <4>3, Zenon
    <3> QED
      BY <3>1, <3>2, <3>3
  <2>9. Eq(g, n + 1)
    BY <2>7, <2>8
  <2> QED
    BY <2>9
<1>2. \E f : Eq(f, 0)
  <2> DEFINE g == [m \in 0 .. 0 |-> <<>>]
  <2>1. Eq(g, 0)
    OBVIOUS
  <2> QED
    BY <2>1
<1>3. Bad = {}
  <2> SUFFICES ASSUME Bad # {} PROVE FALSE
    OBVIOUS
  <2>1. Bad \in SUBSET Nat
    OBVIOUS
  <2> HIDE DEF Eq
  <2>2. PICK n \in Bad : \A m \in Bad : n <= m
    BY <2>1, LeastExists
  <2>3. n # 0
    BY <1>2, <2>2
  <2>4. n - 1 \in Nat /\ n \in 1 .. Len(recs) /\ n - 1 \notin Bad
    BY <2>1, <2>2, <2>3
  <2>5. PICK f : Eq(f, n - 1)
    BY <2>4
  <2>6. \E g : Eq(g, (n - 1) + 1)
    BY <1>1, <2>4, <2>5
  <2> QED
    BY <2>2, <2>4, <2>6
<1>4. PICK f : Eq(f, Len(recs))
  <2>1. Len(recs) \in 0 .. Len(recs)
    OBVIOUS
  <2> QED
    BY <1>3, <2>1
<1> DEFINE P(g) == g = [n \in 0 .. Len(recs) |-> IF n = 0 THEN <<>> ELSE <<n>> \o g[recs[n].next]]
<1>5. P(f)
  BY <1>4
<1>6. Walk = CHOOSE g : P(g)
  BY DEF Walk
<1> HIDE DEF P
<1>7. P(Walk)
  BY <1>5, <1>6
<1> DEFINE W == Walk
<1>8. W = [n \in 0 .. Len(recs) |-> IF n = 0 THEN <<>> ELSE <<n>> \o W[recs[n].next]]
  BY <1>7 DEF P
<1> HIDE DEF W
<1>9. W[0] = <<>> /\ \A n \in 1 .. Len(recs) : W[n] = <<n>> \o W[recs[n].next]
  <2>1. \A n \in 0 .. Len(recs) : W[n] = IF n = 0 THEN <<>> ELSE <<n>> \o W[recs[n].next]
    BY <1>8, Zenon
  <2>2. 0 \in 0 .. Len(recs) /\ \A n \in 1 .. Len(recs) : n \in 0 .. Len(recs) /\ n # 0
    OBVIOUS
  <2> QED
    BY <2>1, <2>2
<1> QED
  BY <1>9 DEF W

\* A reader that starts at the top of a linked set meets its locations from the
\* newest to the oldest one, and nothing else.
LEMMA WalkLinked ==
  ASSUME Len(recs) \in Nat, \A i \in 1 .. Len(recs) : recs[i].next \in Nat /\ recs[i].next < i,
         NEW S \in SUBSET (1 .. Len(recs)), NEW h, Linked(recs, S, h)
  PROVE  /\ Walk[h] \in Seq(Nat) /\ Locs(Walk[h]) = S
         /\ \A i, j \in 1 .. Len(Walk[h]) : i < j => Walk[h][j] < Walk[h][i]
<1> DEFINE Upto(n) == {m \in S : m <= n}
           Good(n) == /\ Walk[n] \in Seq(Nat) /\ Locs(Walk[n]) = Upto(n)
                      /\ \A i, j \in 1 .. Len(Walk[n]) : i < j => Walk[n][j] < Walk[n][i]
           Bad == {n \in S \cup {0} : ~Good(n)}
<1>0. \A m \in S : m \in Nat /\ m >= 1
  OBVIOUS
<1>1. Walk[0] = <<>> /\ \A n \in 1 .. Len(recs) : Walk[n] = <<n>> \o Walk[recs[n].next]
  BY WalkEquations
<1>2. Good(0)
  <2>0. \A m \in S : ~(m <= 0)
    BY <1>0
  <2>1. Upto(0) = {}
    BY <2>0, Zenon
  <2>2. Walk[0] \in Seq(Nat) /\ Len(Walk[0]) = 0
    BY <1>1
  <2>3. Locs(Walk[0]) = {}
    BY <2>2 DEF Locs
  <2> QED
    BY <2>1, <2>2, <2>3
<1>3. ASSUME NEW n \in S, Good(recs[n].next)
      PROVE  Good(n)
  <2> DEFINE x == recs[n].next
             c == Walk[x]
             w == Walk[n]
  <2>1. n \in 1 .. Len(recs) /\ n \in Nat
    OBVIOUS
  <2>2. c \in Seq(Nat) /\ w = <<n>> \o c
    BY <1>1, <1>3, <2>1
  <2>3. Upto(n) = Upto(x) \cup {n} /\ \A m \in Upto(x) : m < n
    <3>1. IsTop({m \in S : m < n}, x)
      BY DEF Linked
    <3>2. x \in Nat /\ x < n /\ \A m \in S : m \in Nat
      BY <2>1
    <3>3. \A m \in S : m < n => m <= x
      BY <3>1 DEF IsTop
    <3>4. \A m \in S : m <= n <=> m <= x \/ m = n
      BY <2>1, <3>2, <3>3
    <3>5. \A m \in S : m <= x => m < n
      BY <2>1, <3>2
    <3> QED
      BY <3>4, <3>5
  <2> HIDE DEF Upto
  <2>4. Len(c) \in Nat /\ \A i \in 1 .. Len(c) : c[i] \in Upto(x) /\ c[i] \in Nat
    BY <1>3, <2>2 DEF Locs
  <2>5. \A l \in Upto(x) : \E i \in 1 .. Len(c) : c[i] = l
    BY <1>3 DEF Locs
  <2>6. \A i, j \in 1 .. Len(c) : i < j => c[j] < c[i]
    BY <1>3
  <2> HIDE DEF c, w, Good, x
  <2>7. /\ w \in Seq(Nat) /\ Len(w) = Len(c) + 1 /\ w[1] = n
        /\ \A i \in 2 .. Len(w) : w[i] = c[i - 1]
    BY <2>1, <2>2, <2>4
  <2>8. \A i \in 1 .. Len(c) : w[i + 1] = c[i]
    BY <2>4, <2>7
  <2>9. Locs(w) = Upto(n)
    <3>1. \A i \in 1 .. Len(w) : w[i] \in Upto(n)
      <4> TAKE i \in 1 .. Len(w)
      <4>1. i = 1 \/ (i \in 2 .. Len(w) /\ i - 1 \in 1 .. Len(c))
        BY <2>4, <2>7
      <4> QED
        BY <2>3, <2>4, <2>7, <4>1
    <3>2. \A l \in Upto(n) : \E i \in 1 .. Len(w) : w[i] = l
      <4> TAKE l \in Upto(n)
      <4>1. CASE l = n
        BY <2>4, <2>7, <4>1
      <4>2. CASE l \in Upto(x)
        <5>1. PICK i \in 1 .. Len(c) : c[i] = l
          BY <2>5, <4>2
        <5>2. i + 1 \in 1 .. Len(w) /\ w[i + 1] = l
          BY <2>4, <2>7, <2>8, <5>1
        <5> QED
          BY <5>2
      <4> QED
        BY <2>3, <4>1, <4>2
    <3> QED
      BY <3>1, <3>2 DEF Locs
  <2>10. \A i, j \in 1 .. Len(w) : i < j => w[j] < w[i]
    <3> SUFFICES ASSUME NEW i \in 1 .. Len(w), NEW j \in 1 .. Len(w), i < j
                 PROVE  w[j] < w[i]
      OBVIOUS
    <3>1. j \in 2 .. Len(w) /\ j - 1 \in 1 .. Len(c)
      BY <2>4, <2>7
    <3>2. CASE i = 1
      BY <2>3, <2>4, <2>7, <3>1, <3>2
    <3>3. CASE i # 1
      <4>1. i \in 2 .. Len(w) /\ i - 1 \in 1 .. Len(c) /\ i - 1 < j - 1
        BY <2>4, <2>7, <3>1, <3>3
      <4>2. c[j - 1] < c[i - 1]
        BY <2>6, <3>1, <4>1
      <4> QED
        BY <2>7, <3>1, <4>1, <4>2
    <3> QED
      BY <3>2, <3>3
  <2> QED
    BY <2>7, <2>9, <2>10 DEF Good, w
<1>4. Bad = {}
  <2> SUFFICES ASSUME Bad # {} PROVE FALSE
    OBVIOUS
  <2> HIDE DEF Good
  <2>0. \A m \in S \cup {0} : m \in Nat
    BY <1>0
  <2>1. Bad \in SUBSET Nat
    BY <2>0, Zenon
  <2> HIDE DEF Bad
  <2>2. PICK n \in Bad : \A m \in Bad : n <= m
    BY <2>1, LeastExists
  <2>3. n \in S /\ ~Good(n)
    BY <1>2 DEF Bad
  <2>4. recs[n].next \in S \cup {0} /\ recs[n].next < n /\ n \in Nat /\ recs[n].next \in Nat
    BY <2>1, <2>3 DEF Linked, IsTop
  <2>5. Good(recs[n].next)
    BY <2>2, <2>4 DEF Bad
  <2> QED
    BY <1>3, <2>3, <2>5
<1>5. h \in S \cup {0} /\ Upto(h) = S
  <2>1. IsTop(S, h)
    BY DEF Linked
  <2> QED
    BY <2>1 DEF IsTop
<1>6. Good(h)
  <2> HIDE DEF Good
  <2> QED
    BY <1>4, <1>5
<1> QED
  BY <1>5, <1>6

\* What a read of v would return, by the locations of its chain.
LEMMA ViewIs ==
  ASSUME Len(recs) \in Nat, \A i \in 1 .. Len(recs) : recs[i].next \in Nat /\ recs[i].next < i,
         NEW v, NEW S \in SUBSET (1 .. Len(recs)), Linked(recs, S, head[v]),
         \A l \in S : recs[l].src = v, NEW d \in Dsts
  PROVE  d \in View(v) <=> Value(recs, S, v, d, Stored(csr[cur[v].page], v, d))
<1> DEFINE c == Walk[head[v]]
           hits == {i \in DOMAIN c : recs[c[i]].dst = d}
           H == Hits(recs, S, v, d)
<1>1. /\ c \in Seq(Nat) /\ Locs(c) = S
      /\ \A i, j \in 1 .. Len(c) : i < j => c[j] < c[i]
  BY WalkLinked
<1>2. d \in View(v)
        <=> IF hits = {} THEN Stored(csr[cur[v].page], v, d) ELSE recs[c[Min(hits)]].typ = "INSERT"
  BY DEF View, Stored
<1> HIDE DEF c
<1>3. DOMAIN c = 1 .. Len(c) /\ Len(c) \in Nat
  BY <1>1
<1>4. \A i \in hits : c[i] \in H
  BY <1>1, <1>3 DEF Hits, Locs
<1>5. \A l \in H : \E i \in hits : l = c[i]
  BY <1>1, <1>3 DEF Hits, Locs
<1>6. CASE hits = {}
  BY <1>2, <1>5, <1>6, ValueNone
<1>7. CASE hits # {}
  <2>1. hits \in SUBSET (1 .. Len(c))
    BY <1>3
  <2>2. Min(hits) \in hits /\ \A i \in hits : Min(hits) <= i
    BY <1>3, <1>7, <2>1, MinExists
  <2> DEFINE m == Min(hits)
  <2> HIDE DEF hits, m
  <2>3. \A i \in hits : c[i] <= c[m]
    <3> TAKE i \in hits
    <3>1. i \in 1 .. Len(c) /\ m \in 1 .. Len(c) /\ m <= i
      BY <2>1, <2>2 DEF m
    <3>2. c[i] \in Nat /\ c[m] \in Nat
      BY <1>1, <3>1
    <3> QED
      BY <1>1, <3>1, <3>2
  <2>4. c[m] \in H /\ \A l \in H : l <= c[m]
    BY <1>4, <1>5, <2>2, <2>3 DEF m
  <2>5. Value(recs, S, v, d, Stored(csr[cur[v].page], v, d)) <=> recs[c[m]].typ = "INSERT"
    <3> DEFINE b == Stored(csr[cur[v].page], v, d)
    <3>1. PICK l : l = c[m]
      OBVIOUS
    <3>2. l \in Hits(recs, S, v, d) /\ \A i \in Hits(recs, S, v, d) : i <= l
      BY <2>4, <3>1
    <3> HIDE DEF b
    <3>3. Value(recs, S, v, d, b) <=> recs[l].typ = "INSERT"
      BY <3>2, ValueTop
    <3> QED
      BY <3>1, <3>3 DEF b
  <2> QED
    BY <1>2, <1>7, <2>5 DEF m
<1> QED
  BY <1>6, <1>7
-----------------------------------------------------------------------------
(* The invariant *)

\* The records of v above b: with the right b, its chain.
Above(R, v, b) == {l \in 1 .. Len(R) : R[l].src = v /\ l > b}

\* The records that page q has to be read with: those of its chain C[q] and
\* those that a job on it has fetched and not merged into new pages yet.
Merging(x) == x.pc \in {"merge", "build"}
Waits(C, J, l, q) ==
  \/ l \in Locs(C[q])
  \/ \E k \in Jobs : Merging(J[k]) /\ J[k].page = q /\ l \in Locs(J[k].ds)
Unmerged(R, C, J, q, v) == {l \in 1 .. Len(R) : R[l].src = v /\ Waits(C, J, l, q)}

\* What job x has not carried to the new pages: the chain of the old page, then
\* the strays it took from there.
Rest(C, x) == IF x.pc \in {"install", "drain"} THEN C[x.page] ELSE x.stray

\* Lists of records are in the order of the appends.
ListsSorted ==
  /\ \A p \in Pages : Increasing(chain[p])
  /\ \A k \in Jobs : Increasing(job[k].ds) /\ Increasing(job[k].stray)

\* The records a job has fetched belong to vertices of its page, and are older
\* than those its chain has received since.
FetchedStored ==
  \A k \in Jobs : Merging(job[k]) =>
    \A l \in Locs(job[k].ds) : /\ recs[l].src \in DOMAIN csr[job[k].page]
                               /\ \A m \in Locs(chain[job[k].page]) : l < m

\* No boundary is noted before the forwarder is installed, and no stray is left
\* when the versions are switched.
BoundariesInPhase ==
  \A k \in Jobs :
    /\ job[k].pc \in {"none", "start", "merge", "build", "install"} =>
         \A v \in Vertices : job[k].tail[v] = 0
    /\ job[k].pc \in {"pending", "final"} => job[k].stray = <<>>

\* The merged graph, and then the new pages, hold the old page with the fetched
\* records applied.
MergedSays(x, v, d) == Value(recs, Locs(x.ds), v, d, Stored(csr[x.page], v, d))
GraphsMerged ==
  \A k \in Jobs : job[k].pc = "build" =>
    \A v \in DOMAIN job[k].graph, d \in Dsts :
      d \in job[k].graph[v] <=> MergedSays(job[k], v, d)
PagesMerged ==
  \A k \in Jobs : \A v \in Moving(job[k]), d \in Dsts :
    d \in csr[job[k].loc[v]][v] <=> MergedSays(job[k], v, d)

\* The newest record of an edge that still has to be carried is the last update
\* of the edge, unless a later update was rerouted.
StraysLast ==
  \A k \in Jobs : \A v \in Moving(job[k]), d \in Dsts :
    (/\ job[k].pc \in {"install", "drain", "strays"}
     /\ <<k, v, d>> \notin hist.rerouted /\ <<v, d>> \notin hist.overtaken
     /\ Hits(recs, Locs(Rest(chain, job[k])), v, d) # {})
    => (Value(recs, Locs(Rest(chain, job[k])), v, d, FALSE) <=> d \in hist.graph[v])

\* The chain of v are its records above floor[v].
ChainsLinked(floor) ==
  \A v \in Vertices :
    floor[v] <= Len(recs) /\ Linked(recs, Above(recs, v, floor[v]), head[v])

\* The chain of a vertex that no job moves is what waits for its page ...
Settled(floor) ==
  \A v \in Vertices :
    (\A k \in Jobs : v \notin Moving(job[k])) =>
      Above(recs, v, floor[v]) = Unmerged(recs, chain, job, cur[v].page, v)

\* ... and that of a vertex that job x moves is, from the boundary up, what
\* waits for the new page; what lies below has been merged, is still to be
\* carried, or is hidden by a record from the boundary up.
CarriedBy(R, S, New, x, rest, v) ==
  /\ New = {l \in S : x.tail[v] # 0 /\ l >= x.tail[v]}
  /\ x.tail[v] # 0 => x.tail[v] \in New
  /\ \A l \in Locs(x.ds) : R[l].src = v => l \in S /\ (x.tail[v] # 0 => l < x.tail[v])
  /\ \A l \in S : \/ l \in Locs(x.ds) \/ l \in Locs(rest)
                  \/ \E m \in New : R[m].dst = R[l].dst
Carried(floor) ==
  \A k \in Jobs : \A v \in Moving(job[k]) :
    CarriedBy(recs, Above(recs, v, floor[v]), Unmerged(recs, chain, job, job[k].loc[v], v),
              job[k], Rest(chain, job[k]), v)

\* Page and chain of a vertex say what the acknowledged updates say.
ChainSays(floor, v, d) ==
  Value(recs, Above(recs, v, floor[v]), v, d, Stored(csr[cur[v].page], v, d))
Exact(floor) ==
  \A v \in Vertices, d \in Dsts :
    \/ <<v, d>> \in hist.overtaken
    \/ Replaying(v, d)
    \/ ChainSays(floor, v, d) <=> d \in hist.graph[v]

EdgesSound(floor) ==
  /\ ListsSorted /\ FetchedStored /\ BoundariesInPhase
  /\ GraphsMerged /\ PagesMerged /\ StraysLast
  /\ ChainsLinked(floor) /\ Settled(floor) /\ Carried(floor) /\ Exact(floor)

\* The inductive invariant, next to CInv and ProtocolInv.
EdgesInv == Lossless => \E floor \in [Vertices -> Nat] : EdgesSound(floor)

\* Records are typed and every link leads to an older one.
LEMMA RecordsNow ==
  ASSUME CInv
  PROVE  /\ recs \in Seq(Records) /\ Len(recs) \in Nat
         /\ \A i \in 1 .. Len(recs) :
              /\ recs[i].src \in Vertices /\ recs[i].typ \in {"INSERT", "DELETE"}
              /\ recs[i].dst \in Dsts /\ recs[i].next \in Nat /\ recs[i].next < i
<1>1. recs \in Seq(Records)
  BY DEF CInv, TypeOK, VerticesTyped
<1>2. Len(recs) \in Nat /\ \A i \in 1 .. Len(recs) : recs[i] \in Records
  BY <1>1
<1>3. \A i \in 1 .. Len(recs) : recs[i].next < i
  BY DEF CInv, TypeOK, LocsValid
<1> QED
  BY <1>1, <1>2, <1>3 DEF Records

\* The invariant says what View computes.
LEMMA EdgesFromInv == CInv /\ EdgesInv => EdgesExact
<1> SUFFICES ASSUME CInv, EdgesInv PROVE EdgesExact
  OBVIOUS
<1>0. DOMAIN cur = Vertices
  BY QuietTypes
<1> SUFFICES ASSUME Lossless, NEW v \in Vertices, NEW d \in Dsts
             PROVE  \/ <<v, d>> \in hist.overtaken
                    \/ Replaying(v, d)
                    \/ d \in View(v) <=> d \in hist.graph[v]
  BY <1>0 DEF EdgesExact
<1>1. PICK floor \in [Vertices -> Nat] : EdgesSound(floor)
  BY DEF EdgesInv
<1> DEFINE S == Above(recs, v, floor[v])
<1>2. /\ Len(recs) \in Nat
      /\ \A i \in 1 .. Len(recs) : recs[i].next \in Nat /\ recs[i].next < i
  BY RecordsNow
<1>3. S \in SUBSET (1 .. Len(recs)) /\ \A l \in S : recs[l].src = v
  BY DEF Above
<1>4. Linked(recs, S, head[v])
  BY <1>1 DEF EdgesSound, ChainsLinked
<1> HIDE DEF S
<1>5. d \in View(v) <=> Value(recs, S, v, d, Stored(csr[cur[v].page], v, d))
  BY <1>2, <1>3, <1>4, ViewIs
<1>6. \/ <<v, d>> \in hist.overtaken
      \/ Replaying(v, d)
      \/ ChainSays(floor, v, d) <=> d \in hist.graph[v]
  BY <1>1 DEF EdgesSound, Exact
<1> QED
  BY <1>5, <1>6 DEF ChainSays, S
-----------------------------------------------------------------------------
(* Steps that touch no record *)

\* Jobs go on with the same vertices and records.
LEMMA JobsGoOn ==
  ASSUME NEW floor, EdgesSound(floor), UNCHANGED <<csr, cur, head, recs, hist>>,
         \A j \in Jobs : Moving(job'[j]) = Moving(job[j]),
         \A j \in Jobs : Moving(job[j]) # {} =>
           /\ job'[j].page = job[j].page /\ job'[j].loc = job[j].loc /\ job'[j].ds = job[j].ds
           /\ job'[j].tail = job[j].tail
           /\ Rest(chain', job'[j]) = Rest(chain, job[j])
           /\ job'[j].pc \in {"install", "drain", "strays"} =>
                job[j].pc \in {"install", "drain", "strays"},
         \A v \in Vertices : (\A j \in Jobs : v \notin Moving(job[j])) =>
           Unmerged(recs, chain', job', cur[v].page, v) = Unmerged(recs, chain, job, cur[v].page, v),
         \A j \in Jobs : \A v \in Moving(job[j]) :
           Unmerged(recs, chain', job', job[j].loc[v], v)
             = Unmerged(recs, chain, job, job[j].loc[v], v),
         \A v \in Vertices, d \in Dsts : Replaying(v, d) => Replaying(v, d)',
         ListsSorted', FetchedStored', BoundariesInPhase', GraphsMerged'
  PROVE  EdgesSound(floor)'
<1>1. PagesMerged'
  BY DEF EdgesSound, PagesMerged, MergedSays
<1>2. StraysLast'
  BY DEF EdgesSound, StraysLast
<1>3. ChainsLinked(floor)'
  BY DEF EdgesSound, ChainsLinked
<1>4. Settled(floor)'
  BY DEF EdgesSound, Settled
<1>5. Carried(floor)'
  <2> SUFFICES ASSUME NEW k \in Jobs, NEW v \in Moving(job[k])
               PROVE  CarriedBy(recs, Above(recs, v, floor[v]),
                                Unmerged(recs, chain', job', job'[k].loc[v], v), job'[k],
                                Rest(chain', job'[k]), v)
    BY DEF Carried
  <2>1. CarriedBy(recs, Above(recs, v, floor[v]), Unmerged(recs, chain, job, job[k].loc[v], v),
                  job[k], Rest(chain, job[k]), v)
    BY DEF EdgesSound, Carried
  <2>2. /\ job'[k].loc = job[k].loc /\ job'[k].ds = job[k].ds /\ job'[k].tail = job[k].tail
        /\ Rest(chain', job'[k]) = Rest(chain, job[k])
        /\ Unmerged(recs, chain', job', job'[k].loc[v], v) = Unmerged(recs, chain, job, job[k].loc[v], v)
    OBVIOUS
  <2> QED
    BY <2>1, <2>2 DEF CarriedBy
<1>6. Exact(floor)'
  <2> SUFFICES ASSUME NEW v \in Vertices, NEW d \in Dsts
               PROVE  (\/ <<v, d>> \in hist.overtaken
                       \/ Replaying(v, d)
                       \/ ChainSays(floor, v, d) <=> d \in hist.graph[v])'
    BY DEF Exact
  <2>1. \/ <<v, d>> \in hist.overtaken
        \/ Replaying(v, d)
        \/ ChainSays(floor, v, d) <=> d \in hist.graph[v]
    BY DEF EdgesSound, Exact
  <2>2. ChainSays(floor, v, d)' <=> ChainSays(floor, v, d)
    BY DEF ChainSays
  <2> QED
    BY <2>1, <2>2
<1> QED
  BY <1>1, <1>2, <1>3, <1>4, <1>5, <1>6 DEF EdgesSound

\* A step that leaves pages, records, lists, jobs and history alone.
LEMMA EdgesKept ==
  ASSUME NEW floor, EdgesSound(floor), UNCHANGED <<csr, cur, head, recs, chain, job, hist>>
  PROVE  EdgesSound(floor)'
<1>1. (ListsSorted /\ FetchedStored /\ BoundariesInPhase)'
  BY DEF EdgesSound, ListsSorted, FetchedStored, BoundariesInPhase
<1>2. GraphsMerged'
  BY DEF EdgesSound, GraphsMerged, MergedSays
<1>3. \A v \in Vertices, d \in Dsts : Replaying(v, d) => Replaying(v, d)'
  BY DEF Replaying
<1> QED
  BY <1>1, <1>2, <1>3, JobsGoOn

\* Job k becomes x: the chains stay as they are.
LEMMA JobTurns ==
  ASSUME NEW floor, EdgesSound(floor), UNCHANGED <<csr, cur, head, recs, chain, hist>>,
         NEW k \in Jobs, NEW x, job'[k] = x, \A j \in Jobs \ {k} : job'[j] = job[j],
         Moving(x) = Moving(job[k]),
         Moving(job[k]) # {} =>
           /\ x.page = job[k].page /\ x.loc = job[k].loc /\ x.ds = job[k].ds
           /\ x.tail = job[k].tail /\ Rest(chain, x) = Rest(chain, job[k])
           /\ x.pc \in {"install", "drain", "strays"} => job[k].pc \in {"install", "drain", "strays"},
         Merging(x) <=> Merging(job[k]),
         Merging(x) => x.page = job[k].page /\ x.ds = job[k].ds,
         x.pc = "build" => \A v \in DOMAIN x.graph, d \in Dsts : d \in x.graph[v] <=> MergedSays(x, v, d),
         Increasing(x.ds), Increasing(x.stray),
         x.pc \in {"none", "start", "merge", "build", "install"} => \A v \in Vertices : x.tail[v] = 0,
         x.pc \in {"pending", "final"} => x.stray = <<>>,
         job[k].pc = "strays" =>
           \/ job[k].stray = <<>>
           \/ x.pc = "strays" /\ x.stray = job[k].stray /\ x.tail = job[k].tail
  PROVE  EdgesSound(floor)'
<1>1. ListsSorted'
  BY DEF EdgesSound, ListsSorted
<1>2. FetchedStored'
  <2> SUFFICES ASSUME NEW j \in Jobs, Merging(job'[j]), NEW l \in Locs(job'[j].ds)
               PROVE  /\ recs[l].src \in DOMAIN csr[job'[j].page]
                      /\ \A m \in Locs(chain[job'[j].page]) : l < m
    BY DEF FetchedStored
  <2>1. Merging(job[j]) /\ job'[j].page = job[j].page /\ l \in Locs(job[j].ds)
    OBVIOUS
  <2> QED
    BY <2>1 DEF EdgesSound, FetchedStored
<1>3. BoundariesInPhase'
  BY DEF EdgesSound, BoundariesInPhase
<1>4. GraphsMerged'
  BY DEF EdgesSound, GraphsMerged, MergedSays
<1>5. \A q, l : Waits(chain', job', l, q) <=> Waits(chain, job, l, q)
  <2>1. \A j \in Jobs : /\ Merging(job'[j]) <=> Merging(job[j])
                        /\ Merging(job[j]) => job'[j].page = job[j].page /\ job'[j].ds = job[j].ds
    OBVIOUS
  <2> QED
    BY <2>1 DEF Waits
<1>6. \A q, v : Unmerged(recs, chain', job', q, v) = Unmerged(recs, chain, job, q, v)
  BY <1>5 DEF Unmerged
<1>7. \A v \in Vertices, d \in Dsts : Replaying(v, d) => Replaying(v, d)'
  <2> SUFFICES ASSUME NEW v \in Vertices, NEW d \in Dsts, Replaying(v, d)
               PROVE  Replaying(v, d)'
    OBVIOUS
  <2>1. PICK j \in Jobs : /\ job[j].pc = "strays" /\ job[j].tail[v] # 0
                          /\ \E i \in DOMAIN job[j].stray :
                               recs[job[j].stray[i]].src = v /\ recs[job[j].stray[i]].dst = d
    BY DEF Replaying
  <2>2. job[j].stray # <<>>
    BY <2>1
  <2>3. job'[j].pc = "strays" /\ job'[j].stray = job[j].stray /\ job'[j].tail = job[j].tail
    BY <2>1, <2>2
  <2> QED
    BY <2>1, <2>3 DEF Replaying
<1> QED
  BY <1>1, <1>2, <1>3, <1>4, <1>6, <1>7, JobsGoOn

\* Job k goes on to the next phase with what it holds.
LEMMA PhaseTurns ==
  ASSUME NEW floor, EdgesSound(floor), UNCHANGED <<csr, cur, head, recs, chain, hist>>,
         NEW k \in Jobs, NEW x, \A j \in Jobs : job'[j] = IF j = k THEN x ELSE job[j],
         x.page = job[k].page, x.loc = job[k].loc, x.published = job[k].published,
         x.ds = job[k].ds, x.stray = job[k].stray, x.tail = job[k].tail,
         \/ job[k].pc = "start" /\ x.pc = "done"
         \/ job[k].pc = "install" /\ x.pc = "drain"
         \/ job[k].pc = "strays" /\ x.pc \in {"pending", "final"} /\ job[k].stray = <<>>
         \/ job[k].pc = "pending" /\ x.pc = "final"
         \/ job[k].pc = "final" /\ x.pc \in {"done", "threw"}
         \/ job[k].pc = x.pc /\ x.pc \in {"final", "done", "threw"}
  PROVE  EdgesSound(floor)'
<1>1. job'[k] = x /\ \A j \in Jobs \ {k} : job'[j] = job[j]
  OBVIOUS
<1>2. Moving(x) = Moving(job[k]) /\ Rest(chain, x) = Rest(chain, job[k])
  BY DEF Moving, Rest
<1>3. ~Merging(x) /\ ~Merging(job[k]) /\ x.pc # "build"
  BY DEF Merging
<1>4. x.pc \in {"install", "drain", "strays"} => job[k].pc \in {"install", "drain", "strays"}
  OBVIOUS
<1>5. Increasing(x.ds) /\ Increasing(x.stray)
  BY DEF EdgesSound, ListsSorted
<1>6. x.pc \in {"none", "start", "merge", "build", "install"} => \A v \in Vertices : x.tail[v] = 0
  OBVIOUS
<1>7. x.pc \in {"pending", "final"} => x.stray = <<>>
  BY DEF EdgesSound, BoundariesInPhase
<1>8. job[k].pc = "strays" => job[k].stray = <<>>
  OBVIOUS
<1> QED
  BY <1>1, <1>2, <1>3, <1>4, <1>5, <1>6, <1>7, <1>8, JobTurns

\* The exit guard of consolidate_pages.
LEMMA EndJobEdges ==
  ASSUME CInv, NEW floor, EdgesSound(floor), UNCHANGED <<csr, cur, head, recs, chain, hist>>,
         NEW k \in Jobs, NEW q, EndJob(k, q),
         \/ job[k].pc = "start" /\ q = "done"
         \/ job[k].pc = "strays" /\ q = "pending" /\ job[k].stray = <<>>
         \/ job[k].pc = "final" /\ q \in {"done", "threw"}
  PROVE  EdgesSound(floor)'
<1>1. PICK x : x = [job[k] EXCEPT !.pc = q, !.held = FALSE]
  OBVIOUS
<1>2. /\ x.pc = q /\ x.page = job[k].page /\ x.loc = job[k].loc /\ x.published = job[k].published
      /\ x.ds = job[k].ds /\ x.stray = job[k].stray /\ x.tail = job[k].tail
  BY <1>1, JobFields DEF JobType
<1>3. job' = [job EXCEPT ![k] = x]
  BY <1>1 DEF EndJob
<1>4. \A j \in Jobs : job'[j] = IF j = k THEN x ELSE job[j]
  BY <1>3, OneJob, Zenon
<1> QED
  BY <1>2, <1>4, PhaseTurns

\* Only the program point of job k changes.
LEMMA PcEdges ==
  ASSUME CInv, NEW floor, EdgesSound(floor), UNCHANGED <<csr, cur, head, recs, chain, hist>>,
         NEW k \in Jobs, NEW q, job' = [job EXCEPT ![k].pc = q],
         \/ job[k].pc = "install" /\ q = "drain"
         \/ job[k].pc = "strays" /\ q = "final" /\ job[k].stray = <<>>
         \/ job[k].pc = "pending" /\ q = "final"
  PROVE  EdgesSound(floor)'
<1>1. PICK x : x = [job[k] EXCEPT !.pc = q]
  OBVIOUS
<1>2. /\ x.pc = q /\ x.page = job[k].page /\ x.loc = job[k].loc /\ x.published = job[k].published
      /\ x.ds = job[k].ds /\ x.stray = job[k].stray /\ x.tail = job[k].tail
  BY <1>1, JobFields DEF JobType
<1>3. job' = [job EXCEPT ![k] = x]
  BY <1>1
<1>4. \A j \in Jobs : job'[j] = IF j = k THEN x ELSE job[j]
  BY <1>3, OneJob, Zenon
<1> QED
  BY <1>2, <1>4, PhaseTurns

\* Installing the forwarder, staging, publishing and detaching only turn a phase.
LEMMA SmoInstallEdges ==
  ASSUME CInv, NEW floor, EdgesSound(floor), NEW k \in Jobs, SmoInstall(k)
  PROVE  EdgesSound(floor)'
<1>1. /\ job[k].pc = "install" /\ job' = [job EXCEPT ![k].pc = "drain"]
      /\ UNCHANGED <<csr, cur, head, recs, chain, hist>>
  BY DEF SmoInstall, pvars
<1> QED
  BY <1>1, PcEdges

LEMMA SmoStageEdges ==
  ASSUME CInv, NEW floor, EdgesSound(floor), NEW k \in Jobs, SmoStage(k)
  PROVE  EdgesSound(floor)'
<1>1. /\ job[k].pc = "strays" /\ job[k].stray = <<>>
      /\ UNCHANGED <<csr, cur, head, recs, chain, hist>>
      /\ EndJob(k, "pending") \/ job' = [job EXCEPT ![k].pc = "final"]
  BY DEF SmoStage, pvars
<1>2. CASE EndJob(k, "pending")
  BY <1>1, <1>2, EndJobEdges
<1>3. CASE job' = [job EXCEPT ![k].pc = "final"]
  BY <1>1, <1>3, PcEdges
<1> QED
  BY <1>1, <1>2, <1>3

LEMMA PublishNextEdges ==
  ASSUME CInv, NEW floor, EdgesSound(floor), NEW k \in Jobs, PublishNext(k)
  PROVE  EdgesSound(floor)'
<1>1. /\ job[k].pc = "pending" /\ job' = [job EXCEPT ![k].pc = "final"]
      /\ UNCHANGED <<csr, cur, head, recs, chain, hist>>
  BY DEF PublishNext, pvars
<1> QED
  BY <1>1, PcEdges

LEMMA SmoDetachEdges ==
  ASSUME CInv, NEW floor, EdgesSound(floor), NEW k \in Jobs, NEW pc \in {"done", "threw"},
         SmoDetach(k, pc)
  PROVE  EdgesSound(floor)'
<1>1. /\ job[k].pc = "final" /\ EndJob(k, pc)
      /\ UNCHANGED <<csr, cur, head, recs, chain, hist>>
  BY DEF SmoDetach, pvars
<1> QED
  BY <1>1, EndJobEdges

\* A freed page number changes nothing that is read.
LEMMA ReclaimEdges ==
  ASSUME CInv, ProtocolSound, NEW floor, EdgesSound(floor), NEW k \in Jobs, Reclaim(k)
  PROVE  EdgesSound(floor)'
<1>1. PICK x : x = [job[k] EXCEPT !.freed = TRUE]
  OBVIOUS
<1>2. /\ job[k].published # {} /\ job' = [job EXCEPT ![k] = x]
      /\ UNCHANGED <<csr, cur, head, recs, chain, hist>>
  BY <1>1 DEF Reclaim
<1>3. /\ x.pc = job[k].pc /\ x.page = job[k].page /\ x.loc = job[k].loc
      /\ x.published = job[k].published
      /\ x.ds = job[k].ds /\ x.stray = job[k].stray /\ x.tail = job[k].tail
  BY <1>1, JobFields DEF JobType
<1>4. \A j \in Jobs : job'[j] = IF j = k THEN x ELSE job[j]
  BY <1>2, OneJob, Zenon
<1>5. job[k].pc \in {"final", "done", "threw"}
  BY <1>2 DEF ProtocolSound, PhasesKnown, PhaseKnown
<1> QED
  BY <1>2, <1>3, <1>4, <1>5, PhaseTurns

\* A job that was started has no record and no vertex yet.
LEMMA WriterClaimEdges ==
  ASSUME CInv, NEW floor, EdgesSound(floor), NEW w \in Writers, WriterClaim(w)
  PROVE  EdgesSound(floor)'
<1>1. UNCHANGED <<csr, cur, head, recs, chain, hist>>
  BY DEF WriterClaim, pvars
<1>2. CASE UNCHANGED job
  BY <1>1, <1>2, EdgesKept
<1>3. CASE ~UNCHANGED job
  <2>1. /\ njobs < MaxJob
        /\ \E p : job' = [job EXCEPT ![njobs + 1] = NewJob(p)]
    BY <1>3 DEF WriterClaim
  <2>2. PICK p : job' = [job EXCEPT ![njobs + 1] = NewJob(p)]
    BY <2>1
  <2>3. PICK k \in Jobs : k = njobs + 1
    BY <2>1, ConsolidationAssumption DEF Jobs, CInv, TypeOK, JobsTyped
  <2>4. job[k].pc = "none"
    BY <2>3 DEF CInv, JobsInOrder, TypeOK, JobsTyped
  <2>5. DOMAIN job[k].loc = {}
    BY <2>4 DEF CInv, LocsInPhase
  <2>6. PICK x : x = NewJob(p)
    OBVIOUS
  <2>13. job' = [job EXCEPT ![k] = x]
    BY <2>2, <2>3, <2>6
  <2>7. \A j \in Jobs : job'[j] = IF j = k THEN x ELSE job[j]
    BY <2>13, OneJob, Zenon
  <2>8. /\ x.pc = "start" /\ x.ds = <<>> /\ x.stray = <<>> /\ DOMAIN x.loc = {}
        /\ \A v \in Vertices : x.tail[v] = 0
    BY <2>6 DEF NewJob, Nothing
  <2>9. Moving(x) = {} /\ Moving(job[k]) = {}
    BY <2>5, <2>8 DEF Moving
  <2>10. ~Merging(x) /\ ~Merging(job[k])
    BY <2>4, <2>8 DEF Merging
  <2>11. Increasing(x.ds) /\ Increasing(x.stray)
    BY <2>8 DEF Increasing
  <2>12. job'[k] = x /\ \A j \in Jobs \ {k} : job'[j] = job[j]
    BY <2>7
  <2> QED
    BY <1>1, <2>4, <2>8, <2>9, <2>10, <2>11, <2>12, JobTurns
<1> QED
  BY <1>2, <1>3

\* A job that moves vertices is between the build and the end, and owns its page.
LEMMA MovingOwns ==
  ASSUME CInv, ProtocolSound, NEW k \in Jobs, Moving(job[k]) # {}
  PROVE  /\ Owning(job[k]) /\ Working(job[k])
         /\ job[k].pc \in {"install", "drain", "strays", "pending", "final"}
<1>1. DOMAIN job[k].loc # {} /\ ~job[k].freed
  BY DEF Moving, ProtocolSound, PhasesKnown, PhaseKnown
<1>2. Owning(job[k]) /\ Working(job[k])
  BY <1>1 DEF Owning, Working
<1>3. job[k].pc \in JobPCs
  BY JobFields DEF JobType, JobPCs
<1>4. job[k].pc \notin {"none", "start", "merge", "build", "done", "threw", "failed"}
  BY <1>1 DEF CInv, LocsInPhase, ProtocolSound, PhasesKnown, PhaseKnown
<1> QED
  BY <1>2, <1>3, <1>4 DEF JobPCs

\* A vertex is moved by one job.
LEMMA OneMover ==
  ASSUME CInv, ProtocolSound, NEW j \in Jobs, NEW k \in Jobs, NEW v \in Moving(job[j]),
         v \in Moving(job[k])
  PROVE  j = k
<1>1. Working(job[j]) /\ Working(job[k])
  BY MovingOwns
<1>2. job[j].page = job[k].page
  BY DEF ProtocolSound, VersionsExpected
<1> QED
  BY <1>1, <1>2 DEF ProtocolSound, PagesApart

\* Lists and boundaries name existing records.
LEMMA ListsNow ==
  ASSUME CInv
  PROVE  /\ \A p \in Pages : /\ chain[p] \in Seq(Nat)
                             /\ \A i \in 1 .. Len(chain[p]) : chain[p][i] \in 1 .. Len(recs)
         /\ \A k \in Jobs :
              /\ job[k].ds \in Seq(Nat) /\ job[k].stray \in Seq(Nat) /\ job[k].page \in Pages
              /\ \A i \in 1 .. Len(job[k].ds) : job[k].ds[i] \in 1 .. Len(recs)
              /\ \A i \in 1 .. Len(job[k].stray) : job[k].stray[i] \in 1 .. Len(recs)
              /\ job[k].tail \in [Vertices -> Nat]
              /\ \A v \in Vertices : job[k].tail[v] <= Len(recs)
<1>1. /\ \A p \in Pages : chain[p] \in Seq(Nat)
      /\ \A p \in Pages : \A i \in 1 .. Len(chain[p]) : chain[p][i] \in 1 .. Len(recs)
  BY DEF CInv, TypeOK, PagesTyped, LocsValid
<1>2. \A k \in Jobs : /\ job[k].ds \in Seq(Nat) /\ job[k].stray \in Seq(Nat) /\ job[k].page \in Pages
                      /\ job[k].tail \in [Vertices -> Nat]
  BY JobFields
<1>3. \A k \in Jobs : /\ \A i \in 1 .. Len(job[k].ds) : job[k].ds[i] \in 1 .. Len(recs)
                      /\ \A i \in 1 .. Len(job[k].stray) : job[k].stray[i] \in 1 .. Len(recs)
                      /\ \A v \in Vertices : job[k].tail[v] <= Len(recs)
  BY DEF CInv, TypeOK, LocsValid
<1> QED
  BY <1>1, <1>2, <1>3

\* The fetch hands the chain of the page over to the job.
LEMMA SmoFetchEdges ==
  ASSUME CInv, ProtocolSound, ProtocolSound', NEW floor, EdgesSound(floor), NEW k \in Jobs,
         SmoFetch(k)
  PROVE  EdgesSound(floor)'
<1>1. PICK p : p = job[k].page
  OBVIOUS
<1>2. CASE get_delta_chain_length(p) < ChainThreshold
  <2>1. /\ job[k].pc = "start" /\ EndJob(k, "done")
        /\ UNCHANGED <<csr, cur, head, recs, chain, hist>>
    BY <1>1, <1>2 DEF SmoFetch, pvars
  <2> QED
    BY <2>1, EndJobEdges
<1>3. CASE ~(get_delta_chain_length(p) < ChainThreshold)
  <2>1. PICK x : x = [job[k] EXCEPT !.pc = "merge", !.ds = chain[p]]
    OBVIOUS
  <2>2. /\ job[k].pc = "start" /\ job' = [job EXCEPT ![k] = x]
        /\ chain' = [chain EXCEPT ![p] = <<>>]
        /\ UNCHANGED <<csr, cur, head, recs, hist>>
    BY <1>1, <1>3, <2>1 DEF SmoFetch, fetch_deltas_with_mark, pvars
  <2>3. /\ x.pc = "merge" /\ x.page = p /\ x.ds = chain[p] /\ x.loc = job[k].loc
        /\ x.published = job[k].published /\ x.stray = job[k].stray /\ x.tail = job[k].tail
    BY <1>1, <2>1, JobFields DEF JobType
  <2>4. job'[k] = x /\ \A j \in Jobs \ {k} : job'[j] = job[j]
    <3>1. \A j \in Jobs : job'[j] = IF j = k THEN x ELSE job[j]
      BY <2>2, OneJob, Zenon
    <3> QED
      BY <3>1
  <2>5. /\ chain'[p] = <<>> /\ p \in Pages /\ \A q \in Pages \ {p} : chain'[q] = chain[q]
    BY <1>1, <2>2, ListsNow DEF CInv, TypeOK, PagesTyped
  <2>6. Moving(x) = {} /\ Moving(job[k]) = {} /\ \A j \in Jobs : Moving(job'[j]) = Moving(job[j])
    BY <2>2, <2>3, <2>4 DEF Moving, CInv, LocsInPhase
  <2>7. \A j \in Jobs \ {k} : Working(job[j]) => job[j].page # p
    <3>1. Working(job'[k])
      BY <2>3, <2>4 DEF Working
    <3>2. \A j \in Jobs : (Working(job'[j]) /\ job'[j].page = job'[k].page) => j = k
      BY <3>1 DEF ProtocolSound, PagesApart
    <3> QED
      BY <2>3, <2>4, <3>2
  <2>8. Locs(<<>>) = {}
    BY DEF Locs
  <2>9. \A q \in Pages : \A l : Waits(chain', job', l, q) <=> Waits(chain, job, l, q)
    <3> SUFFICES ASSUME NEW q \in Pages, NEW l
                 PROVE  Waits(chain', job', l, q) <=> Waits(chain, job, l, q)
      OBVIOUS
    <3>1. ~Merging(job[k]) /\ Merging(job'[k])
      BY <2>2, <2>3, <2>4 DEF Merging
    <3>2. CASE q # p
      BY <2>3, <2>4, <2>5, <3>1, <3>2 DEF Waits
    <3>3. CASE q = p
      <4>1. \A j \in Jobs \ {k} : Merging(job[j]) => job[j].page # p
        BY <2>7 DEF Working, Merging
      <4>2. Waits(chain, job, l, q) <=> l \in Locs(chain[p])
        BY <3>1, <3>3, <4>1 DEF Waits
      <4>3. Waits(chain', job', l, q) <=> l \in Locs(chain[p])
        BY <2>3, <2>4, <2>5, <2>8, <3>1, <3>3, <4>1 DEF Waits
      <4> QED
        BY <4>2, <4>3
    <3> QED
      BY <3>2, <3>3
  <2>10. \A q \in Pages : \A v : Unmerged(recs, chain', job', q, v) = Unmerged(recs, chain, job, q, v)
    BY <2>9 DEF Unmerged
  <2>11. \A v \in Vertices : cur[v].page \in Pages
    BY DEF CInv, TypeOK, VerticesTyped, Versions
  <2>12. \A j \in Jobs : \A v \in Moving(job[j]) : job[j].loc[v] \in Pages
    BY JobFields, PartialElim DEF Moving
  <2>13. \A j \in Jobs : Moving(job[j]) # {} => job'[j] = job[j] /\ job[j].page \in Pages \ {p}
    BY <2>4, <2>6, <2>7, MovingOwns, ListsNow
  <2>14. \A j \in Jobs : Moving(job[j]) # {} => Rest(chain', job'[j]) = Rest(chain, job[j])
    BY <2>5, <2>13 DEF Rest
  <2>15. \A v \in Vertices, d \in Dsts : Replaying(v, d) => Replaying(v, d)'
    BY <2>2, <2>4 DEF Replaying
  <2>16. ListsSorted'
    <3>1. Increasing(<<>>)
      BY DEF Increasing
    <3> QED
      BY <2>3, <2>4, <2>5, <3>1 DEF EdgesSound, ListsSorted
  <2>17. FetchedStored'
    <3> SUFFICES ASSUME NEW j \in Jobs, Merging(job'[j]), NEW l \in Locs(job'[j].ds)
                 PROVE  /\ recs[l].src \in DOMAIN csr[job'[j].page]
                        /\ \A m \in Locs(chain'[job'[j].page]) : l < m
      BY <2>2 DEF FetchedStored
    <3>1. CASE j = k
      <4>1. recs[l].src \in DOMAIN csr[p]
        BY <2>3, <2>4, <2>5, <3>1 DEF ProtocolSound, ChainsStored, Locs
      <4> QED
        BY <2>3, <2>4, <2>5, <2>8, <3>1, <4>1
    <3>2. CASE j # k
      <4>1. job[j].page \in Pages \ {p} /\ job'[j] = job[j] /\ Merging(job[j])
        BY <2>4, <2>7, <3>2, ListsNow DEF Merging, Working
      <4> QED
        BY <2>5, <4>1 DEF EdgesSound, FetchedStored
    <3> QED
      BY <3>1, <3>2
  <2>18. BoundariesInPhase'
    BY <2>2, <2>3, <2>4 DEF EdgesSound, BoundariesInPhase
  <2>19. GraphsMerged'
    BY <2>2, <2>3, <2>4 DEF EdgesSound, GraphsMerged, MergedSays
  <2> QED
    BY <2>2, <2>6, <2>10, <2>11, <2>12, <2>13, <2>14, <2>15, <2>16, <2>17, <2>18, <2>19, JobsGoOn
<1> QED
  BY <1>2, <1>3

\* The merged graph says what the page with the fetched records says.
LEMMA SmoMergeEdges ==
  ASSUME CInv, ProtocolSound, NEW floor, EdgesSound(floor), NEW k \in Jobs, SmoMerge(k)
  PROVE  EdgesSound(floor)'
<1>1. PICK g : g = build_merged_graph(csr[job[k].page], job[k].ds)
  OBVIOUS
<1>2. /\ job[k].pc = "merge" /\ UNCHANGED <<csr, cur, head, recs, chain, hist>>
      /\ IF DOMAIN g = {} THEN EndJob(k, "done")
         ELSE job' = [job EXCEPT ![k].pc = "build", ![k].graph = g]
  BY <1>1 DEF SmoMerge, pvars
<1>3. DOMAIN job[k].loc = {} /\ Moving(job[k]) = {}
  BY <1>2 DEF CInv, LocsInPhase, Moving
<1>4. /\ Increasing(job[k].ds) /\ Increasing(job[k].stray)
      /\ \A v \in Vertices : job[k].tail[v] = 0
  BY <1>2 DEF EdgesSound, ListsSorted, BoundariesInPhase
<1>5. CASE DOMAIN g = {}
  <2>1. PICK x : x = [job[k] EXCEPT !.pc = "done", !.held = FALSE]
    OBVIOUS
  <2>2. /\ x.pc = "done" /\ x.loc = job[k].loc /\ x.ds = job[k].ds /\ x.stray = job[k].stray
    BY <2>1, JobFields DEF JobType
  <2>3. job' = [job EXCEPT ![k] = x]
    BY <1>2, <1>5, <2>1 DEF EndJob
  <2>4. job'[k] = x /\ \A j \in Jobs \ {k} : job'[j] = job[j]
    <3>1. \A j \in Jobs : job'[j] = IF j = k THEN x ELSE job[j]
      BY <2>3, OneJob, Zenon
    <3> QED
      BY <3>1
  <2>5. \A l : l \notin Locs(job[k].ds)
    <3>1. DOMAIN csr[job[k].page] = {}
      BY <1>1, <1>5 DEF build_merged_graph
    <3> QED
      BY <1>2, <3>1 DEF EdgesSound, FetchedStored, Merging
  <2>6. \A q, l : Waits(chain', job', l, q) <=> Waits(chain, job, l, q)
    <3>1. ~Merging(job'[k])
      BY <2>2, <2>4 DEF Merging
    <3> QED
      BY <1>2, <2>4, <2>5, <3>1 DEF Waits
  <2>7. \A q, v : Unmerged(recs, chain', job', q, v) = Unmerged(recs, chain, job, q, v)
    BY <2>6 DEF Unmerged
  <2>8. Moving(x) = {} /\ \A j \in Jobs : Moving(job'[j]) = Moving(job[j])
    BY <1>3, <2>2, <2>4 DEF Moving
  <2>9. \A j \in Jobs : Moving(job[j]) # {} => job'[j] = job[j]
    BY <1>3, <2>4
  <2>10. \A v \in Vertices, d \in Dsts : Replaying(v, d) => Replaying(v, d)'
    BY <1>2, <2>4 DEF Replaying
  <2>11. ListsSorted'
    BY <1>2, <1>4, <2>2, <2>4 DEF EdgesSound, ListsSorted
  <2>12. FetchedStored'
    BY <1>2, <2>2, <2>4 DEF EdgesSound, FetchedStored, Merging
  <2>13. BoundariesInPhase'
    BY <2>2, <2>4 DEF EdgesSound, BoundariesInPhase
  <2>14. GraphsMerged'
    BY <1>2, <2>2, <2>4 DEF EdgesSound, GraphsMerged, MergedSays
  <2> QED
    BY <1>2, <2>7, <2>8, <2>9, <2>10, <2>11, <2>12, <2>13, <2>14, JobsGoOn
<1>6. CASE DOMAIN g # {}
  <2>1. PICK x : x = [job[k] EXCEPT !.pc = "build", !.graph = g]
    OBVIOUS
  <2>2. /\ x.pc = "build" /\ x.graph = g /\ x.page = job[k].page /\ x.loc = job[k].loc
        /\ x.ds = job[k].ds /\ x.stray = job[k].stray /\ x.tail = job[k].tail
    BY <2>1, JobFields DEF JobType
  <2>3. job' = [job EXCEPT ![k] = x]
    BY <1>2, <1>6, <2>1
  <2>4. job'[k] = x /\ \A j \in Jobs \ {k} : job'[j] = job[j]
    <3>1. \A j \in Jobs : job'[j] = IF j = k THEN x ELSE job[j]
      BY <2>3, OneJob, Zenon
    <3> QED
      BY <3>1
  <2>5. Moving(x) = {} /\ Merging(x) /\ Merging(job[k])
    BY <1>2, <1>3, <2>2 DEF Moving, Merging
  <2>6. ASSUME NEW v \in DOMAIN x.graph, NEW d \in Dsts
        PROVE  d \in x.graph[v] <=> MergedSays(x, v, d)
    <3>1. x.graph[v] = MergeOne(csr[job[k].page], job[k].ds, v)
      BY <1>1, <2>2 DEF build_merged_graph
    <3>2. /\ job[k].ds \in Seq(Nat) /\ Len(recs) \in Nat
          /\ \A i \in 1 .. Len(job[k].ds) : job[k].ds[i] \in 1 .. Len(recs)
      BY ListsNow, RecordsNow
    <3>3. d \in MergeOne(csr[job[k].page], job[k].ds, v)
            <=> Value(recs, Locs(job[k].ds), v, d, Stored(csr[job[k].page], v, d))
      BY <1>4, <3>2, MergeOneIs
    <3> QED
      BY <2>2, <3>1, <3>3 DEF MergedSays
  <2> QED
    BY <1>2, <1>3, <1>4, <2>2, <2>4, <2>5, <2>6, JobTurns, ZenonT(60)
<1> QED
  BY <1>5, <1>6

\* The drain takes what the old chain has received since the fetch.
LEMMA SmoDrainEdges ==
  ASSUME CInv, ProtocolSound, NEW floor, EdgesSound(floor), NEW k \in Jobs, SmoDrain(k)
  PROVE  EdgesSound(floor)'
<1>1. PICK p : p = job[k].page
  OBVIOUS
<1>2. PICK x : x = [job[k] EXCEPT !.pc = "strays", !.stray = chain[p]]
  OBVIOUS
<1>3. /\ job[k].pc = "drain" /\ job' = [job EXCEPT ![k] = x]
      /\ chain' = [chain EXCEPT ![p] = <<>>]
      /\ UNCHANGED <<csr, cur, head, recs, hist>>
  BY <1>1, <1>2 DEF SmoDrain, fetch_deltas_with_mark, pvars
<1>4. /\ x.pc = "strays" /\ x.page = p /\ x.ds = job[k].ds /\ x.loc = job[k].loc
      /\ x.published = job[k].published /\ x.stray = chain[p] /\ x.tail = job[k].tail
  BY <1>1, <1>2, JobFields DEF JobType
<1>5. job'[k] = x /\ \A j \in Jobs \ {k} : job'[j] = job[j]
  <2>1. \A j \in Jobs : job'[j] = IF j = k THEN x ELSE job[j]
    BY <1>3, OneJob, Zenon
  <2> QED
    BY <2>1
<1>6. /\ chain'[p] = <<>> /\ p \in Pages /\ \A q \in Pages \ {p} : chain'[q] = chain[q]
  BY <1>1, <1>3, ListsNow DEF CInv, TypeOK, PagesTyped
<1>7. \A j \in Jobs : Moving(job'[j]) = Moving(job[j])
  BY <1>4, <1>5 DEF Moving
<1>8. DOMAIN job[k].loc # {} /\ ~job[k].freed /\ Owning(job[k]) /\ job[k].published = {}
  BY <1>3 DEF ProtocolSound, PhasesKnown, PhaseKnown, Forwarding, Owning
<1>9. \A j \in Jobs \ {k} : Working(job[j]) => job[j].page # p
  BY <1>1, <1>8 DEF ProtocolSound, PagesApart, Working
<1>10. \A q \in Pages \ {p} : \A l : Waits(chain', job', l, q) <=> Waits(chain, job, l, q)
  <2>1. ~Merging(job[k]) /\ ~Merging(job'[k])
    BY <1>3, <1>4, <1>5 DEF Merging
  <2> QED
    BY <1>5, <1>6, <2>1 DEF Waits
<1>11. \A q \in Pages \ {p} : \A v : Unmerged(recs, chain', job', q, v) = Unmerged(recs, chain, job, q, v)
  BY <1>10 DEF Unmerged
<1>12. ASSUME NEW v \in Vertices, \A j \in Jobs : v \notin Moving(job[j])
       PROVE  cur[v].page \in Pages \ {p}
  <2>1. cur[v].page \in Pages
    BY DEF CInv, TypeOK, VerticesTyped, Versions
  <2>2. v \notin DOMAIN job[k].loc
    BY <1>8, <1>12 DEF Moving
  <2>3. v \notin DOMAIN csr[p]
    BY <1>1, <1>8, <2>2 DEF ProtocolSound, PagesCovered
  <2>4. v \in DOMAIN csr[cur[v].page]
    BY DEF ProtocolSound, VerticesStored
  <2> QED
    BY <2>1, <2>3, <2>4
<1>13. ASSUME NEW j \in Jobs, NEW v \in Moving(job[j])
       PROVE  job[j].loc[v] \in Pages \ {p}
  <2>1. job[j].loc[v] \in Pages
    BY JobFields, PartialElim DEF Moving
  <2>2. job[j].loc[v] # p
    BY <1>1, <1>8 DEF ProtocolSound, TargetsApart
  <2> QED
    BY <2>1, <2>2
<1>14. \A j \in Jobs \ {k} : Moving(job[j]) # {} => job[j].page \in Pages \ {p}
  BY <1>9, MovingOwns, ListsNow
<1>15. \A j \in Jobs : Moving(job[j]) # {} => Rest(chain', job'[j]) = Rest(chain, job[j])
  <2>1. Rest(chain', job'[k]) = Rest(chain, job[k])
    BY <1>1, <1>3, <1>4, <1>5 DEF Rest
  <2>2. \A j \in Jobs \ {k} : Moving(job[j]) # {} => chain'[job[j].page] = chain[job[j].page]
    BY <1>6, <1>14
  <2>3. \A j \in Jobs \ {k} : Moving(job[j]) # {} => Rest(chain', job'[j]) = Rest(chain, job[j])
    BY <1>5, <2>2 DEF Rest
  <2> QED
    BY <2>1, <2>3
<1>16. \A j \in Jobs : Moving(job[j]) # {} =>
           /\ job'[j].page = job[j].page /\ job'[j].loc = job[j].loc /\ job'[j].ds = job[j].ds
           /\ job'[j].tail = job[j].tail
           /\ job'[j].pc \in {"install", "drain", "strays"} =>
                job[j].pc \in {"install", "drain", "strays"}
  BY <1>1, <1>3, <1>4, <1>5
<1>17. \A v \in Vertices, d \in Dsts : Replaying(v, d) => Replaying(v, d)'
  BY <1>3, <1>5 DEF Replaying
<1>18. ListsSorted'
  <2>1. Increasing(<<>>)
    BY DEF Increasing
  <2> QED
    BY <1>4, <1>5, <1>6, <2>1 DEF EdgesSound, ListsSorted
<1>19. FetchedStored'
  <2> SUFFICES ASSUME NEW j \in Jobs, Merging(job'[j]), NEW l \in Locs(job'[j].ds)
               PROVE  /\ recs[l].src \in DOMAIN csr[job'[j].page]
                      /\ \A m \in Locs(chain'[job'[j].page]) : l < m
    BY <1>3 DEF FetchedStored
  <2>1. j # k
    BY <1>4, <1>5 DEF Merging
  <2>2. job[j].page \in Pages \ {p} /\ job'[j] = job[j] /\ Merging(job[j])
    BY <1>5, <1>9, <2>1, ListsNow DEF Merging, Working
  <2> QED
    BY <1>6, <2>2 DEF EdgesSound, FetchedStored
<1>20. BoundariesInPhase'
  BY <1>4, <1>5 DEF EdgesSound, BoundariesInPhase
<1>21. GraphsMerged'
  BY <1>3, <1>4, <1>5 DEF EdgesSound, GraphsMerged, MergedSays
<1>22. \A v \in Vertices : (\A j \in Jobs : v \notin Moving(job[j])) =>
         Unmerged(recs, chain', job', cur[v].page, v) = Unmerged(recs, chain, job, cur[v].page, v)
  BY <1>11, <1>12
<1>23. \A j \in Jobs : \A v \in Moving(job[j]) :
         Unmerged(recs, chain', job', job[j].loc[v], v) = Unmerged(recs, chain, job, job[j].loc[v], v)
  BY <1>11, <1>13
<1> QED
  BY <1>3, <1>7, <1>15, <1>16, <1>17, <1>18, <1>19, <1>20, <1>21, <1>22, <1>23, JobsGoOn

\* The records that wait for page p, on which job k works, are its chain and
\* what k has fetched.
LEMMA WaitsFor ==
  ASSUME CInv, ProtocolSound, NEW k \in Jobs, Merging(job[k]), NEW l
  PROVE  Waits(chain, job, l, job[k].page)
           <=> l \in Locs(chain[job[k].page]) \/ l \in Locs(job[k].ds)
<1>1. \A j \in Jobs : (Merging(job[j]) /\ job[j].page = job[k].page) => j = k
  BY DEF ProtocolSound, PagesApart, Working, Merging
<1> QED
  BY <1>1 DEF Waits

\* The new pages take the merged graph; the vertices are now being moved.
LEMMA SmoBuildEdges ==
  ASSUME CInv, ProtocolSound, ProtocolSound', Healthy, Healthy', NEW floor, EdgesSound(floor),
         NEW k \in Jobs, NEW place \in Placements, SmoBuild(k, place)
  PROVE  EdgesSound(floor)'
<1>1. PICK g : g = job[k].graph
  OBVIOUS
<1>2. PICK p : p = job[k].page
  OBVIOUS
<1>3. PICK pgs, x :
           /\ pgs \subseteq Pages
           /\ \A q \in pgs : PageUnused(q)
           /\ \A q \in Pages \ pgs : csr'[q] = csr[q]
           /\ \A v \in DOMAIN g :
                /\ x.loc[v] \in pgs /\ csr'[x.loc[v]][v] = g[v] /\ cur[v].page = p
           /\ DOMAIN x.loc = DOMAIN g
           /\ x.page = p /\ x.pc = "install"
           /\ x.published = job[k].published /\ x.ds = job[k].ds
           /\ x.stray = job[k].stray /\ x.tail = job[k].tail
           /\ job'[k] = x /\ \A j \in Jobs \ {k} : job'[j] = job[j]
           /\ hist' = hist /\ job[k].pc = "build"
  BY <1>1, <1>2, BuildTakes
<1>4. UNCHANGED <<cur, head, recs, chain>>
  BY DEF SmoBuild
<1>5. /\ DOMAIN g \subseteq Vertices /\ DOMAIN csr[p] \subseteq DOMAIN g
      /\ job[k].published = {} /\ DOMAIN job[k].loc = {}
  <2>1. DOMAIN g \subseteq Vertices
    BY <1>1, JobFields, PartialElim
  <2>2. DOMAIN csr[p] \subseteq DOMAIN g
    BY <1>1, <1>2, <1>3 DEF ProtocolSound, PagesCovered
  <2>3. job[k].published = {} /\ DOMAIN job[k].loc = {}
    BY <1>3 DEF ProtocolSound, PhasesKnown, PhaseKnown, CInv, LocsInPhase
  <2> QED
    BY <2>1, <2>2, <2>3
<1>6. /\ Moving(x) = DOMAIN g /\ Moving(job[k]) = {} /\ Merging(job[k]) /\ ~Merging(x)
      /\ \A j \in Jobs \ {k} : Moving(job'[j]) = Moving(job[j])
  BY <1>3, <1>5 DEF Moving, Merging
<1>7. \A j \in Jobs : (Merging(job[j]) \/ Moving(job[j]) # {}) => job[j].page \in Pages \ pgs
  <2> SUFFICES ASSUME NEW j \in Jobs, Merging(job[j]) \/ Moving(job[j]) # {}, job[j].page \in pgs
               PROVE  FALSE
    BY ListsNow
  <2>1. PageUnused(job[j].page)
    BY <1>3
  <2>2. CASE Merging(job[j])
    <3>1. Running(job[j]) /\ ~Lingering(job[j])
      BY <2>2 DEF Merging, Running, Lingering
    <3> QED
      BY <2>1, <3>1 DEF PageUnused
  <2>3. CASE Moving(job[j]) # {}
    BY <2>1, <2>3, MovingOwns DEF PageUnused
  <2> QED
    BY <2>2, <2>3
<1>8. /\ \A v \in Vertices : cur[v].page \in Pages \ pgs
      /\ \A j \in Jobs : \A v \in Moving(job[j]) : job[j].loc[v] \in Pages \ pgs
  <2>1. \A v \in Vertices : cur[v].page \in Pages
    BY DEF CInv, TypeOK, VerticesTyped, Versions
  <2>2. \A j \in Jobs : \A v \in Moving(job[j]) : job[j].loc[v] \in Pages
    BY JobFields, PartialElim DEF Moving
  <2> QED
    BY <1>3, <2>1, <2>2 DEF PageUnused
<1>9. p \in Pages \ pgs
  BY <1>2, <1>6, <1>7
<1>10. \A q \in Pages \ {p} : \A l : Waits(chain', job', l, q) <=> Waits(chain, job, l, q)
  BY <1>2, <1>3, <1>4, <1>6 DEF Waits
<1>11. \A q \in Pages \ {p} : \A v : Unmerged(recs, chain', job', q, v) = Unmerged(recs, chain, job, q, v)
  BY <1>10 DEF Unmerged
<1>12. ASSUME NEW v \in DOMAIN g
       PROVE  /\ \A j \in Jobs : v \notin Moving(job[j])
              /\ Above(recs, v, floor[v]) = Unmerged(recs, chain, job, p, v)
  <2>1. ASSUME NEW j \in Jobs, v \in Moving(job[j]) PROVE FALSE
    <3>1. cur[v].page = job[j].page /\ cur[v].page = job[k].page
      BY <1>2, <1>3, <2>1 DEF ProtocolSound, VersionsExpected
    <3>2. Working(job[j]) /\ Working(job[k])
      BY <1>3, <2>1, MovingOwns DEF Working
    <3>3. j = k
      BY <3>1, <3>2 DEF ProtocolSound, PagesApart
    <3> QED
      BY <1>6, <2>1, <3>3
  <2> QED
    BY <1>3, <1>5, <2>1 DEF EdgesSound, Settled
<1>13. ListsSorted'
  BY <1>3, <1>4 DEF EdgesSound, ListsSorted
<1>14. FetchedStored'
  <2> SUFFICES ASSUME NEW j \in Jobs, Merging(job'[j]), NEW l \in Locs(job'[j].ds)
               PROVE  /\ recs[l].src \in DOMAIN csr'[job'[j].page]
                      /\ \A m \in Locs(chain[job'[j].page]) : l < m
    BY <1>4 DEF FetchedStored
  <2>1. j # k /\ job'[j] = job[j]
    BY <1>3, <1>6
  <2>2. csr'[job[j].page] = csr[job[j].page]
    BY <1>3, <1>7, <2>1
  <2> QED
    BY <2>1, <2>2 DEF EdgesSound, FetchedStored
<1>15. BoundariesInPhase'
  BY <1>3 DEF EdgesSound, BoundariesInPhase
<1>16. \A j \in Jobs : (Merging(job[j]) \/ Moving(job[j]) # {}) => csr'[job[j].page] = csr[job[j].page]
  BY <1>3, <1>7
<1>17. GraphsMerged'
  <2> SUFFICES ASSUME NEW j \in Jobs, job'[j].pc = "build", NEW v \in DOMAIN job'[j].graph, NEW d \in Dsts
               PROVE  d \in job'[j].graph[v] <=> MergedSays(job[j], v, d)'
    BY <1>3 DEF GraphsMerged, MergedSays
  <2>1. j # k /\ job'[j] = job[j] /\ Merging(job[j])
    BY <1>3 DEF Merging
  <2>2. MergedSays(job[j], v, d)' <=> MergedSays(job[j], v, d)
    BY <1>4, <1>16, <2>1 DEF MergedSays
  <2> QED
    BY <2>1, <2>2 DEF EdgesSound, GraphsMerged
<1>18. PagesMerged'
  <2> SUFFICES ASSUME NEW j \in Jobs, NEW v \in Moving(job'[j]), NEW d \in Dsts
               PROVE  d \in csr'[job'[j].loc[v]][v]
                        <=> Value(recs, Locs(job'[j].ds), v, d, Stored(csr'[job'[j].page], v, d))
    BY <1>4 DEF PagesMerged, MergedSays
  <2>1. CASE j = k
    <3>1. v \in DOMAIN g /\ csr'[x.loc[v]][v] = g[v] /\ csr'[p] = csr[p]
      BY <1>3, <1>6, <1>9, <2>1
    <3>2. d \in g[v] <=> Value(recs, Locs(job[k].ds), v, d, Stored(csr[p], v, d))
      BY <1>1, <1>2, <1>3, <3>1 DEF EdgesSound, GraphsMerged, MergedSays
    <3> QED
      BY <1>3, <2>1, <3>1, <3>2
  <2>2. CASE j # k
    <3>1. job'[j] = job[j] /\ v \in Moving(job[j])
      BY <1>3, <2>2
    <3>2. csr'[job[j].loc[v]] = csr[job[j].loc[v]] /\ csr'[job[j].page] = csr[job[j].page]
      BY <1>3, <1>8, <1>16, <3>1
    <3> QED
      BY <3>1, <3>2 DEF EdgesSound, PagesMerged, MergedSays
  <2> QED
    BY <2>1, <2>2
<1>19. StraysLast'
  <2> SUFFICES ASSUME NEW j \in Jobs, NEW v \in Moving(job'[j]), NEW d \in Dsts,
                      job'[j].pc \in {"install", "drain", "strays"},
                      <<j, v, d>> \notin hist.rerouted, <<v, d>> \notin hist.overtaken,
                      Hits(recs, Locs(Rest(chain, job'[j])), v, d) # {}
               PROVE  Value(recs, Locs(Rest(chain, job'[j])), v, d, FALSE) <=> d \in hist.graph[v]
    BY <1>3, <1>4 DEF StraysLast
  <2>1. CASE j # k
    <3>1. job'[j] = job[j]
      BY <1>3, <2>1
    <3> QED
      BY <3>1 DEF EdgesSound, StraysLast
  <2>2. CASE j = k
    <3>1. v \in DOMAIN g /\ v \in Vertices /\ Rest(chain, job'[j]) = chain[p]
      BY <1>3, <1>5, <1>6, <2>2 DEF Rest
    <3> DEFINE C == Locs(chain[p])
               S == Above(recs, v, floor[v])
               n == Len(recs)
    <3>2. n \in Nat /\ C \in SUBSET (1 .. n) /\ S \in SUBSET (1 .. n)
      <4>1. /\ chain[p] \in Seq(Nat) /\ Len(recs) \in Nat
            /\ \A i \in 1 .. Len(chain[p]) : chain[p][i] \in 1 .. Len(recs)
        BY <1>9, ListsNow, RecordsNow
      <4> QED
        BY <4>1, LocsAt DEF Above
    <3>3. /\ \A l \in C : recs[l].src = v => l \in S
          /\ \A l \in S : l \in C \/ l \in Locs(job[k].ds)
      <4>1. \A l \in S : Waits(chain, job, l, p)
        BY <1>12, <3>1 DEF Unmerged
      <4>2. \A l \in C : (l \in 1 .. n /\ recs[l].src = v) => l \in S
        BY <1>12, <3>1 DEF Unmerged, Waits
      <4> QED
        BY <1>2, <1>6, <3>2, <4>1, <4>2, WaitsFor
    <3>4. \A l \in Locs(job[k].ds), m \in C : l < m
      BY <1>2, <1>6 DEF EdgesSound, FetchedStored
    <3>5. ~Replaying(v, d)
      <4> SUFFICES ASSUME Replaying(v, d) PROVE FALSE
        OBVIOUS
      <4>1. PICK i \in Jobs : /\ job[i].pc = "strays"
                              /\ \E m \in DOMAIN job[i].stray : recs[job[i].stray[m]].src = v
        BY DEF Replaying
      <4>2. PICK m \in DOMAIN job[i].stray : recs[job[i].stray[m]].src = v
        BY <4>1
      <4>3. m \in 1 .. Len(job[i].stray)
        BY ListsNow
      <4>4. v \in DOMAIN job[i].loc
        BY <4>1, <4>2, <4>3 DEF ProtocolSound, StraysCovered
      <4>5. v \in Moving(job[i])
        BY <4>1, <4>4 DEF ProtocolSound, PhasesKnown, PhaseKnown, Moving
      <4> QED
        BY <1>12, <3>1, <4>5
    <3>6. ChainSays(floor, v, d) <=> d \in hist.graph[v]
      BY <3>1, <3>5 DEF EdgesSound, Exact
    <3> HIDE DEF C, S, n
    <3>7. PICK l \in Hits(recs, C, v, d) : \A m \in Hits(recs, C, v, d) : m <= l
      BY <3>1, <3>2, HitsTop DEF C
    <3>8. l \in Hits(recs, S, v, d) /\ \A m \in Hits(recs, S, v, d) : m <= l
      <4>1. l \in C /\ l \in Hits(recs, S, v, d)
        BY <3>3, <3>7 DEF Hits
      <4>2. ASSUME NEW m \in Hits(recs, S, v, d) PROVE m <= l
        <5>1. CASE m \in C
          BY <3>7, <4>2, <5>1 DEF Hits
        <5>2. CASE m \in Locs(job[k].ds)
          <6>1. m < l /\ m \in S
            BY <3>4, <4>1, <4>2, <5>2 DEF Hits
          <6>2. m \in Nat /\ l \in Nat
            BY <3>2, <4>1, <6>1
          <6> QED
            BY <6>1, <6>2
        <5> QED
          BY <3>3, <4>2, <5>1, <5>2 DEF Hits
      <4> QED
        BY <4>1, <4>2
    <3>9. Value(recs, C, v, d, FALSE) <=> recs[l].typ = "INSERT"
      BY <3>2, <3>7, ValueTop
    <3>10. Value(recs, S, v, d, Stored(csr[cur[v].page], v, d)) <=> recs[l].typ = "INSERT"
      BY <3>2, <3>8, ValueTop, ZenonT(60)
    <3> QED
      BY <3>1, <3>6, <3>9, <3>10 DEF ChainSays, C, S
  <2> QED
    BY <2>1, <2>2
<1>20. ChainsLinked(floor)'
  BY <1>4 DEF EdgesSound, ChainsLinked
<1>21. Settled(floor)'
  <2> SUFFICES ASSUME NEW v \in Vertices, \A j \in Jobs : v \notin Moving(job'[j])
               PROVE  Above(recs, v, floor[v]) = Unmerged(recs, chain', job', cur[v].page, v)
    BY <1>4 DEF Settled
  <2>1. v \notin DOMAIN g /\ \A j \in Jobs : v \notin Moving(job[j])
    BY <1>3, <1>6
  <2>2. v \in DOMAIN csr[cur[v].page]
    BY DEF ProtocolSound, VerticesStored
  <2>3. cur[v].page \in Pages \ {p}
    BY <1>5, <1>8, <2>1, <2>2
  <2> QED
    BY <1>11, <2>1, <2>3 DEF EdgesSound, Settled
<1>22. Carried(floor)'
  <2> SUFFICES ASSUME NEW j \in Jobs, NEW v \in Moving(job'[j])
               PROVE  CarriedBy(recs, Above(recs, v, floor[v]),
                                Unmerged(recs, chain', job', job'[j].loc[v], v), job'[j],
                                Rest(chain, job'[j]), v)
    BY <1>4 DEF Carried
  <2>1. CASE j # k
    <3>1. job'[j] = job[j] /\ v \in Moving(job[j])
      BY <1>3, <2>1
    <3>2. job[j].loc[v] # p
      <4>1. Owning(x)
        <5>1. Moving(job'[k]) # {} => Owning(job'[k])
          BY DEF ProtocolSound, PhasesKnown, PhaseKnown, Moving, Owning
        <5>2. DOMAIN g # {}
          BY <1>1, <1>3 DEF ProtocolSound, PhasesKnown, PhaseKnown
        <5> QED
          BY <1>3, <1>6, <5>1, <5>2
      <4>2. \A i \in Jobs : \A u \in Moving(job'[i]) : Owning(job'[k]) => job'[i].loc[u] # job'[k].page
        BY DEF ProtocolSound, TargetsApart
      <4> QED
        BY <1>3, <3>1, <4>1, <4>2
    <3>3. Unmerged(recs, chain', job', job[j].loc[v], v) = Unmerged(recs, chain, job, job[j].loc[v], v)
      BY <1>8, <1>11, <3>1, <3>2
    <3> QED
      BY <3>1, <3>3 DEF EdgesSound, Carried
  <2>2. CASE j = k
    <3> DEFINE S == Above(recs, v, floor[v])
               New == Unmerged(recs, chain', job', x.loc[v], v)
    <3>1. v \in DOMAIN g /\ v \in Vertices
      BY <1>3, <1>5, <1>6, <2>2
    <3>2. New = {}
      <4>1. x.loc[v] \in pgs /\ PageUnused(x.loc[v])
        BY <1>3, <3>1
      <4>2. chain[x.loc[v]] = <<>>
        BY <4>1 DEF PageUnused
      <4>3. \A l : l \notin Locs(chain'[x.loc[v]])
        BY <1>4, <4>2 DEF Locs
      <4>4. \A i \in Jobs : Merging(job'[i]) => job'[i].page # x.loc[v]
        BY <1>3, <1>6, <1>7, <4>1
      <4> QED
        BY <4>3, <4>4 DEF Unmerged, Waits
    <3>3. x.tail[v] = 0
      BY <1>3, <3>1 DEF EdgesSound, BoundariesInPhase
    <3>4. S = Unmerged(recs, chain, job, p, v)
      BY <1>12, <3>1
    <3>5. \A l \in S : l \in Locs(chain[p]) \/ l \in Locs(job[k].ds)
      BY <1>2, <1>6, <3>4, WaitsFor DEF Unmerged
    <3>6. \A l \in Locs(job[k].ds) : recs[l].src = v => l \in S
      <4>1. Locs(job[k].ds) \in SUBSET (1 .. Len(recs))
        BY ListsNow, RecordsNow, LocsAt
      <4> QED
        BY <1>2, <1>6, <3>4, <4>1, WaitsFor DEF Unmerged
    <3>7. Rest(chain, x) = chain[p]
      BY <1>3 DEF Rest
    <3> HIDE DEF S, New
    <3>8. CarriedBy(recs, S, New, x, chain[p], v)
      BY <1>3, <3>2, <3>3, <3>5, <3>6 DEF CarriedBy
    <3> QED
      BY <1>3, <2>2, <3>7, <3>8 DEF S, New
  <2> QED
    BY <2>1, <2>2
<1>23. Exact(floor)'
  <2> SUFFICES ASSUME NEW v \in Vertices, NEW d \in Dsts
               PROVE  (\/ <<v, d>> \in hist.overtaken
                       \/ Replaying(v, d)
                       \/ ChainSays(floor, v, d) <=> d \in hist.graph[v])'
    BY DEF Exact
  <2>1. \/ <<v, d>> \in hist.overtaken
        \/ Replaying(v, d)
        \/ ChainSays(floor, v, d) <=> d \in hist.graph[v]
    BY DEF EdgesSound, Exact
  <2>2. ChainSays(floor, v, d)' <=> ChainSays(floor, v, d)
    <3>1. csr'[cur[v].page] = csr[cur[v].page]
      BY <1>3, <1>8
    <3> QED
      BY <1>4, <3>1 DEF ChainSays
  <2>3. Replaying(v, d) => Replaying(v, d)'
    BY <1>3, <1>4 DEF Replaying
  <2> QED
    BY <1>3, <2>1, <2>2, <2>3
<1> QED
  BY <1>13, <1>14, <1>15, <1>17, <1>18, <1>19, <1>20, <1>21, <1>22, <1>23 DEF EdgesSound
-----------------------------------------------------------------------------
(* Steps that append a record *)

\* Records keep what they say.
LEMMA ValueKept ==
  ASSUME NEW R, NEW Q, NEW n \in Nat, NEW T \in SUBSET (1 .. n), NEW u, NEW d, NEW b,
         \A l \in T : Q[l].src = R[l].src /\ Q[l].dst = R[l].dst /\ Q[l].typ = R[l].typ
  PROVE  Value(Q, T, u, d, b) <=> Value(R, T, u, d, b)
<1>1. Hits(Q, T, u, d) = Hits(R, T, u, d)
  BY DEF Hits
<1>2. \A l \in Hits(R, T, u, d) : Q[l].typ = R[l].typ
  BY DEF Hits
<1> QED
  BY <1>1, <1>2, ValueSame

\* A new record decides on its edge, and on no other.
LEMMA ValueAdded ==
  ASSUME NEW R, NEW Q, NEW n \in Nat, NEW T \in SUBSET (1 .. n), NEW U,
         \A l : l \in U <=> l \in T \/ l = n + 1,
         NEW u, NEW d, NEW b, \A l \in T : Q[l] = R[l]
  PROVE  /\ (Q[n + 1].src = u /\ Q[n + 1].dst = d) =>
              (Value(Q, U, u, d, b) <=> Q[n + 1].typ = "INSERT")
         /\ ~(Q[n + 1].src = u /\ Q[n + 1].dst = d) =>
              (Value(Q, U, u, d, b) <=> Value(R, T, u, d, b))
<1>1. PICK m \in Nat : m = n + 1
  OBVIOUS
<1>0. \A l \in T : l \in Nat /\ 1 <= l /\ l <= n
  OBVIOUS
<1>2. m \in U /\ \A l \in U : l \in Nat /\ 1 <= l /\ l <= m
  <2>1. m \in U
    BY <1>1, Zenon
  <2>2. ASSUME NEW l \in U PROVE l \in Nat /\ 1 <= l /\ l <= m
    <3>1. l \in T \/ l = n + 1
      BY Zenon
    <3>2. CASE l \in T
      <4>1. l \in Nat /\ 1 <= l /\ l <= n
        BY <1>0, <3>2
      <4> QED
        BY <1>1, <4>1
    <3>3. CASE l = n + 1
      BY <1>1, <3>3
    <3> QED
      BY <3>1, <3>2, <3>3
  <2> QED
    BY <2>1, <2>2
<1>5. U \in SUBSET (1 .. m)
  BY <1>2
<1>3. ASSUME Q[m].src = u, Q[m].dst = d
      PROVE  Value(Q, U, u, d, b) <=> Q[m].typ = "INSERT"
  <2>1. m \in Hits(Q, U, u, d) /\ \A l \in Hits(Q, U, u, d) : l <= m
    BY <1>2, <1>3 DEF Hits
  <2>2. Hits(Q, U, u, d) \in SUBSET (1 .. m)
    BY <1>5 DEF Hits
  <2>3. Max(Hits(Q, U, u, d)) = m
    BY <2>1, <2>2, MaxIs
  <2> QED
    BY <2>1, <2>3 DEF Value
<1>4. ASSUME ~(Q[m].src = u /\ Q[m].dst = d)
      PROVE  Value(Q, U, u, d, b) <=> Value(R, T, u, d, b)
  <2>1. Hits(Q, U, u, d) = Hits(R, T, u, d)
    BY <1>1, <1>4 DEF Hits
  <2>2. \A l \in Hits(R, T, u, d) : Q[l].typ = R[l].typ
    BY DEF Hits
  <2> QED
    BY <2>1, <2>2, ValueSame
<1> QED
  BY <1>1, <1>3, <1>4

\* A list that ends with a new location.
LEMMA ListGrows ==
  ASSUME NEW s \in Seq(Nat), NEW n \in Nat, \A i \in 1 .. Len(s) : s[i] \in 1 .. n, Increasing(s)
  PROVE  /\ Increasing(Append(s, n + 1))
         /\ \A l : l \in Locs(Append(s, n + 1)) <=> l \in Locs(s) \/ l = n + 1
<1> DEFINE t == Append(s, n + 1)
<1>1. /\ Len(s) \in Nat /\ Len(t) = Len(s) + 1 /\ t[Len(s) + 1] = n + 1
      /\ \A i \in 1 .. Len(s) : t[i] = s[i]
  OBVIOUS
<1> HIDE DEF t
<1>2. \A i \in 1 .. Len(t) : i \in 1 .. Len(s) \/ i = Len(s) + 1
  BY <1>1
<1>3. \A i \in 1 .. Len(s) : i \in 1 .. Len(t)
  BY <1>1
<1>4. Increasing(t)
  <2> SUFFICES ASSUME NEW i \in 1 .. Len(t), NEW j \in 1 .. Len(t), i < j
               PROVE  t[i] < t[j]
    BY DEF Increasing
  <2>1. i \in 1 .. Len(s)
    BY <1>1
  <2>2. CASE j \in 1 .. Len(s)
    BY <1>1, <2>1, <2>2 DEF Increasing
  <2>3. CASE j = Len(s) + 1
    BY <1>1, <2>1, <2>3
  <2> QED
    BY <1>2, <2>2, <2>3
<1>5. \A l : l \in Locs(t) <=> l \in Locs(s) \/ l = n + 1
  <2>1. Len(s) + 1 \in 1 .. Len(t)
    BY <1>1
  <2> QED
    BY <1>1, <1>2, <1>3, <2>1 DEF Locs
<1> QED
  BY <1>4, <1>5 DEF t

\* The chain of v grows by the new record, the other chains stay.
LEMMA ChainGrows ==
  ASSUME CInv, NEW floor \in [Vertices -> Nat], ChainsLinked(floor), NEW v \in Vertices, NEW rec,
         rec.src = v, rec.next = head[v], recs' = Append(recs, rec),
         head' = [head EXCEPT ![v] = Len(recs) + 1]
  PROVE  /\ Len(recs') = Len(recs) + 1 /\ recs'[Len(recs) + 1] = rec
         /\ \A l \in 1 .. Len(recs) : recs'[l] = recs[l]
         /\ Above(recs', v, floor[v]) = Above(recs, v, floor[v]) \cup {Len(recs) + 1}
         /\ \A u \in Vertices \ {v} : Above(recs', u, floor[u]) = Above(recs, u, floor[u])
         /\ ChainsLinked(floor)'
<1> DEFINE n == Len(recs)
<1>1. /\ n \in Nat /\ Len(recs') = n + 1 /\ recs'[n + 1] = rec
      /\ \A l \in 1 .. n : recs'[l] = recs[l]
  BY RecordsNow
<1>2. head'[v] = n + 1 /\ \A u \in Vertices \ {v} : head'[u] = head[u]
  BY DEF CInv, TypeOK, VerticesTyped
<1>3. \A u \in Vertices : floor[u] <= n /\ floor[u] \in Nat
  BY DEF ChainsLinked
<1> HIDE DEF n
<1>4. \A l : l \in 1 .. n + 1 <=> l \in 1 .. n \/ l = n + 1
  BY <1>1
<1>5. Above(recs', v, floor[v]) = Above(recs, v, floor[v]) \cup {n + 1}
  <2>1. n + 1 > floor[v]
    BY <1>1, <1>3
  <2> QED
    BY <1>1, <1>4, <2>1 DEF Above, n
<1>6. \A u \in Vertices \ {v} : Above(recs', u, floor[u]) = Above(recs, u, floor[u])
  BY <1>1, <1>4 DEF Above, n
<1>7. ASSUME NEW u \in Vertices \ {v}
      PROVE  floor[u] <= Len(recs') /\ Linked(recs', Above(recs', u, floor[u]), head'[u])
  <2>1. Linked(recs, Above(recs, u, floor[u]), head[u])
    BY DEF ChainsLinked
  <2>2. \A l \in Above(recs, u, floor[u]) : recs'[l] = recs[l]
    BY <1>1 DEF Above, n
  <2>3. floor[u] <= Len(recs')
    BY <1>1, <1>3
  <2> QED
    BY <1>2, <1>6, <2>1, <2>2, <2>3 DEF Linked
<1>8. floor[v] <= Len(recs') /\ Linked(recs', Above(recs', v, floor[v]), head'[v])
  <2> DEFINE S == Above(recs, v, floor[v])
             T == S \cup {n + 1}
  <2>1. Linked(recs, S, head[v])
    BY DEF ChainsLinked
  <2>2. \A l \in S : recs'[l] = recs[l] /\ l \in Nat /\ l < n + 1
    BY <1>1 DEF Above, n
  <2>3. floor[v] <= Len(recs')
    BY <1>1, <1>3
  <2> HIDE DEF S
  <2>4. IsTop(T, n + 1)
    BY <1>1, <2>2 DEF IsTop
  <2>5. {m \in T : m < n + 1} = S
    BY <1>1, <2>2
  <2>6. IsTop({m \in T : m < n + 1}, recs'[n + 1].next)
    BY <1>1, <2>1, <2>5 DEF Linked
  <2>7. ASSUME NEW l \in S PROVE IsTop({m \in T : m < l}, recs'[l].next)
    <3>1. {m \in T : m < l} = {m \in S : m < l}
      BY <1>1, <2>2
    <3> QED
      BY <2>1, <2>2, <3>1 DEF Linked
  <2>8. Linked(recs', T, n + 1)
    BY <2>4, <2>6, <2>7 DEF Linked
  <2> QED
    BY <1>2, <1>5, <2>3, <2>8 DEF S
<1>9. ChainsLinked(floor)'
  BY <1>7, <1>8 DEF ChainsLinked
<1> QED
  BY <1>1, <1>5, <1>6, <1>9 DEF n

\* The locations of the lists are those of records.
LEMMA LocsNow ==
  ASSUME CInv
  PROVE  /\ \A q \in Pages : Locs(chain[q]) \in SUBSET (1 .. Len(recs))
         /\ \A j \in Jobs : /\ Locs(job[j].ds) \in SUBSET (1 .. Len(recs))
                            /\ Locs(job[j].stray) \in SUBSET (1 .. Len(recs))
                            /\ Locs(Rest(chain, job[j])) \in SUBSET (1 .. Len(recs))
<1>1. Len(recs) \in Nat
  BY RecordsNow
<1>2. \A q \in Pages : Locs(chain[q]) \in SUBSET (1 .. Len(recs))
  BY <1>1, ListsNow, LocsAt
<1>3. \A j \in Jobs : /\ Locs(job[j].ds) \in SUBSET (1 .. Len(recs))
                      /\ Locs(job[j].stray) \in SUBSET (1 .. Len(recs))
                      /\ job[j].page \in Pages
  BY <1>1, ListsNow, LocsAt
<1> QED
  BY <1>2, <1>3 DEF Rest

\* A job that keeps its program point and what it has fetched and placed.
SameWork(x, y) ==
  /\ y.page = x.page /\ y.pc = x.pc /\ y.ds = x.ds /\ y.graph = x.graph
  /\ y.loc = x.loc /\ y.published = x.published

\* Equal work has equal parts.
LEMMA SameWorkFor ==
  ASSUME NEW x, NEW y, SameWork(x, y)
  PROVE  Moving(y) = Moving(x) /\ (Merging(y) <=> Merging(x))
  BY DEF SameWork, Moving, Merging

\* A record of v on the chain of page p waits for that page, and for no other.
LEMMA UnmergedGrows ==
  ASSUME CInv, ListsSorted, NEW v \in Vertices, NEW p \in Pages, NEW rec, rec.src = v,
         recs' = Append(recs, rec), chain' = [chain EXCEPT ![p] = Append(@, Len(recs) + 1)],
         \A j \in Jobs : SameWork(job[j], job'[j])
  PROVE  /\ \A l : l \in Locs(chain'[p]) <=> l \in Locs(chain[p]) \/ l = Len(recs) + 1
         /\ Increasing(chain'[p]) /\ \A q \in Pages \ {p} : chain'[q] = chain[q]
         /\ \A q \in Pages, u \in Vertices : (q # p \/ u # v) =>
              Unmerged(recs', chain', job', q, u) = Unmerged(recs, chain, job, q, u)
         /\ Unmerged(recs', chain', job', p, v)
              = Unmerged(recs, chain, job, p, v) \cup {Len(recs) + 1}
<1> DEFINE n == Len(recs)
<1>1. /\ n \in Nat /\ Len(recs') = n + 1 /\ recs'[n + 1] = rec
      /\ \A l \in 1 .. n : recs'[l] = recs[l]
  BY RecordsNow
<1>2. \A l : l \in 1 .. n + 1 <=> l \in 1 .. n \/ l = n + 1
  BY <1>1
<1>3. n + 1 \notin 1 .. n
  BY <1>1
<1>4. chain'[p] = Append(chain[p], n + 1) /\ \A q \in Pages \ {p} : chain'[q] = chain[q]
  BY DEF CInv, TypeOK, PagesTyped
<1>5. /\ \A l : l \in Locs(chain'[p]) <=> l \in Locs(chain[p]) \/ l = n + 1
      /\ Increasing(chain'[p])
  <2> DEFINE s == chain[p]
  <2>1. s \in Seq(Nat) /\ Increasing(s) /\ \A i \in 1 .. Len(s) : s[i] \in 1 .. n
    BY ListsNow DEF ListsSorted
  <2> HIDE DEF s, n
  <2>2. /\ Increasing(Append(s, n + 1))
        /\ \A l : l \in Locs(Append(s, n + 1)) <=> l \in Locs(s) \/ l = n + 1
    BY <1>1, <2>1, ListGrows
  <2> QED
    BY <1>4, <2>2 DEF s
<1>6. \A q \in Pages : n + 1 \notin Locs(chain[q])
  BY <1>3, LocsNow
<1>7. \A j \in Jobs : n + 1 \notin Locs(job[j].ds)
  BY <1>3, LocsNow
<1>8. \A j \in Jobs : /\ Merging(job'[j]) <=> Merging(job[j])
                      /\ job'[j].page = job[j].page /\ job'[j].ds = job[j].ds
  BY SameWorkFor DEF SameWork
<1> HIDE DEF n
<1>9. \A l, q : (\E j \in Jobs : Merging(job'[j]) /\ job'[j].page = q /\ l \in Locs(job'[j].ds))
                  <=> (\E j \in Jobs : Merging(job[j]) /\ job[j].page = q /\ l \in Locs(job[j].ds))
  BY <1>8
<1>10. \A q \in Pages : ~Waits(chain, job, n + 1, q)
  BY <1>6, <1>7 DEF Waits
<1>11. ASSUME NEW q \in Pages, NEW l
       PROVE  Waits(chain', job', l, q) <=> Waits(chain, job, l, q) \/ (q = p /\ l = n + 1)
  <2>1. l \in Locs(chain'[q]) <=> l \in Locs(chain[q]) \/ (q = p /\ l = n + 1)
    BY <1>4, <1>5
  <2> QED
    BY <1>9, <2>1 DEF Waits
<1>12. ASSUME NEW q \in Pages, NEW u \in Vertices, NEW l
       PROVE  l \in Unmerged(recs', chain', job', q, u)
                <=> l \in Unmerged(recs, chain, job, q, u) \/ (q = p /\ u = v /\ l = n + 1)
  <2>1. CASE l \in 1 .. n
    <3>1. l # n + 1 /\ recs'[l] = recs[l] /\ l \in 1 .. Len(recs')
      BY <1>1, <1>2, <1>3, <2>1
    <3>2. Waits(chain', job', l, q) <=> Waits(chain, job, l, q)
      BY <1>11, <3>1
    <3> QED
      BY <2>1, <3>1, <3>2 DEF Unmerged, n
  <2>2. CASE l = n + 1
    <3>1. l \in 1 .. Len(recs') /\ l \notin 1 .. Len(recs) /\ recs'[l].src = v
      BY <1>1, <1>2, <1>3, <2>2 DEF n
    <3>2. Waits(chain', job', l, q) <=> q = p
      BY <1>10, <1>11, <2>2
    <3> QED
      BY <2>2, <3>1, <3>2 DEF Unmerged
  <2>3. CASE l \notin 1 .. n + 1
    <3>1. l \notin 1 .. Len(recs') /\ l \notin 1 .. Len(recs) /\ l # n + 1
      BY <1>1, <1>2, <2>3 DEF n
    <3> QED
      BY <3>1 DEF Unmerged
  <2> QED
    BY <1>2, <2>1, <2>2, <2>3
<1>13. \A q \in Pages, u \in Vertices : (q # p \/ u # v) =>
         Unmerged(recs', chain', job', q, u) = Unmerged(recs, chain, job, q, u)
  BY <1>12
<1>14. Unmerged(recs', chain', job', p, v) = Unmerged(recs, chain, job, p, v) \cup {n + 1}
  BY <1>12
<1> QED
  BY <1>4, <1>5, <1>13, <1>14 DEF n

\* A record rec of v is added to the chains of v and of page p ...
RecordStep(v, p, rec) ==
  /\ rec.src = v /\ rec.next = head[v]
  /\ recs' = Append(recs, rec) /\ chain' = [chain EXCEPT ![p] = Append(@, Len(recs) + 1)]
  /\ head' = [head EXCEPT ![v] = Len(recs) + 1] /\ UNCHANGED <<csr, cur>>
  /\ \A j \in Jobs : SameWork(job[j], job'[j]) /\ Increasing(job'[j].stray)
  /\ \A j \in Jobs : \A u \in Vertices \ {v} : job'[j].tail[u] = job[j].tail[u]
  /\ BoundariesInPhase'
  /\ (\A j \in Jobs : v \notin Moving(job[j])) => p = cur[v].page

\* ... what a job has to carry grows with it ...
CarriedWith(floor, v, rec) ==
  /\ \A j \in Jobs : v \in Moving(job[j]) =>
       CarriedBy(recs', Above(recs', v, floor[v]), Unmerged(recs', chain', job', job[j].loc[v], v),
                 job'[j], Rest(chain', job'[j]), v)
  /\ \A j \in Jobs : \A u \in Vertices, d \in Dsts : (u # v \/ d # rec.dst) =>
       Hits(recs', Locs(Rest(chain', job'[j])), u, d) = Hits(recs, Locs(Rest(chain, job[j])), u, d)
  /\ \A j \in Jobs :
       (/\ v \in Moving(job[j]) /\ job[j].pc \in {"install", "drain", "strays"}
        /\ <<j, v, rec.dst>> \notin hist'.rerouted /\ <<v, rec.dst>> \notin hist'.overtaken
        /\ Hits(recs', Locs(Rest(chain', job'[j])), v, rec.dst) # {})
       => (Value(recs', Locs(Rest(chain', job'[j])), v, rec.dst, FALSE)
             <=> rec.dst \in hist'.graph[v])

\* ... and it says of its edge what the acknowledged updates say.
SaysWith(v, rec) ==
  /\ \A u \in Vertices, d \in Dsts : (u # v \/ d # rec.dst) =>
       /\ Replaying(u, d) => Replaying(u, d)'
       /\ d \in hist'.graph[u] <=> d \in hist.graph[u]
  /\ hist.overtaken \subseteq hist'.overtaken /\ hist.rerouted \subseteq hist'.rerouted
  /\ \/ <<v, rec.dst>> \in hist'.overtaken
     \/ Replaying(v, rec.dst)'
     \/ rec.typ = "INSERT" <=> rec.dst \in hist'.graph[v]

\* A record appended to the chain of its vertex keeps the invariant, if it keeps what
\* the jobs carry and what the chain says.
LEMMA RecordAdded ==
  ASSUME CInv, ProtocolSound, NEW floor \in [Vertices -> Nat], EdgesSound(floor),
         NEW v \in Vertices, NEW p \in Pages, NEW rec, RecordStep(v, p, rec),
         CarriedWith(floor, v, rec), SaysWith(v, rec)
  PROVE  EdgesSound(floor)'
<1> USE DEF RecordStep, CarriedWith, SaysWith
<1> DEFINE n == Len(recs)
<1>1. /\ n \in Nat /\ Len(recs') = n + 1 /\ recs'[n + 1] = rec
      /\ \A l \in 1 .. n : recs'[l] = recs[l]
  BY RecordsNow
<1>2. /\ Above(recs', v, floor[v]) = Above(recs, v, floor[v]) \cup {n + 1}
      /\ \A u \in Vertices \ {v} : Above(recs', u, floor[u]) = Above(recs, u, floor[u])
      /\ ChainsLinked(floor)'
  <2>1. ChainsLinked(floor)
    BY DEF EdgesSound
  <2> QED
    BY <2>1, ChainGrows
<1>3. /\ \A l : l \in Locs(chain'[p]) <=> l \in Locs(chain[p]) \/ l = n + 1
      /\ Increasing(chain'[p]) /\ \A q \in Pages \ {p} : chain'[q] = chain[q]
      /\ \A q \in Pages, u \in Vertices : (q # p \/ u # v) =>
           Unmerged(recs', chain', job', q, u) = Unmerged(recs, chain, job, q, u)
      /\ Unmerged(recs', chain', job', p, v) = Unmerged(recs, chain, job, p, v) \cup {n + 1}
  <2>1. ListsSorted /\ \A j \in Jobs : SameWork(job[j], job'[j])
    BY DEF EdgesSound
  <2> QED
    BY <2>1, UnmergedGrows
<1>4. \A j \in Jobs : /\ Moving(job'[j]) = Moving(job[j]) /\ (Merging(job'[j]) <=> Merging(job[j]))
                      /\ job'[j].page = job[j].page /\ job'[j].pc = job[j].pc
                      /\ job'[j].ds = job[j].ds /\ job'[j].graph = job[j].graph
                      /\ job'[j].loc = job[j].loc
  BY SameWorkFor DEF SameWork
<1>5. /\ \A q \in Pages : Locs(chain[q]) \in SUBSET (1 .. n)
      /\ \A j \in Jobs : /\ Locs(job[j].ds) \in SUBSET (1 .. n)
                         /\ Locs(Rest(chain, job[j])) \in SUBSET (1 .. n)
                         /\ job[j].page \in Pages
  BY LocsNow, ListsNow
<1>6. \A j \in Jobs : \A u \in Moving(job[j]) : u \in Vertices /\ job[j].loc[u] \in Pages
  BY TargetOpen
<1> HIDE DEF n
<1>7. ListsSorted'
  BY <1>3, <1>4 DEF EdgesSound, ListsSorted, SameWork
<1>8. FetchedStored'
  <2> SUFFICES ASSUME NEW j \in Jobs, Merging(job[j]), NEW l \in Locs(job[j].ds)
               PROVE  /\ recs'[l].src \in DOMAIN csr[job[j].page]
                      /\ \A m \in Locs(chain'[job[j].page]) : l < m
    BY <1>4 DEF FetchedStored
  <2>1. /\ recs[l].src \in DOMAIN csr[job[j].page]
        /\ \A m \in Locs(chain[job[j].page]) : l < m
    BY DEF EdgesSound, FetchedStored
  <2>2. l \in 1 .. n
    BY <1>5
  <2>3. l < n + 1
    BY <1>1, <2>2
  <2>4. \A m \in Locs(chain'[job[j].page]) : m \in Locs(chain[job[j].page]) \/ m = n + 1
    BY <1>3, <1>5
  <2> QED
    BY <1>1, <2>1, <2>2, <2>3, <2>4
<1>9. ASSUME NEW j \in Jobs, NEW u, NEW d
      PROVE  MergedSays(job[j], u, d)' <=> MergedSays(job[j], u, d)
  <2> DEFINE T == Locs(job[j].ds)
             b == Stored(csr[job[j].page], u, d)
  <2>1. T \in SUBSET (1 .. n) /\ \A l \in T : recs'[l] = recs[l]
    BY <1>1, <1>5
  <2> HIDE DEF T, b
  <2>2. Value(recs', T, u, d, b) <=> Value(recs, T, u, d, b)
    BY <1>1, <2>1, ValueKept
  <2> QED
    BY <1>4, <2>2 DEF MergedSays, T, b
<1>10. GraphsMerged' /\ PagesMerged'
  <2>1. GraphsMerged'
    BY <1>4, <1>9 DEF EdgesSound, GraphsMerged
  <2>2. PagesMerged'
    BY <1>4, <1>9 DEF EdgesSound, PagesMerged
  <2> QED
    BY <2>1, <2>2
<1>11. StraysLast'
  <2> SUFFICES ASSUME NEW j \in Jobs, NEW u \in Moving(job[j]), NEW d \in Dsts,
                      job[j].pc \in {"install", "drain", "strays"},
                      <<j, u, d>> \notin hist'.rerouted, <<u, d>> \notin hist'.overtaken,
                      Hits(recs', Locs(Rest(chain', job'[j])), u, d) # {}
               PROVE  Value(recs', Locs(Rest(chain', job'[j])), u, d, FALSE) <=> d \in hist'.graph[u]
    BY <1>4 DEF StraysLast
  <2>1. CASE u = v /\ d = rec.dst
    BY <2>1
  <2>2. CASE u # v \/ d # rec.dst
    <3> DEFINE T == Locs(Rest(chain, job[j]))
               U == Locs(Rest(chain', job'[j]))
    <3>1. u \in Vertices /\ T \in SUBSET (1 .. n)
      BY <1>5, <1>6
    <3>2. Hits(recs', U, u, d) = Hits(recs, T, u, d)
      BY <2>2, <3>1
    <3>3. \A l \in Hits(recs, T, u, d) : recs'[l].typ = recs[l].typ
      BY <1>1, <3>1 DEF Hits
    <3>4. Hits(recs, T, u, d) # {}
      BY <3>2
    <3>5. Value(recs, T, u, d, FALSE) <=> d \in hist.graph[u]
      BY <3>4 DEF EdgesSound, StraysLast
    <3>6. d \in hist'.graph[u] <=> d \in hist.graph[u]
      BY <2>2, <3>1
    <3> HIDE DEF T, U
    <3>7. Value(recs', U, u, d, FALSE) <=> Value(recs, T, u, d, FALSE)
      BY <1>1, <3>1, <3>2, <3>3, ValueSame
    <3> QED
      BY <3>5, <3>6, <3>7 DEF U
  <2> QED
    BY <2>1, <2>2
<1>12. Settled(floor)'
  <2> SUFFICES ASSUME NEW u \in Vertices, \A j \in Jobs : u \notin Moving(job[j])
               PROVE  Above(recs', u, floor[u]) = Unmerged(recs', chain', job', cur[u].page, u)
    BY <1>4 DEF Settled
  <2>1. Above(recs, u, floor[u]) = Unmerged(recs, chain, job, cur[u].page, u)
    BY DEF EdgesSound, Settled
  <2>2. cur[u].page \in Pages
    BY QuietTypes DEF Versions
  <2>3. CASE u = v
    <3>1. cur[v].page = p
      BY <2>3
    <3> QED
      BY <1>2, <1>3, <2>1, <2>3, <3>1
  <2>4. CASE u # v
    BY <1>2, <1>3, <2>1, <2>2, <2>4
  <2> QED
    BY <2>3, <2>4
<1>13. Carried(floor)'
  <2> SUFFICES ASSUME NEW j \in Jobs, NEW u \in Moving(job[j])
               PROVE  CarriedBy(recs', Above(recs', u, floor[u]),
                                Unmerged(recs', chain', job', job[j].loc[u], u), job'[j],
                                Rest(chain', job'[j]), u)
    BY <1>4 DEF Carried
  <2>1. CASE u = v
    BY <2>1
  <2>2. CASE u # v
    <3> DEFINE S == Above(recs, u, floor[u])
               New == Unmerged(recs, chain, job, job[j].loc[u], u)
               rest == Rest(chain, job[j])
               rest1 == Rest(chain', job'[j])
    <3>1. CarriedBy(recs, S, New, job[j], rest, u)
      BY DEF EdgesSound, Carried
    <3>2. u \in Vertices \ {v} /\ job[j].loc[u] \in Pages
      BY <1>6, <2>2
    <3>3. S \in SUBSET (1 .. n) /\ New \in SUBSET (1 .. n) /\ \A l \in S : recs[l].src = u
      BY DEF Above, Unmerged, n
    <3>4. \A l \in S : l \in Locs(rest) => l \in Locs(rest1)
      <4> SUFFICES ASSUME NEW l \in S, l \in Locs(rest) PROVE l \in Locs(rest1)
        OBVIOUS
      <4>1. l \in 1 .. Len(recs)
        BY <3>3 DEF n
      <4>2. recs[l].dst \in Dsts
        BY <4>1, RecordsNow
      <4>3. PICK d \in Dsts : d = recs[l].dst
        BY <4>2
      <4>4. l \in Hits(recs, Locs(rest), u, d)
        BY <3>3, <4>3 DEF Hits
      <4>5. Hits(recs', Locs(rest1), u, d) = Hits(recs, Locs(rest), u, d)
        BY <3>2
      <4>6. l \in Hits(recs', Locs(rest1), u, d)
        BY <4>4, <4>5
      <4> QED
        BY <4>6 DEF Hits
    <3>5. /\ Above(recs', u, floor[u]) = S
          /\ Unmerged(recs', chain', job', job[j].loc[u], u) = New
      BY <1>2, <1>3, <3>2
    <3>6. job'[j].tail[u] = job[j].tail[u] /\ job'[j].ds = job[j].ds
      BY <1>4, <3>2
    <3>7. \A l \in 1 .. n : recs'[l] = recs[l]
      BY <1>1
    <3>8. Locs(job[j].ds) \in SUBSET (1 .. n)
      BY <1>5
    <3> HIDE DEF S, New, rest, rest1
    <3>9. CarriedBy(recs', S, New, job'[j], rest1, u)
      <4>1. \A l \in Locs(job[j].ds) : recs'[l].src = recs[l].src
        BY <3>7, <3>8
      <4>2. \A l \in S, m \in New : recs[m].dst = recs[l].dst => recs'[m].dst = recs'[l].dst
        BY <3>3, <3>7
      <4>3. /\ New = {l \in S : job'[j].tail[u] # 0 /\ l >= job'[j].tail[u]}
            /\ job'[j].tail[u] # 0 => job'[j].tail[u] \in New
        BY <3>1, <3>6 DEF CarriedBy
      <4>4. \A l \in Locs(job'[j].ds) :
              recs'[l].src = u => l \in S /\ (job'[j].tail[u] # 0 => l < job'[j].tail[u])
        <5>1. \A l \in Locs(job[j].ds) :
                recs[l].src = u => l \in S /\ (job[j].tail[u] # 0 => l < job[j].tail[u])
          BY <3>1 DEF CarriedBy
        <5> QED
          BY <3>6, <4>1, <5>1, Zenon
      <4>5. \A l \in S : \/ l \in Locs(job'[j].ds) \/ l \in Locs(rest1)
                        \/ \E m \in New : recs'[m].dst = recs'[l].dst
        <5>1. \A l \in S : \/ l \in Locs(job[j].ds) \/ l \in Locs(rest)
                           \/ \E m \in New : recs[m].dst = recs[l].dst
          BY <3>1 DEF CarriedBy
        <5> SUFFICES ASSUME NEW l \in S
                     PROVE  \/ l \in Locs(job'[j].ds) \/ l \in Locs(rest1)
                            \/ \E m \in New : recs'[m].dst = recs'[l].dst
          OBVIOUS
        <5>2. CASE l \in Locs(job[j].ds)
          BY <3>6, <5>2
        <5>3. CASE l \in Locs(rest)
          BY <3>4, <5>3
        <5>4. CASE \E m \in New : recs[m].dst = recs[l].dst
          BY <4>2, <5>4
        <5> QED
          BY <5>1, <5>2, <5>3, <5>4
      <4> QED
        BY <4>3, <4>4, <4>5 DEF CarriedBy
    <3> QED
      BY <3>5, <3>9 DEF S, New, rest1
  <2> QED
    BY <2>1, <2>2
<1>14. Exact(floor)'
  <2> SUFFICES ASSUME NEW u \in Vertices, NEW d \in Dsts
               PROVE  \/ <<u, d>> \in hist'.overtaken
                      \/ Replaying(u, d)'
                      \/ ChainSays(floor, u, d)' <=> d \in hist'.graph[u]
    BY DEF Exact
  <2> DEFINE S == Above(recs, u, floor[u])
             U == Above(recs', u, floor[u])
             b == Stored(csr[cur[u].page], u, d)
  <2>1. \/ <<u, d>> \in hist.overtaken
        \/ Replaying(u, d)
        \/ Value(recs, S, u, d, b) <=> d \in hist.graph[u]
    BY DEF EdgesSound, Exact, ChainSays
  <2>2. S \in SUBSET (1 .. n) /\ \A l \in S : recs'[l] = recs[l]
    BY <1>1 DEF Above, n
  <2>3. ChainSays(floor, u, d)' <=> Value(recs', U, u, d, b)
    BY DEF ChainSays
  <2>4. u = v => \A l : l \in U <=> l \in S \/ l = n + 1
    BY <1>2
  <2>5. u # v => U = S
    BY <1>2
  <2> HIDE DEF S, U, b
  <2>8. ASSUME \A l : l \in U <=> l \in S \/ l = n + 1
        PROVE
          /\ (recs'[n + 1].src = u /\ recs'[n + 1].dst = d) =>
               (Value(recs', U, u, d, b) <=> recs'[n + 1].typ = "INSERT")
          /\ ~(recs'[n + 1].src = u /\ recs'[n + 1].dst = d) =>
               (Value(recs', U, u, d, b) <=> Value(recs, S, u, d, b))
    <3>1. PICK Q : Q = recs'
      OBVIOUS
    <3>2. PICK R : R = recs
      OBVIOUS
    <3>3. \A l \in S : Q[l] = R[l]
      BY <2>2, <3>1, <3>2
    <3>4. n \in Nat
      BY <1>1
    <3>5. /\ (Q[n + 1].src = u /\ Q[n + 1].dst = d) =>
               (Value(Q, U, u, d, b) <=> Q[n + 1].typ = "INSERT")
          /\ ~(Q[n + 1].src = u /\ Q[n + 1].dst = d) =>
               (Value(Q, U, u, d, b) <=> Value(R, S, u, d, b))
      <4> HIDE <3>1, <3>2
      <4> QED
        BY <2>2, <2>8, <3>3, <3>4, ValueAdded, Zenon
    <3> QED
      BY <3>1, <3>2, <3>5, Zenon
  <2>9. Value(recs', S, u, d, b) <=> Value(recs, S, u, d, b)
    BY <1>1, <2>2, ValueKept
  <2>6. CASE u = v /\ d = rec.dst
    <3>1. Value(recs', U, u, d, b) <=> rec.typ = "INSERT"
      BY <1>1, <2>4, <2>6, <2>8
    <3> QED
      BY <2>3, <2>6, <3>1
  <2>7. CASE u # v \/ d # rec.dst
    <3>1. Value(recs', U, u, d, b) <=> Value(recs, S, u, d, b)
      <4>1. CASE u = v
        BY <1>1, <2>4, <2>7, <2>8, <4>1
      <4>2. CASE u # v
        BY <2>5, <2>9, <4>2
      <4> QED
        BY <4>1, <4>2
    <3>2. /\ Replaying(u, d) => Replaying(u, d)'
          /\ d \in hist'.graph[u] <=> d \in hist.graph[u]
      BY <2>7
    <3> QED
      BY <2>1, <2>3, <3>1, <3>2
  <2> QED
    BY <2>6, <2>7
<1> QED
  BY <1>2, <1>7, <1>8, <1>10, <1>11, <1>12, <1>13, <1>14 DEF EdgesSound

\* A record that reaches the new page of a vertex joins what lies from the
\* boundary up.  Of the records that were to be carried, those of its edge are
\* hidden by it.
LEMMA CarriedGrows ==
  ASSUME CInv, ProtocolSound, NEW floor \in [Vertices -> Nat], EdgesSound(floor),
         NEW k \in Jobs, NEW v \in Moving(job[k]), NEW p, p = job[k].loc[v],
         NEW rec, rec.src = v, rec.next = head[v],
         recs' = Append(recs, rec), chain' = [chain EXCEPT ![p] = Append(@, Len(recs) + 1)],
         head' = [head EXCEPT ![v] = Len(recs) + 1],
         \A j \in Jobs : SameWork(job[j], job'[j]),
         job'[k].tail[v] = IF job[k].tail[v] = 0 THEN Len(recs) + 1 ELSE job[k].tail[v],
         NEW rest,
         \A l \in Locs(Rest(chain, job[k])) : l \in Locs(rest) \/ recs[l].dst = rec.dst
  PROVE  CarriedBy(recs', Above(recs', v, floor[v]), Unmerged(recs', chain', job', p, v), job'[k],
                   rest, v)
<1> DEFINE n == Len(recs)
           S == Above(recs, v, floor[v])
           S1 == Above(recs', v, floor[v])
           New == Unmerged(recs, chain, job, p, v)
           New1 == Unmerged(recs', chain', job', p, v)
           t == job[k].tail[v]
           t1 == job'[k].tail[v]
<1>1. /\ n \in Nat /\ Len(recs') = n + 1 /\ recs'[n + 1] = rec
      /\ \A l \in 1 .. n : recs'[l] = recs[l]
  BY RecordsNow
<1>2. v \in Vertices /\ p \in Pages
  BY TargetOpen
<1>3. \A l : l \in S1 <=> l \in S \/ l = n + 1
  <2>1. ChainsLinked(floor)
    BY DEF EdgesSound
  <2>2. S1 = S \cup {n + 1}
    BY <1>2, <2>1, ChainGrows
  <2> QED
    BY <2>2
<1>4. \A l : l \in New1 <=> l \in New \/ l = n + 1
  <2>1. ListsSorted
    BY DEF EdgesSound
  <2>2. New1 = New \cup {n + 1}
    BY <1>2, <2>1, UnmergedGrows
  <2> QED
    BY <2>2
<1>5. CarriedBy(recs, S, New, job[k], Rest(chain, job[k]), v)
  BY DEF EdgesSound, Carried
<1>6. S \in SUBSET (1 .. n) /\ New \in SUBSET (1 .. n) /\ Locs(job[k].ds) \in SUBSET (1 .. n)
  BY LocsNow DEF Above, Unmerged
<1>7. t \in Nat /\ t <= n /\ t1 = IF t = 0 THEN n + 1 ELSE t
  BY <1>2, ListsNow
<1>8. job'[k].ds = job[k].ds
  BY DEF SameWork
<1> DEFINE old == Rest(chain, job[k])
<1>9. \A l \in Locs(old) : l \in Locs(rest) \/ recs[l].dst = rec.dst
  OBVIOUS
<1> HIDE DEF n, S, S1, New, New1, t, old
<1>10. /\ \A l : l \in New <=> l \in S /\ t # 0 /\ l >= t
       /\ t # 0 => t \in New
       /\ \A l \in Locs(job[k].ds) : recs[l].src = v => l \in S /\ (t # 0 => l < t)
       /\ \A l \in S : \/ l \in Locs(job[k].ds) \/ l \in Locs(old)
                       \/ \E m \in New : recs[m].dst = recs[l].dst
  BY <1>5 DEF CarriedBy, t, old
<1>11. \A l \in S : l \in Nat /\ l <= n
  BY <1>1, <1>6
<1>12. New1 = {l \in S1 : t1 # 0 /\ l >= t1}
  <2>1. ASSUME NEW l PROVE l \in New1 <=> l \in S1 /\ t1 # 0 /\ l >= t1
    <3>1. CASE l = n + 1
      <4>1. l \in New1 /\ l \in S1
        BY <1>3, <1>4, <3>1
      <4>2. t1 # 0 /\ l >= t1
        BY <1>1, <1>7, <3>1
      <4> QED
        BY <4>1, <4>2
    <3>2. CASE l # n + 1 /\ l \in S
      <4>1. l \in S1 /\ (l \in New1 <=> l \in New) /\ l \in Nat /\ l <= n
        BY <1>3, <1>4, <1>11, <3>2
      <4>2. CASE t = 0
        <5>1. t1 = n + 1 /\ l \notin New /\ ~(l >= n + 1)
          BY <1>1, <1>7, <1>10, <4>1, <4>2
        <5> QED
          BY <4>1, <5>1
      <4>3. CASE t # 0
        <5>1. t1 = t
          BY <1>7, <4>3
        <5> QED
          BY <1>10, <3>2, <4>1, <4>3, <5>1
      <4> QED
        BY <4>2, <4>3
    <3>3. CASE l # n + 1 /\ l \notin S
      BY <1>3, <1>4, <1>10, <3>3
    <3> QED
      BY <3>1, <3>2, <3>3
  <2> HIDE DEF t1
  <2> QED
    BY <2>1
<1>13. t1 # 0 => t1 \in New1
  <2>1. CASE t = 0
    BY <1>4, <1>7, <2>1
  <2>2. CASE t # 0
    BY <1>4, <1>7, <1>10, <2>2
  <2> QED
    BY <2>1, <2>2
<1>14. \A l \in Locs(job[k].ds) : recs'[l].src = v => l \in S1 /\ (t1 # 0 => l < t1)
  <2> SUFFICES ASSUME NEW l \in Locs(job[k].ds), recs'[l].src = v
               PROVE  l \in S1 /\ (t1 # 0 => l < t1)
    OBVIOUS
  <2>1. l \in 1 .. n
    BY <1>6
  <2>2. recs[l].src = v
    BY <1>1, <2>1
  <2>3. l \in S /\ (t # 0 => l < t)
    BY <1>10, <2>2
  <2>4. l < n + 1
    BY <1>1, <2>1
  <2> QED
    BY <1>3, <1>7, <2>3, <2>4
<1>15. \A l \in S1 : \/ l \in Locs(job[k].ds) \/ l \in Locs(rest)
                     \/ \E m \in New1 : recs'[m].dst = recs'[l].dst
  <2> SUFFICES ASSUME NEW l \in S1
               PROVE  \/ l \in Locs(job[k].ds) \/ l \in Locs(rest)
                      \/ \E m \in New1 : recs'[m].dst = recs'[l].dst
    OBVIOUS
  <2>1. CASE l = n + 1
    <3>1. l \in New1
      BY <1>4, <2>1
    <3> QED
      BY <3>1
  <2>2. CASE l \in S
    <3>1. l \in 1 .. n /\ recs'[l] = recs[l]
      BY <1>1, <1>6, <2>2
    <3>2. CASE l \in Locs(old) /\ l \notin Locs(rest)
      <4>1. recs[l].dst = rec.dst
        BY <1>9, <3>2
      <4>2. n + 1 \in New1 /\ recs'[n + 1].dst = recs'[l].dst
        BY <1>1, <1>4, <3>1, <4>1
      <4> QED
        BY <4>2
    <3>3. CASE \E m \in New : recs[m].dst = recs[l].dst
      <4>1. PICK m \in New : recs[m].dst = recs[l].dst
        BY <3>3
      <4>2. m \in New1 /\ recs'[m] = recs[m]
        BY <1>1, <1>4, <1>6
      <4> QED
        BY <3>1, <4>1, <4>2
    <3> QED
      BY <1>10, <2>2, <3>2, <3>3
  <2> QED
    BY <1>3, <2>1, <2>2
<1> QED
  BY <1>8, <1>12, <1>13, <1>14, <1>15 DEF CarriedBy, S1, New1

\* What the append of a writer does: either to the page of the vertex, which has
\* no forwarder, or to the new page where a job moves the vertex.
LEMMA WriterAppends ==
  ASSUME CInv, ProtocolSound, Healthy, Healthy', NEW w \in Writers, WriterAppend(w)
  PROVE  \E v, k, p, rec :
           /\ v \in Vertices /\ p \in Pages /\ rec.src = v /\ rec.next = head[v]
           /\ rec.dst \in Dsts /\ recs' = Append(recs, rec)
           /\ chain' = [chain EXCEPT ![p] = Append(@, Len(recs) + 1)]
           /\ head' = [head EXCEPT ![v] = Len(recs) + 1] /\ UNCHANGED <<csr, cur>>
           /\ hist'.overtaken = hist.overtaken /\ hist.rerouted \subseteq hist'.rerouted
           /\ \A u \in Vertices, d \in Dsts : (u # v \/ d # rec.dst) =>
                (d \in hist'.graph[u] <=> d \in hist.graph[u])
           /\ rec.typ = "INSERT" <=> rec.dst \in hist'.graph[v]
           /\ \A j \in Jobs : SameWork(job[j], job'[j]) /\ job'[j].stray = job[j].stray
           /\ \/ job' = job /\ p = cur[v].page /\ fwd[p] = 0
              \/ /\ k \in Jobs /\ v \in Moving(job[k]) /\ p = job[k].loc[v]
                 /\ job[k].pc \in Forwarding /\ <<k, v, rec.dst>> \in hist'.rerouted
                 /\ job'[k].tail = note_rerouted_tail(job[k].tail, v, Len(recs) + 1)
                 /\ \A j \in Jobs \ {k} : job'[j] = job[j]
<1>1. PICK v : v = wr[w].v
  OBVIOUS
<1>2. PICK k : k = wr[w].fwd
  OBVIOUS
<1>3. PICK p : p = IF wr[w].rerouted THEN job[k].loc[v] ELSE wr[w].ver.page
  OBVIOUS
<1>4. PICK d : d = wr[w].d
  OBVIOUS
<1>5. PICK rec : rec = Record(v, wr[w].typ, d, head[v])
  OBVIOUS
<1>6. /\ wr[w].pc = "append" /\ recs' = Append(recs, rec)
      /\ chain' = [chain EXCEPT ![p] = Append(@, Len(recs) + 1)]
      /\ head' = [head EXCEPT ![v] = Len(recs) + 1] /\ UNCHANGED <<csr, cur>>
  BY <1>1, <1>2, <1>3, <1>4, <1>5 DEF WriterAppend, pvars
<1>7. rec.src = v /\ rec.dst = d /\ rec.next = head[v] /\ rec.typ = wr[w].typ
  BY <1>5 DEF Record
<1>8. /\ wr[w] \in Updating /\ v \in Vertices /\ wr[w].ver.page \in Pages /\ d \in Dsts
      /\ wr[w].rerouted \in BOOLEAN /\ WriterKnown(w, wr[w]) /\ wr[w].typ \in {"INSERT", "DELETE"}
  BY <1>1, <1>4, <1>6, WriterFields DEF ProtocolSound, WritersKnown
<1>9. wr[w].ver = cur[v]
  BY <1>1, <1>6, <1>8 DEF WriterKnown
<1>10. wr[w].rerouted => k \in Jobs /\ v \in Moving(job[k]) /\ job[k].pc \in Forwarding
  BY <1>1, <1>2, <1>6, <1>8 DEF WriterKnown, CInv, RoutesResolve
<1>11. PICK g : g = [hist.graph EXCEPT ![v] = IF wr[w].typ = "INSERT" THEN @ \cup {d} ELSE @ \ {d}]
  OBVIOUS
<1>12. PICK r : r = IF wr[w].rerouted THEN hist.rerouted \cup {<<k, v, d>>} ELSE hist.rerouted
  OBVIOUS
<1>13. /\ hist'.graph = g /\ hist'.rerouted = r /\ hist'.overtaken = hist.overtaken
       /\ hist'.races = IF fwd[p] # 0 THEN hist.races \cup {"late append"} ELSE hist.races
  <2>1. hist \in Histories
    BY QuietTypes
  <2>2. hist' = [hist EXCEPT !.graph = g,
                             !.races = IF fwd[p] # 0 THEN @ \cup {"late append"} ELSE @,
                             !.rerouted = r]
    BY <1>1, <1>2, <1>3, <1>4, <1>11, <1>12 DEF WriterAppend
  <2> QED
    BY <2>1, <2>2 DEF Histories
<1>14. fwd[p] = 0
  <2> SUFFICES ASSUME fwd[p] # 0 PROVE FALSE
    OBVIOUS
  <2>1. "late append" \in hist'.races
    BY <1>13
  <2>2. "late append" \in {"dropped"}
    BY <2>1, Zenon DEF Healthy
  <2> QED
    BY <2>2
<1>15. /\ hist.rerouted \subseteq hist'.rerouted
       /\ wr[w].rerouted => <<k, v, d>> \in hist'.rerouted
  BY <1>12, <1>13
<1>16. /\ \A u \in Vertices, e \in Dsts : (u # v \/ e # d) =>
            (e \in hist'.graph[u] <=> e \in hist.graph[u])
       /\ rec.typ = "INSERT" <=> d \in hist'.graph[v]
  <2>1. hist.graph \in [Vertices -> SUBSET Dsts]
    BY QuietTypes DEF Histories
  <2>2. \A u \in Vertices : u # v => g[u] = hist.graph[u]
    BY <1>11, <2>1
  <2>3. g[v] = IF wr[w].typ = "INSERT" THEN hist.graph[v] \cup {d} ELSE hist.graph[v] \ {d}
    BY <1>8, <1>11, <2>1
  <2>4. \A e \in Dsts : e # d => (e \in g[v] <=> e \in hist.graph[v])
    BY <2>3
  <2>5. d \in g[v] <=> wr[w].typ = "INSERT"
    BY <2>3
  <2> QED
    BY <1>7, <1>13, <2>2, <2>4, <2>5
<1>17. CASE ~wr[w].rerouted
  <2>1. job' = job /\ p = cur[v].page /\ p \in Pages
    BY <1>3, <1>8, <1>9, <1>17 DEF WriterAppend
  <2>2. \A j \in Jobs : SameWork(job[j], job'[j]) /\ job'[j].stray = job[j].stray
    BY <2>1 DEF SameWork
  <2> QED
    BY <1>6, <1>7, <1>8, <1>13, <1>14, <1>15, <1>16, <2>1, <2>2, ZenonT(60)
<1>18. CASE wr[w].rerouted
  <2>1. PICK t : t = note_rerouted_tail(job[k].tail, v, Len(recs) + 1)
    OBVIOUS
  <2>2. PICK x : x = [job[k] EXCEPT !.tail = t]
    OBVIOUS
  <2>3. job' = [job EXCEPT ![k] = x]
    BY <1>1, <1>2, <1>18, <2>1, <2>2 DEF WriterAppend
  <2>4. SameWork(job[k], x) /\ x.stray = job[k].stray /\ x.tail = t
    BY <1>10, <1>18, <2>2, JobFields DEF JobType, SameWork
  <2>5. \A j \in Jobs : job'[j] = IF j = k THEN x ELSE job[j]
    BY <1>10, <1>18, <2>3, OneJob
  <2>6. job'[k] = x /\ \A j \in Jobs \ {k} : job'[j] = job[j]
    BY <1>10, <1>18, <2>5, Zenon
  <2>7. \A j \in Jobs : SameWork(job[j], job'[j]) /\ job'[j].stray = job[j].stray
    BY <2>4, <2>6 DEF SameWork
  <2>8. /\ k \in Jobs /\ v \in Moving(job[k]) /\ p = job[k].loc[v] /\ job[k].pc \in Forwarding
        /\ <<k, v, rec.dst>> \in hist'.rerouted
    BY <1>3, <1>7, <1>10, <1>15, <1>18
  <2>9. p \in Pages
    BY <2>8, TargetOpen
  <2>10. job'[k].tail = note_rerouted_tail(job[k].tail, v, Len(recs) + 1)
    BY <2>1, <2>4, <2>6
  <2> QED
    BY <1>6, <1>7, <1>8, <1>13, <1>15, <1>16, <2>6, <2>7, <2>8, <2>9, <2>10
<1> QED
  BY <1>8, <1>17, <1>18

\* An append of a writer is such a record, and the latest update of its edge.
LEMMA WriterAppendEdges ==
  ASSUME CInv, ProtocolSound, Healthy, Healthy', NEW floor \in [Vertices -> Nat],
         EdgesSound(floor), NEW w \in Writers, WriterAppend(w)
  PROVE  EdgesSound(floor)'
<1>1. PICK v, k, p, rec :
        /\ v \in Vertices /\ p \in Pages /\ rec.src = v /\ rec.next = head[v]
        /\ rec.dst \in Dsts /\ recs' = Append(recs, rec)
        /\ chain' = [chain EXCEPT ![p] = Append(@, Len(recs) + 1)]
        /\ head' = [head EXCEPT ![v] = Len(recs) + 1] /\ UNCHANGED <<csr, cur>>
        /\ hist'.overtaken = hist.overtaken /\ hist.rerouted \subseteq hist'.rerouted
        /\ \A u \in Vertices, d \in Dsts : (u # v \/ d # rec.dst) =>
             (d \in hist'.graph[u] <=> d \in hist.graph[u])
        /\ rec.typ = "INSERT" <=> rec.dst \in hist'.graph[v]
        /\ \A j \in Jobs : SameWork(job[j], job'[j]) /\ job'[j].stray = job[j].stray
        /\ \/ job' = job /\ p = cur[v].page /\ fwd[p] = 0
           \/ /\ k \in Jobs /\ v \in Moving(job[k]) /\ p = job[k].loc[v]
              /\ job[k].pc \in Forwarding /\ <<k, v, rec.dst>> \in hist'.rerouted
              /\ job'[k].tail = note_rerouted_tail(job[k].tail, v, Len(recs) + 1)
              /\ \A j \in Jobs \ {k} : job'[j] = job[j]
  BY WriterAppends
<1> DEFINE n == Len(recs)
           Kept == job' = job /\ p = cur[v].page /\ fwd[p] = 0
           Rerouted == /\ k \in Jobs /\ v \in Moving(job[k]) /\ p = job[k].loc[v]
                       /\ job[k].pc \in Forwarding /\ <<k, v, rec.dst>> \in hist'.rerouted
                       /\ job'[k].tail = note_rerouted_tail(job[k].tail, v, n + 1)
                       /\ \A j \in Jobs \ {k} : job'[j] = job[j]
<1>2. Kept \/ Rerouted
  BY <1>1
<1>3. /\ n \in Nat /\ Len(recs') = n + 1 /\ recs'[n + 1] = rec
      /\ \A l \in 1 .. n : recs'[l] = recs[l]
  BY <1>1, RecordsNow
<1>4. \A j \in Jobs : SameWork(job[j], job'[j]) /\ job'[j].stray = job[j].stray
  BY <1>1
<1>5. \A j \in Jobs : Increasing(job'[j].stray)
  BY <1>4 DEF EdgesSound, ListsSorted
<1>6. \A j \in Jobs : /\ job[j].tail \in [Vertices -> Nat] /\ job[j].page \in Pages
                      /\ \A u \in Vertices : job[j].tail[u] <= n
  BY ListsNow
<1>7. Rerouted => /\ job'[k].tail[v] = IF job[k].tail[v] = 0 THEN n + 1 ELSE job[k].tail[v]
                  /\ \A u \in Vertices \ {v} : job'[k].tail[u] = job[k].tail[u]
  BY <1>1, <1>6 DEF note_rerouted_tail
<1>8. /\ \A l : l \in Locs(chain'[p]) <=> l \in Locs(chain[p]) \/ l = n + 1
      /\ \A q \in Pages \ {p} : chain'[q] = chain[q]
      /\ \A q \in Pages, u \in Vertices : (q # p \/ u # v) =>
           Unmerged(recs', chain', job', q, u) = Unmerged(recs, chain, job, q, u)
  <2>1. ListsSorted
    BY DEF EdgesSound
  <2> QED
    BY <1>1, <1>4, <2>1, UnmergedGrows
<1>9. \A l : l \in Above(recs', v, floor[v]) <=> l \in Above(recs, v, floor[v]) \/ l = n + 1
  <2>1. ChainsLinked(floor)
    BY DEF EdgesSound
  <2>2. Above(recs', v, floor[v]) = Above(recs, v, floor[v]) \cup {n + 1}
    BY <1>1, <2>1, ChainGrows
  <2> QED
    BY <2>2
<1>10. /\ \A q \in Pages : Locs(chain[q]) \in SUBSET (1 .. n)
       /\ \A j \in Jobs : /\ Locs(job[j].ds) \in SUBSET (1 .. n)
                          /\ Locs(Rest(chain, job[j])) \in SUBSET (1 .. n)
  BY LocsNow
<1> HIDE DEF n, Kept, Rerouted
<1>11. \A j \in Jobs : \A u \in Vertices \ {v} : job'[j].tail[u] = job[j].tail[u]
  <2>1. CASE Kept
    BY <2>1 DEF Kept
  <2>2. CASE Rerouted
    BY <1>7, <2>2 DEF Rerouted
  <2> QED
    BY <1>2, <2>1, <2>2
<1>12. \A j \in Jobs : job[j].tail[v] # 0 => job'[j].tail[v] # 0
  <2>1. CASE Kept
    BY <2>1 DEF Kept
  <2>2. CASE Rerouted
    BY <1>7, <2>2 DEF Rerouted
  <2> QED
    BY <1>2, <2>1, <2>2
<1>13. BoundariesInPhase'
  <2>1. BoundariesInPhase
    BY DEF EdgesSound
  <2>2. \A j \in Jobs : job'[j].pc = job[j].pc /\ job'[j].stray = job[j].stray
    BY <1>4 DEF SameWork
  <2>3. CASE Kept
    BY <2>1, <2>3 DEF Kept, BoundariesInPhase
  <2>4. CASE Rerouted
    <3>1. \A j \in Jobs : job[j].pc \in {"none", "start", "merge", "build", "install"} =>
            job'[j] = job[j]
      BY <2>4 DEF Rerouted, Forwarding
    <3> QED
      BY <2>1, <2>2, <3>1 DEF BoundariesInPhase
  <2> QED
    BY <1>2, <2>3, <2>4
<1>14. \A j \in Jobs : Rest(chain', job'[j]) = Rest(chain, job[j])
                       \/ (/\ job[j].pc \in {"install", "drain"} /\ job[j].page = p
                           /\ Rest(chain', job'[j]) = chain'[p] /\ Rest(chain, job[j]) = chain[p])
  BY <1>4, <1>6, <1>8 DEF Rest, SameWork
<1>15. ASSUME NEW j \in Jobs, NEW u \in Vertices, NEW d \in Dsts, u # v \/ d # rec.dst
       PROVE  Hits(recs', Locs(Rest(chain', job'[j])), u, d) = Hits(recs, Locs(Rest(chain, job[j])), u, d)
  <2> DEFINE T == Locs(Rest(chain, job[j]))
             U == Locs(Rest(chain', job'[j]))
  <2>1. T \in SUBSET (1 .. n) /\ \A l \in T : recs'[l] = recs[l]
    BY <1>3, <1>10
  <2>2. \A l : l \in U => l \in T \/ l = n + 1
    BY <1>8, <1>14
  <2>3. \A l : l \in T => l \in U
    BY <1>8, <1>14
  <2>4. ~(recs'[n + 1].src = u /\ recs'[n + 1].dst = d)
    BY <1>1, <1>3, <1>15
  <2> HIDE DEF T, U
  <2>5. Hits(recs', U, u, d) = Hits(recs, T, u, d)
    BY <2>1, <2>2, <2>3, <2>4 DEF Hits
  <2> QED
    BY <2>5 DEF T, U
<1>16. \A u \in Vertices, d \in Dsts : Replaying(u, d) => Replaying(u, d)'
  <2> SUFFICES ASSUME NEW u \in Vertices, NEW d \in Dsts, Replaying(u, d) PROVE Replaying(u, d)'
    OBVIOUS
  <2>1. PICK j \in Jobs : /\ job[j].pc = "strays" /\ job[j].tail[u] # 0
                          /\ \E i \in DOMAIN job[j].stray :
                               recs[job[j].stray[i]].src = u /\ recs[job[j].stray[i]].dst = d
    BY DEF Replaying
  <2>2. PICK i \in DOMAIN job[j].stray :
          recs[job[j].stray[i]].src = u /\ recs[job[j].stray[i]].dst = d
    BY <2>1
  <2>3. job[j].stray[i] \in 1 .. n
    <3>1. /\ job[j].stray \in Seq(Nat)
          /\ \A m \in 1 .. Len(job[j].stray) : job[j].stray[m] \in 1 .. n
      BY ListsNow DEF n
    <3> QED
      BY <3>1
  <2>4. job'[j].tail[u] # 0
    BY <1>11, <1>12, <2>1
  <2>5. job'[j].pc = "strays" /\ job'[j].stray = job[j].stray
    BY <1>4, <2>1 DEF SameWork
  <2>6. recs'[job'[j].stray[i]].src = u /\ recs'[job'[j].stray[i]].dst = d
    BY <1>3, <2>2, <2>3, <2>5
  <2> QED
    BY <2>4, <2>5, <2>6 DEF Replaying
<1>17. ASSUME NEW j \in Jobs, v \in Moving(job[j]), Kept
       PROVE  /\ job[j].page = p /\ job[j].pc = "install" /\ job[j].loc[v] # p
              /\ job[j].tail[v] = 0 /\ job'[j] = job[j] /\ job[j].loc[v] \in Pages
              /\ Rest(chain', job'[j]) = chain'[p] /\ Rest(chain, job[j]) = chain[p]
  <2>1. job[j].page = p
    BY <1>17 DEF ProtocolSound, VersionsExpected, Kept
  <2>2. job[j].loc[v] # p
    BY <1>17, <2>1 DEF ProtocolSound, VersionsPlaced, Moving
  <2>3. job[j].pc \notin Forwarding
    BY <1>17, <2>1 DEF ProtocolSound, ForwardersKept, Kept, Jobs
  <2>4. job[j].pc = "install"
    BY <1>17, <2>3, MovingOwns DEF Forwarding
  <2>5. job[j].tail[v] = 0
    BY <1>1, <2>4 DEF EdgesSound, BoundariesInPhase
  <2>6. job'[j] = job[j] /\ job[j].loc[v] \in Pages
    BY <1>17, TargetOpen DEF Kept
  <2> QED
    BY <2>1, <2>2, <2>4, <2>5, <2>6 DEF Rest
<1>18. ASSUME NEW j \in Jobs, v \in Moving(job[j])
       PROVE  CarriedBy(recs', Above(recs', v, floor[v]),
                        Unmerged(recs', chain', job', job[j].loc[v], v), job'[j],
                        Rest(chain', job'[j]), v)
  <2>1. CASE Kept
    <3> DEFINE S == Above(recs, v, floor[v])
               S1 == Above(recs', v, floor[v])
               New == Unmerged(recs, chain, job, job[j].loc[v], v)
               New1 == Unmerged(recs', chain', job', job[j].loc[v], v)
               rest == Rest(chain, job[j])
               rest1 == Rest(chain', job'[j])
    <3>1. CarriedBy(recs, S, New, job[j], rest, v)
      BY <1>18 DEF EdgesSound, Carried
    <3>2. New1 = New
      BY <1>1, <1>8, <1>17, <1>18, <2>1
    <3>3. job[j].tail[v] = 0 /\ job'[j] = job[j]
      BY <1>17, <1>18, <2>1
    <3>4. \A l : l \in Locs(rest1) <=> l \in Locs(rest) \/ l = n + 1
      BY <1>8, <1>17, <1>18, <2>1
    <3>5. \A l : l \in S1 <=> l \in S \/ l = n + 1
      BY <1>9
    <3>6. Locs(job[j].ds) \in SUBSET (1 .. n)
      BY <1>10
    <3> HIDE DEF S, S1, New, New1, rest, rest1
    <3>7. New = {} /\ \A l \in Locs(job[j].ds) : recs[l].src = v => l \in S
      BY <3>1, <3>3 DEF CarriedBy
    <3>8. \A l \in S : l \in Locs(job[j].ds) \/ l \in Locs(rest)
      BY <3>1, <3>7 DEF CarriedBy
    <3>9. \A l \in Locs(job[j].ds) : recs'[l].src = v => l \in S1
      BY <1>3, <3>5, <3>6, <3>7
    <3>10. \A l \in S1 : l \in Locs(job[j].ds) \/ l \in Locs(rest1)
      BY <3>4, <3>5, <3>8
    <3>11. CarriedBy(recs', S1, New1, job'[j], rest1, v)
      BY <3>2, <3>3, <3>7, <3>9, <3>10 DEF CarriedBy
    <3> QED
      BY <3>11 DEF S1, New1, rest1
  <2>2. CASE Rerouted
    <3>1. j = k
      BY <1>18, <2>2, OneMover DEF Rerouted
    <3>2. k \in Jobs /\ v \in Moving(job[k]) /\ p = job[k].loc[v]
      BY <2>2 DEF Rerouted
    <3>3. job[k].page # p
      BY <3>2 DEF ProtocolSound, VersionsPlaced, Moving
    <3>4. PICK rest : rest = Rest(chain, job[k])
      OBVIOUS
    <3>5. Rest(chain', job'[k]) = rest
      BY <1>14, <3>2, <3>3, <3>4
    <3>6. job'[k].tail[v] = IF job[k].tail[v] = 0 THEN Len(recs) + 1 ELSE job[k].tail[v]
      BY <1>7, <2>2 DEF n
    <3>7. \A l \in Locs(Rest(chain, job[k])) : l \in Locs(rest) \/ recs[l].dst = rec.dst
      BY <3>4
    <3>8. CarriedBy(recs', Above(recs', v, floor[v]), Unmerged(recs', chain', job', p, v), job'[k],
                    rest, v)
      BY <1>1, <1>4, <3>2, <3>6, <3>7, CarriedGrows
    <3> QED
      BY <3>1, <3>2, <3>5, <3>8
  <2> QED
    BY <1>2, <2>1, <2>2
<1>19. ASSUME NEW j \in Jobs, v \in Moving(job[j]), <<j, v, rec.dst>> \notin hist'.rerouted
       PROVE  Value(recs', Locs(Rest(chain', job'[j])), v, rec.dst, FALSE)
                <=> rec.dst \in hist'.graph[v]
  <2>1. ~Rerouted
    <3>1. Rerouted => j = k
      BY <1>19, OneMover DEF Rerouted
    <3> QED
      BY <1>19, <3>1 DEF Rerouted
  <2>2. Kept
    BY <1>2, <2>1
  <2> DEFINE T == Locs(chain[p])
             U == Locs(chain'[p])
             d == rec.dst
             R == recs
             Q == recs'
  <2>3. Rest(chain', job'[j]) = chain'[p]
    BY <1>17, <1>19, <2>2
  <2>4. T \in SUBSET (1 .. n) /\ \A l : l \in U <=> l \in T \/ l = n + 1
    BY <1>1, <1>8, <1>10
  <2>5. /\ n \in Nat /\ \A l \in T : Q[l] = R[l]
        /\ Q[n + 1].src = v /\ Q[n + 1].dst = d /\ Q[n + 1] = rec
    BY <1>1, <1>3, <2>4
  <2> HIDE DEF T, U, d, R, Q
  <2>6. Value(Q, U, v, d, FALSE) <=> Q[n + 1].typ = "INSERT"
    <3>1. n \in Nat /\ \A l \in T : Q[l] = R[l]
      BY <2>5
    <3>2. (Q[n + 1].src = v /\ Q[n + 1].dst = d) =>
               (Value(Q, U, v, d, FALSE) <=> Q[n + 1].typ = "INSERT")
      BY <2>4, <3>1, ValueAdded, Zenon
    <3> QED
      BY <2>5, <3>2
  <2>7. rec.typ = "INSERT" <=> rec.dst \in hist'.graph[v]
    BY <1>1
  <2> QED
    BY <2>3, <2>5, <2>6, <2>7 DEF Q, U, d
<1>20. (\A j \in Jobs : v \notin Moving(job[j])) => p = cur[v].page
  BY <1>2 DEF Kept, Rerouted
<1>21. RecordStep(v, p, rec)
  <2>1. \A j \in Jobs : SameWork(job[j], job'[j]) /\ Increasing(job'[j].stray)
    BY <1>4, <1>5
  <2> QED
    BY <1>1, <1>11, <1>13, <1>20, <2>1 DEF RecordStep
<1>22. CarriedWith(floor, v, rec)
  BY <1>15, <1>18, <1>19 DEF CarriedWith
<1>23. SaysWith(v, rec)
  BY <1>1, <1>16 DEF SaysWith
<1>24. v \in Vertices /\ p \in Pages
  BY <1>1
<1> QED
  BY <1>21, <1>22, <1>23, <1>24, RecordAdded

\* A list without its first location.
LEMMA TailLocs ==
  ASSUME NEW s \in Seq(Nat), s # <<>>, Increasing(s)
  PROVE  /\ Increasing(Tail(s)) /\ \A l \in Locs(Tail(s)) : Head(s) < l
         /\ \A l : l \in Locs(s) <=> l = Head(s) \/ l \in Locs(Tail(s))
         /\ Head(s) = s[1] /\ 1 \in 1 .. Len(s)
<1> DEFINE t == Tail(s)
<1>1. /\ Len(s) \in Nat /\ Len(s) >= 1 /\ Head(s) = s[1] /\ Len(t) = Len(s) - 1
      /\ \A i \in 1 .. Len(t) : i + 1 \in 1 .. Len(s) /\ t[i] = s[i + 1]
  BY TailOf
<1> HIDE DEF t
<1>2. 1 \in 1 .. Len(s)
  BY <1>1
<1>3. Increasing(t)
  <2> SUFFICES ASSUME NEW i \in 1 .. Len(t), NEW j \in 1 .. Len(t), i < j
               PROVE  t[i] < t[j]
    BY DEF Increasing
  <2>1. i + 1 < j + 1
    BY <1>1
  <2> QED
    BY <1>1, <2>1 DEF Increasing
<1>4. \A l \in Locs(t) : Head(s) < l
  <2> SUFFICES ASSUME NEW i \in 1 .. Len(t) PROVE s[1] < t[i]
    BY <1>1 DEF Locs
  <2>1. 1 < i + 1
    BY <1>1
  <2> QED
    BY <1>1, <1>2, <2>1 DEF Increasing
<1>5. \A l : l \in Locs(s) <=> l = Head(s) \/ l \in Locs(t)
  <2>1. ASSUME NEW i \in 1 .. Len(s) PROVE s[i] = Head(s) \/ s[i] \in Locs(t)
    <3>1. CASE i = 1
      BY <1>1, <3>1
    <3>2. CASE i # 1
      <4>1. i - 1 \in 1 .. Len(t) /\ (i - 1) + 1 = i
        BY <1>1, <3>2
      <4>2. t[i - 1] = s[i]
        BY <1>1, <4>1
      <4> QED
        BY <4>1, <4>2 DEF Locs
    <3> QED
      BY <3>1, <3>2
  <2>2. \A l \in Locs(t) : l \in Locs(s)
    BY <1>1 DEF Locs
  <2>3. Head(s) \in Locs(s)
    BY <1>1, <1>2 DEF Locs
  <2> QED
    BY <2>1, <2>2, <2>3 DEF Locs
<1> QED
  BY <1>1, <1>2, <1>3, <1>4, <1>5 DEF t

\* What the rerouting of a stray does.
LEMMA StrayMoves ==
  ASSUME CInv, ProtocolSound, NEW k \in Jobs, SmoStray(k), Healthy'
  PROVE  \E v, p, rec, s :
           /\ v \in Vertices /\ p \in Pages /\ v \in Moving(job[k]) /\ p = job[k].loc[v]
           /\ rec.src = v /\ rec.next = head[v] /\ rec.dst \in Dsts
           /\ s = Head(job[k].stray) /\ recs[s].src = v
           /\ recs[s].dst = rec.dst /\ recs[s].typ = rec.typ
           /\ recs' = Append(recs, rec)
           /\ chain' = [chain EXCEPT ![p] = Append(@, Len(recs) + 1)]
           /\ head' = [head EXCEPT ![v] = Len(recs) + 1] /\ UNCHANGED <<csr, cur>>
           /\ hist'.graph = hist.graph /\ hist'.rerouted = hist.rerouted
           /\ hist.overtaken \subseteq hist'.overtaken
           /\ <<k, v, rec.dst>> \in hist.rerouted => <<v, rec.dst>> \in hist'.overtaken
           /\ \A j \in Jobs : SameWork(job[j], job'[j])
           /\ job[k].pc = "strays" /\ job[k].stray # <<>> /\ job'[k].stray = Tail(job[k].stray)
           /\ job'[k].tail = note_rerouted_tail(job[k].tail, v, Len(recs) + 1)
           /\ \A j \in Jobs \ {k} : job'[j] = job[j]
           /\ rd' = rd
<1>1. PICK s : s = Head(job[k].stray)
  OBVIOUS
<1>2. PICK v : v = recs[s].src
  OBVIOUS
<1>3. /\ job[k].pc = "strays" /\ job[k].stray # <<>> /\ job[k].stray \in Seq(Nat)
      /\ \A i \in 1 .. Len(job[k].stray) : job[k].stray[i] \in 1 .. Len(recs)
  BY JobFields, ListsNow DEF SmoStray
<1>4. 1 \in 1 .. Len(job[k].stray) /\ s = job[k].stray[1]
  BY <1>1, <1>3
<1>5. v \in DOMAIN job[k].loc
  BY <1>2, <1>3, <1>4 DEF ProtocolSound, StraysCovered
<1>6. v \in Moving(job[k])
  BY <1>3, <1>5 DEF Moving, ProtocolSound, PhasesKnown, PhaseKnown
<1>7. PICK p : p = job[k].loc[v]
  OBVIOUS
<1>8. PICK rec : rec = Record(v, recs[s].typ, recs[s].dst, head[v])
  OBVIOUS
<1>9. PICK x : x = [job[k] EXCEPT !.stray = Tail(@),
                                  !.tail = note_rerouted_tail(@, v, Len(recs) + 1)]
  OBVIOUS
<1>10. /\ recs' = Append(recs, rec) /\ chain' = [chain EXCEPT ![p] = Append(@, Len(recs) + 1)]
       /\ head' = [head EXCEPT ![v] = Len(recs) + 1]
       /\ job' = [job EXCEPT ![k] = x] /\ UNCHANGED <<csr, cur, rd>>
       /\ hist' = IF <<k, v, recs[s].dst>> \in hist.rerouted
                  THEN [hist EXCEPT !.overtaken = @ \cup {<<v, recs[s].dst>>}] ELSE hist
  <2>1. hist' # [hist EXCEPT !.races = @ \cup {"halted"}]
    <3> SUFFICES ASSUME hist' = [hist EXCEPT !.races = @ \cup {"halted"}] PROVE FALSE
      OBVIOUS
    <3>1. hist'.races = hist.races \cup {"halted"}
      BY QuietTypes DEF Histories
    <3> QED
      BY <3>1 DEF Healthy
  <2> QED
    BY <1>1, <1>2, <1>5, <1>7, <1>8, <1>9, <2>1 DEF SmoStray, pvars, rvars
<1>11. rec.src = v /\ rec.next = head[v] /\ rec.typ = recs[s].typ /\ rec.dst = recs[s].dst
  BY <1>8 DEF Record
<1>12. rec.dst \in Dsts
  <2>1. s \in 1 .. Len(recs)
    BY <1>3, <1>4
  <2> QED
    BY <1>11, <2>1, RecordsNow
<1>13. v \in Vertices /\ p \in Pages
  BY <1>6, <1>7, TargetOpen
<1>14. /\ SameWork(job[k], x) /\ x.stray = Tail(job[k].stray)
       /\ x.tail = note_rerouted_tail(job[k].tail, v, Len(recs) + 1)
  BY <1>9, JobFields DEF JobType, SameWork
<1>15. \A j \in Jobs : job'[j] = IF j = k THEN x ELSE job[j]
  BY <1>10, OneJob, Zenon
<1>16. job'[k] = x /\ \A j \in Jobs \ {k} : job'[j] = job[j]
  BY <1>15, Zenon
<1>17. \A j \in Jobs : SameWork(job[j], job'[j])
  BY <1>14, <1>16 DEF SameWork
<1>18. /\ hist'.graph = hist.graph /\ hist'.rerouted = hist.rerouted
       /\ hist.overtaken \subseteq hist'.overtaken
       /\ <<k, v, rec.dst>> \in hist.rerouted => <<v, rec.dst>> \in hist'.overtaken
  <2>1. hist \in Histories
    BY QuietTypes
  <2> QED
    BY <1>10, <1>11, <2>1 DEF Histories
<1>19. /\ job'[k].stray = Tail(job[k].stray)
       /\ job'[k].tail = note_rerouted_tail(job[k].tail, v, Len(recs) + 1)
  BY <1>14, <1>16
<1>20. recs[s].src = v /\ recs[s].dst = rec.dst /\ recs[s].typ = rec.typ
  BY <1>2, <1>11
<1>21. /\ recs' = Append(recs, rec) /\ chain' = [chain EXCEPT ![p] = Append(@, Len(recs) + 1)]
       /\ head' = [head EXCEPT ![v] = Len(recs) + 1] /\ UNCHANGED <<csr, cur>> /\ rd' = rd
  BY <1>10
<1>22. job[k].pc = "strays" /\ job[k].stray # <<>>
  BY <1>3
<1> QED
  BY <1>1, <1>6, <1>7, <1>11, <1>12, <1>13, <1>16, <1>17, <1>18, <1>19, <1>20, <1>21, <1>22, Zenon

\* A stray that is rerouted repeats the latest update of its edge, or overtakes it.
LEMMA SmoStrayEdges ==
  ASSUME CInv, ProtocolSound, NEW floor \in [Vertices -> Nat], EdgesSound(floor),
         NEW k \in Jobs, SmoStray(k), Healthy'
  PROVE  EdgesSound(floor)'
<1>1. PICK v, p, rec, s :
        /\ v \in Vertices /\ p \in Pages /\ v \in Moving(job[k]) /\ p = job[k].loc[v]
        /\ rec.src = v /\ rec.next = head[v] /\ rec.dst \in Dsts
        /\ s = Head(job[k].stray) /\ recs[s].src = v
        /\ recs[s].dst = rec.dst /\ recs[s].typ = rec.typ
        /\ recs' = Append(recs, rec)
        /\ chain' = [chain EXCEPT ![p] = Append(@, Len(recs) + 1)]
        /\ head' = [head EXCEPT ![v] = Len(recs) + 1] /\ UNCHANGED <<csr, cur>>
        /\ hist'.graph = hist.graph /\ hist'.rerouted = hist.rerouted
        /\ hist.overtaken \subseteq hist'.overtaken
        /\ <<k, v, rec.dst>> \in hist.rerouted => <<v, rec.dst>> \in hist'.overtaken
        /\ \A j \in Jobs : SameWork(job[j], job'[j])
        /\ job[k].pc = "strays" /\ job[k].stray # <<>> /\ job'[k].stray = Tail(job[k].stray)
        /\ job'[k].tail = note_rerouted_tail(job[k].tail, v, Len(recs) + 1)
        /\ \A j \in Jobs \ {k} : job'[j] = job[j]
        /\ rd' = rd
  BY StrayMoves
<1> DEFINE n == Len(recs)
           d == rec.dst
           old == Locs(job[k].stray)
           new == Locs(job'[k].stray)
<1>2. /\ n \in Nat /\ Len(recs') = n + 1 /\ recs'[n + 1] = rec
      /\ \A l \in 1 .. n : recs'[l] = recs[l]
  BY <1>1, RecordsNow
<1>3. /\ Increasing(job'[k].stray) /\ \A l \in new : s < l
      /\ \A l : l \in old <=> l = s \/ l \in new
  <2>1. job[k].stray \in Seq(Nat) /\ job[k].stray # <<>> /\ Increasing(job[k].stray)
    BY <1>1, ListsNow DEF EdgesSound, ListsSorted
  <2> QED
    BY <1>1, <2>1, TailLocs
<1>4. \A j \in Jobs : Increasing(job'[j].stray)
  BY <1>1, <1>3 DEF EdgesSound, ListsSorted
<1>5. \A j \in Jobs : /\ job[j].tail \in [Vertices -> Nat] /\ job[j].page \in Pages
                      /\ job[j].stray \in Seq(Nat)
  BY ListsNow
<1>6. /\ job'[k].tail[v] = IF job[k].tail[v] = 0 THEN n + 1 ELSE job[k].tail[v]
      /\ \A u \in Vertices \ {v} : job'[k].tail[u] = job[k].tail[u]
  BY <1>1, <1>5 DEF note_rerouted_tail
<1>7. job'[k].tail[v] # 0
  BY <1>2, <1>6
<1>8. /\ \A l : l \in Locs(chain'[p]) <=> l \in Locs(chain[p]) \/ l = n + 1
      /\ \A q \in Pages \ {p} : chain'[q] = chain[q]
  <2>1. ListsSorted
    BY DEF EdgesSound
  <2> QED
    BY <1>1, <2>1, UnmergedGrows
<1>9. \A j \in Jobs : Locs(Rest(chain, job[j])) \in SUBSET (1 .. n)
  BY LocsNow
<1>10. Rest(chain, job[k]) = job[k].stray /\ Rest(chain', job'[k]) = job'[k].stray
  BY <1>1 DEF Rest, SameWork
<1>11. old \in SUBSET (1 .. n) /\ new \in SUBSET (1 .. n) /\ s \in old
  BY <1>3, <1>9, <1>10
<1>12. \A j \in Jobs \ {k} : Rest(chain', job'[j]) = Rest(chain, job[j])
                       \/ (Rest(chain', job'[j]) = chain'[p] /\ Rest(chain, job[j]) = chain[p])
  BY <1>1, <1>5, <1>8 DEF Rest, SameWork
<1> HIDE DEF n, d, old, new
<1>13. ASSUME NEW j \in Jobs, NEW u \in Vertices, NEW e \in Dsts, u # v \/ e # rec.dst
       PROVE  Hits(recs', Locs(Rest(chain', job'[j])), u, e) = Hits(recs, Locs(Rest(chain, job[j])), u, e)
  <2> DEFINE T == Locs(Rest(chain, job[j]))
             U == Locs(Rest(chain', job'[j]))
  <2>1. T \in SUBSET (1 .. n) /\ \A l \in T : recs'[l] = recs[l]
    BY <1>2, <1>9
  <2>2. \A l : l \in U => l \in T \/ l = n + 1
    <3>1. CASE j = k
      BY <1>3, <1>10, <3>1 DEF old, new
    <3>2. CASE j # k
      BY <1>8, <1>12, <3>2
    <3> QED
      BY <3>1, <3>2
  <2>3. \A l : l \in T => l \in U \/ l = s
    <3>1. CASE j = k
      BY <1>3, <1>10, <3>1 DEF old, new
    <3>2. CASE j # k
      BY <1>8, <1>12, <3>2
    <3> QED
      BY <3>1, <3>2
  <2>4. /\ ~(recs'[n + 1].src = u /\ recs'[n + 1].dst = e)
        /\ ~(recs[s].src = u /\ recs[s].dst = e)
    BY <1>1, <1>2, <1>13
  <2> HIDE DEF T, U
  <2>5. Hits(recs', U, u, e) = Hits(recs, T, u, e)
    BY <2>1, <2>2, <2>3, <2>4 DEF Hits
  <2> QED
    BY <2>5 DEF T, U
<1>14. ASSUME NEW u \in Vertices, NEW e \in Dsts, u # v \/ e # rec.dst, Replaying(u, e)
       PROVE  Replaying(u, e)'
  <2>1. PICK j \in Jobs : /\ job[j].pc = "strays" /\ job[j].tail[u] # 0
                          /\ \E i \in DOMAIN job[j].stray :
                               recs[job[j].stray[i]].src = u /\ recs[job[j].stray[i]].dst = e
    BY <1>14 DEF Replaying
  <2>2. PICK i \in DOMAIN job[j].stray :
          recs[job[j].stray[i]].src = u /\ recs[job[j].stray[i]].dst = e
    BY <2>1
  <2>3. job[j].stray[i] \in Locs(job[j].stray) /\ Rest(chain, job[j]) = job[j].stray
    BY <1>5, <2>1 DEF Locs, Rest
  <2>4. job[j].stray[i] \in Hits(recs, Locs(Rest(chain, job[j])), u, e)
    BY <2>2, <2>3 DEF Hits
  <2>5. job[j].stray[i] \in Hits(recs', Locs(Rest(chain', job'[j])), u, e)
    BY <1>13, <1>14, <2>4
  <2>6. job'[j].pc = "strays" /\ Rest(chain', job'[j]) = job'[j].stray
    BY <1>1, <2>1 DEF SameWork, Rest
  <2>7. PICK m \in 1 .. Len(job'[j].stray) :
          recs'[job'[j].stray[m]].src = u /\ recs'[job'[j].stray[m]].dst = e
    BY <2>5, <2>6 DEF Hits, Locs
  <2>8. m \in DOMAIN job'[j].stray
    <3>1. job'[j].stray \in Seq(Nat)
      <4>1. CASE j = k
        <5>1. job[k].stray \in Seq(Nat) /\ job[k].stray # <<>>
          BY <1>1, <1>5
        <5>2. Tail(job[k].stray) \in Seq(Nat)
          BY <5>1
        <5> QED
          BY <1>1, <4>1, <5>2
      <4>2. CASE j # k
        BY <1>1, <1>5, <4>2
      <4> QED
        BY <4>1, <4>2
    <3> QED
      BY <3>1
  <2>9. job'[j].tail[u] # 0
    <3>1. CASE j = k
      BY <1>6, <1>7, <2>1, <3>1
    <3>2. CASE j # k
      BY <1>1, <2>1, <3>2
    <3> QED
      BY <3>1, <3>2
  <2> QED
    BY <2>6, <2>7, <2>8, <2>9 DEF Replaying
<1>15. RecordStep(v, p, rec)
  <2>1. \A j \in Jobs : SameWork(job[j], job'[j]) /\ Increasing(job'[j].stray)
    BY <1>1, <1>4
  <2>2. \A j \in Jobs : \A u \in Vertices \ {v} : job'[j].tail[u] = job[j].tail[u]
    BY <1>1, <1>6
  <2>3. BoundariesInPhase'
    <3>1. BoundariesInPhase
      BY DEF EdgesSound
    <3>2. job'[k].pc = "strays"
      BY <1>1 DEF SameWork
    <3>3. \A j \in Jobs \ {k} : job'[j] = job[j]
      BY <1>1
    <3>4. \A j \in Jobs : j = k \/ job'[j] = job[j]
      BY <3>3
    <3> QED
      BY <3>1, <3>2, <3>4 DEF BoundariesInPhase
  <2> QED
    BY <1>1, <2>1, <2>2, <2>3 DEF RecordStep
<1>16. v \in Vertices /\ p \in Pages /\ d \in Dsts
  BY <1>1 DEF d
<1>17. ASSUME <<k, v, d>> \notin hist.rerouted, <<v, d>> \notin hist.overtaken
       PROVE  Value(recs, old, v, d, FALSE) <=> d \in hist.graph[v]
  <2>1. s \in Hits(recs, old, v, d)
    BY <1>1, <1>11 DEF Hits, d
  <2>2. Hits(recs, Locs(Rest(chain, job[k])), v, d) # {}
    BY <1>10, <2>1 DEF old
  <2>3. v \in Moving(job[k]) /\ job[k].pc = "strays"
    BY <1>1
  <2>4. Value(recs, Locs(Rest(chain, job[k])), v, d, FALSE) <=> d \in hist.graph[v]
    BY <1>16, <1>17, <2>2, <2>3 DEF EdgesSound, StraysLast
  <2> QED
    BY <1>10, <2>4 DEF old
<1>18. ASSUME NEW j \in Jobs, v \in Moving(job[j])
       PROVE  /\ j = k
              /\ CarriedBy(recs', Above(recs', v, floor[v]),
                           Unmerged(recs', chain', job', job[j].loc[v], v), job'[j],
                           Rest(chain', job'[j]), v)
  <2>1. j = k
    BY <1>1, <1>18, OneMover
  <2>2. PICK rest : rest = Rest(chain', job'[k])
    OBVIOUS
  <2>3. job'[k].tail[v] = IF job[k].tail[v] = 0 THEN Len(recs) + 1 ELSE job[k].tail[v]
    BY <1>6 DEF n
  <2>4. \A l \in Locs(Rest(chain, job[k])) : l \in Locs(rest) \/ recs[l].dst = rec.dst
    BY <1>1, <1>3, <1>10, <2>2 DEF old, new
  <2>5. CarriedBy(recs', Above(recs', v, floor[v]), Unmerged(recs', chain', job', p, v), job'[k],
                  rest, v)
    BY <1>1, <2>3, <2>4, CarriedGrows
  <2> QED
    BY <1>1, <2>1, <2>2, <2>5
<1>19. ASSUME <<k, v, d>> \notin hist'.rerouted, <<v, d>> \notin hist'.overtaken,
              Hits(recs', new, v, d) # {}
       PROVE  Value(recs', new, v, d, FALSE) <=> d \in hist'.graph[v]
  <2>1. Value(recs, old, v, d, FALSE) <=> d \in hist.graph[v]
    BY <1>1, <1>17, <1>19
  <2>2. \A l \in new : recs'[l] = recs[l]
    BY <1>2, <1>11
  <2>3. Hits(recs', new, v, d) = Hits(recs, new, v, d)
    BY <2>2 DEF Hits
  <2>4. PICK l \in Hits(recs, new, v, d) : \A m \in Hits(recs, new, v, d) : m <= l
    BY <1>2, <1>11, <1>19, <2>3, HitsTop
  <2>5. l \in Hits(recs, old, v, d) /\ l \in new /\ l \in Nat /\ s \in Nat /\ s < l
    BY <1>3, <1>11, <2>4 DEF Hits
  <2>6. \A m \in Hits(recs, old, v, d) : m <= l
    <3> TAKE m \in Hits(recs, old, v, d)
    <3>1. m = s \/ m \in Hits(recs, new, v, d)
      BY <1>3 DEF Hits
    <3>2. CASE m = s
      BY <2>5, <3>2
    <3>3. CASE m \in Hits(recs, new, v, d)
      BY <2>4, <3>3
    <3> QED
      BY <3>1, <3>2, <3>3
  <2>7. Value(recs, old, v, d, FALSE) <=> recs[l].typ = "INSERT"
    BY <1>2, <1>11, <2>5, <2>6, ValueTop, ZenonT(60)
  <2>8. Value(recs, new, v, d, FALSE) <=> recs[l].typ = "INSERT"
    BY <1>2, <1>11, <2>4, ValueTop
  <2>9. Value(recs', new, v, d, FALSE) <=> Value(recs, new, v, d, FALSE)
    BY <1>2, <1>11, <2>2, ValueKept
  <2> QED
    BY <1>1, <2>1, <2>7, <2>8, <2>9
<1>20. CarriedWith(floor, v, rec)
  <2>1. \A j \in Jobs : v \in Moving(job[j]) => j = k
    BY <1>18
  <2>2. \A j \in Jobs : v \in Moving(job[j]) => Locs(Rest(chain', job'[j])) = new
    BY <1>10, <2>1 DEF new
  <2>3. ASSUME NEW j \in Jobs, v \in Moving(job[j]),
               <<j, v, rec.dst>> \notin hist'.rerouted, <<v, rec.dst>> \notin hist'.overtaken,
               Hits(recs', Locs(Rest(chain', job'[j])), v, rec.dst) # {}
        PROVE  Value(recs', Locs(Rest(chain', job'[j])), v, rec.dst, FALSE)
                 <=> rec.dst \in hist'.graph[v]
    BY <1>19, <2>1, <2>2, <2>3 DEF d
  <2> QED
    BY <1>13, <1>18, <2>3 DEF CarriedWith
<1>21. \/ <<v, d>> \in hist'.overtaken
       \/ Replaying(v, d)'
       \/ rec.typ = "INSERT" <=> d \in hist'.graph[v]
  <2>1. CASE <<v, d>> \in hist.overtaken \/ <<k, v, d>> \in hist.rerouted
    BY <1>1, <2>1 DEF d
  <2>2. CASE ~(<<v, d>> \in hist.overtaken \/ <<k, v, d>> \in hist.rerouted)
    <3>1. Value(recs, old, v, d, FALSE) <=> d \in hist.graph[v]
      BY <1>17, <2>2
    <3>2. CASE Hits(recs, new, v, d) = {}
      <4>1. s \in Hits(recs, old, v, d) /\ \A m \in Hits(recs, old, v, d) : m = s
        BY <1>1, <1>3, <1>11, <3>2 DEF Hits, d
      <4>2. s \in Nat /\ \A m \in Hits(recs, old, v, d) : m <= s
        BY <1>11, <4>1
      <4>3. Value(recs, old, v, d, FALSE) <=> recs[s].typ = "INSERT"
        BY <1>2, <1>11, <4>1, <4>2, ValueTop
      <4> QED
        BY <1>1, <3>1, <4>3
    <3>3. CASE Hits(recs, new, v, d) # {}
      <4>1. PICK l \in new : recs[l].src = v /\ recs[l].dst = d
        BY <3>3 DEF Hits
      <4>2. recs'[l].src = v /\ recs'[l].dst = d
        BY <1>2, <1>11, <4>1
      <4>3. PICK m \in 1 .. Len(job'[k].stray) : job'[k].stray[m] = l
        BY DEF new, Locs
      <4>4. m \in DOMAIN job'[k].stray
        <5>1. job[k].stray \in Seq(Nat) /\ job[k].stray # <<>>
          BY <1>1, <1>5
        <5>2. Tail(job[k].stray) \in Seq(Nat)
          BY <5>1
        <5> QED
          BY <1>1, <5>2
      <4>5. job'[k].pc = "strays"
        BY <1>1 DEF SameWork
      <4> QED
        BY <1>7, <4>2, <4>3, <4>4, <4>5 DEF Replaying
    <3> QED
      BY <3>2, <3>3
  <2> QED
    BY <2>1, <2>2
<1>22. SaysWith(v, rec)
  <2>1. \A u \in Vertices, e \in Dsts : (u # v \/ e # rec.dst) =>
          /\ Replaying(u, e) => Replaying(u, e)'
          /\ e \in hist'.graph[u] <=> e \in hist.graph[u]
    BY <1>1, <1>14
  <2>2. hist.overtaken \subseteq hist'.overtaken /\ hist.rerouted \subseteq hist'.rerouted
    BY <1>1
  <2> QED
    BY <1>21, <2>1, <2>2 DEF SaysWith, d
<1> QED
  BY <1>15, <1>16, <1>20, <1>22, RecordAdded
-----------------------------------------------------------------------------
(* The switch of a version *)

\* What the switch of one vertex does to jobs and versions ...
LEMMA FinalizeSwitches ==
  ASSUME CInv, ProtocolSound, NEW k \in Jobs, NEW v \in Vertices, SmoFinalize(k, v)
  PROVE  /\ job[k].pc = "final" /\ v \in Moving(job[k])
         /\ cur'[v].page = job[k].loc[v] /\ \A u \in Vertices \ {v} : cur'[u] = cur[u]
         /\ \A j \in Jobs : /\ job'[j].page = job[j].page /\ job'[j].pc = job[j].pc
                            /\ job'[j].ds = job[j].ds /\ job'[j].graph = job[j].graph
                            /\ job'[j].loc = job[j].loc /\ job'[j].stray = job[j].stray
                            /\ job'[j].tail = job[j].tail
         /\ \A j \in Jobs : Moving(job'[j]) = Moving(job[j]) \ {v}
         /\ UNCHANGED <<csr, chain, hist>>
<1>1. job[k].pc = "final" /\ v \in Moving(job[k])
  BY DEF SmoFinalize, Moving
<1>2. PICK x : x = [job[k] EXCEPT !.published = @ \cup {v}]
  OBVIOUS
<1>3. PICK y : y = [page |-> job[k].loc[v], by |-> k]
  OBVIOUS
<1>4. cur[v] = job[k].expect[v]
  BY <1>1 DEF ProtocolSound, VersionsExpected
<1>5. /\ cur' = [cur EXCEPT ![v] = y] /\ job' = [job EXCEPT ![k] = x]
      /\ UNCHANGED <<csr, chain, hist>>
  BY <1>2, <1>3, <1>4 DEF SmoFinalize, pvars
<1>6. cur'[v].page = job[k].loc[v] /\ \A u \in Vertices \ {v} : cur'[u] = cur[u]
  BY <1>3, <1>5, QuietTypes
<1>7. /\ x.page = job[k].page /\ x.pc = job[k].pc /\ x.ds = job[k].ds
      /\ x.graph = job[k].graph /\ x.loc = job[k].loc /\ x.stray = job[k].stray
      /\ x.tail = job[k].tail /\ x.published = job[k].published \cup {v}
  BY <1>2, JobFields DEF JobType
<1>8. \A j \in Jobs : job'[j] = IF j = k THEN x ELSE job[j]
  BY <1>5, OneJob, Zenon
<1>9. job'[k] = x /\ \A j \in Jobs \ {k} : job'[j] = job[j]
  BY <1>8, Zenon
<1>10. Moving(x) = Moving(job[k]) \ {v}
  BY <1>7 DEF Moving
<1>11. \A j \in Jobs \ {k} : v \notin Moving(job[j])
  BY <1>1, OneMover
<1>12. \A j \in Jobs : Moving(job'[j]) = Moving(job[j]) \ {v}
  BY <1>9, <1>10, <1>11
<1> QED
  BY <1>1, <1>5, <1>6, <1>7, <1>9, <1>12

\* ... and to records and heads: the boundary record becomes the last one of the
\* chain, or the chain is dropped.
LEMMA FinalizeCuts ==
  ASSUME CInv, NEW k \in Jobs, NEW v \in Vertices, SmoFinalize(k, v)
  PROVE  /\ Len(recs') = Len(recs)
         /\ \A l \in 1 .. Len(recs) : /\ recs'[l].src = recs[l].src /\ recs'[l].dst = recs[l].dst
                                      /\ recs'[l].typ = recs[l].typ
         /\ \A l \in 1 .. Len(recs) : l # job[k].tail[v] => recs'[l] = recs[l]
         /\ job[k].tail[v] # 0 => recs'[job[k].tail[v]].next = 0
         /\ head'[v] = IF job[k].tail[v] # 0 THEN head[v] ELSE 0
         /\ \A u \in Vertices \ {v} : head'[u] = head[u]
<1>1. PICK t : t = job[k].tail[v]
  OBVIOUS
<1>2. recs \in Seq(Records) /\ Len(recs) \in Nat /\ head \in [Vertices -> Nat]
  BY QuietTypes
<1>3. /\ head'[v] = IF t # 0 THEN head[v] ELSE 0
      /\ \A u \in Vertices \ {v} : head'[u] = head[u]
  BY <1>1, <1>2 DEF SmoFinalize, FinalHead
<1>4. CASE t = 0
  <2>1. recs' = recs
    BY <1>1, <1>4 DEF SmoFinalize
  <2> QED
    BY <1>1, <1>3, <1>4, <2>1
<1>5. CASE t # 0
  <2>1. t \in 1 .. Len(recs)
    <3>1. t <= Len(recs) /\ t \in Nat
      BY <1>1, ListsNow
    <3> QED
      BY <1>2, <1>5, <3>1
  <2>2. PICK e : e = [recs[t] EXCEPT !.next = 0]
    OBVIOUS
  <2>3. /\ e \in Records /\ e.src = recs[t].src /\ e.dst = recs[t].dst /\ e.typ = recs[t].typ
        /\ e.next = 0
    <3>1. recs[t] \in Records
      BY <1>2, <2>1
    <3> QED
      BY <2>2, <3>1 DEF Records
  <2>4. recs' = [recs EXCEPT ![t] = e]
    BY <1>1, <1>5, <2>2 DEF SmoFinalize, truncate_chain_at
  <2>5. Len(recs') = Len(recs) /\ \A i \in 1 .. Len(recs) : recs'[i] = IF i = t THEN e ELSE recs[i]
    BY <1>2, <2>1, <2>3, <2>4, ExceptSeq
  <2>6. recs'[t] = e /\ \A i \in 1 .. Len(recs) : i # t => recs'[i] = recs[i]
    BY <2>1, <2>5
  <2>7. \A l \in 1 .. Len(recs) : /\ recs'[l].src = recs[l].src /\ recs'[l].dst = recs[l].dst
                                  /\ recs'[l].typ = recs[l].typ
    BY <2>3, <2>6
  <2>8. recs'[t].next = 0
    BY <2>3, <2>6
  <2> QED
    BY <1>1, <1>3, <2>5, <2>6, <2>7, <2>8
<1> QED
  BY <1>4, <1>5

\* From the boundary up the chain stays linked when the boundary is cut.
LEMMA LinkedCut ==
  ASSUME NEW R, NEW Q, NEW n \in Nat, NEW S \in SUBSET (1 .. n), NEW h, Linked(R, S, h),
         NEW t \in S, NEW N, \A l : l \in N <=> l \in S /\ l >= t,
         \A l \in S : l # t => Q[l].next = R[l].next, Q[t].next = 0
  PROVE  Linked(Q, N, h)
<1>1. \A l \in S : l \in Nat /\ l >= 1
  OBVIOUS
<1>2. h \in S /\ \A m \in S : m <= h
  BY DEF Linked, IsTop
<1>3. IsTop(N, h)
  BY <1>1, <1>2 DEF IsTop
<1>4. ASSUME NEW l \in N PROVE IsTop({m \in N : m < l}, Q[l].next)
  <2>1. l \in S /\ l \in Nat /\ t \in Nat /\ l >= t
    BY <1>1
  <2>2. CASE l = t
    <3>1. \A m \in N : m \in Nat /\ m >= t
      BY <1>1
    <3>2. \A m \in N : ~(m < l)
      BY <2>1, <2>2, <3>1
    <3>3. {m \in N : m < l} = {}
      BY <3>2
    <3> QED
      BY <2>2, <3>3 DEF IsTop
  <2>3. CASE l # t
    <3>1. IsTop({m \in S : m < l}, R[l].next)
      BY <2>1 DEF Linked
    <3>2. t \in {m \in S : m < l}
      BY <2>1, <2>3
    <3>3. R[l].next \in S /\ R[l].next < l /\ \A m \in S : m < l => m <= R[l].next
      BY <3>1, <3>2 DEF IsTop
    <3>4. R[l].next >= t /\ R[l].next \in Nat
      BY <1>1, <3>2, <3>3
    <3>5. Q[l].next = R[l].next
      BY <2>1, <2>3
    <3>6. R[l].next \in {m \in N : m < l} /\ \A m \in {i \in N : i < l} : m <= R[l].next
      BY <3>3, <3>4
    <3> QED
      BY <3>5, <3>6 DEF IsTop
  <2> QED
    BY <2>2, <2>3
<1> QED
  BY <1>3, <1>4 DEF Linked

\* The switch of a version drops from the chain what the new page holds: the floor of
\* the vertex rises to its boundary.
LEMMA SmoFinalizeEdges ==
  ASSUME CInv, ProtocolSound, NEW floor \in [Vertices -> Nat], EdgesSound(floor),
         NEW k \in Jobs, NEW v \in Vertices, SmoFinalize(k, v)
  PROVE  \E lower \in [Vertices -> Nat] : EdgesSound(lower)'
<1> DEFINE n == Len(recs)
           t == job[k].tail[v]
           p == job[k].loc[v]
           S == Above(recs, v, floor[v])
           New == Unmerged(recs, chain, job, p, v)
<1>1. /\ job[k].pc = "final" /\ v \in Moving(job[k])
      /\ cur'[v].page = p /\ \A u \in Vertices \ {v} : cur'[u] = cur[u]
      /\ \A j \in Jobs : /\ job'[j].page = job[j].page /\ job'[j].pc = job[j].pc
                         /\ job'[j].ds = job[j].ds /\ job'[j].graph = job[j].graph
                         /\ job'[j].loc = job[j].loc /\ job'[j].stray = job[j].stray
                         /\ job'[j].tail = job[j].tail
      /\ \A j \in Jobs : Moving(job'[j]) = Moving(job[j]) \ {v}
      /\ UNCHANGED <<csr, chain, hist>>
  BY FinalizeSwitches
<1>2. /\ n \in Nat /\ Len(recs') = n
      /\ \A l \in 1 .. n : /\ recs'[l].src = recs[l].src /\ recs'[l].dst = recs[l].dst
                           /\ recs'[l].typ = recs[l].typ
      /\ \A l \in 1 .. n : l # t => recs'[l] = recs[l]
      /\ t # 0 => recs'[t].next = 0
      /\ head'[v] = IF t # 0 THEN head[v] ELSE 0
      /\ \A u \in Vertices \ {v} : head'[u] = head[u]
  BY FinalizeCuts, RecordsNow
<1>3. t \in Nat /\ t <= n
  BY ListsNow
<1>4. /\ \A l : l \in New <=> l \in S /\ t # 0 /\ l >= t
      /\ t # 0 => t \in New
      /\ \A l \in Locs(job[k].ds) : recs[l].src = v => l \in S
      /\ \A l \in S : l \in Locs(job[k].ds) \/ \E m \in New : recs[m].dst = recs[l].dst
  <2>1. CarriedBy(recs, S, New, job[k], Rest(chain, job[k]), v)
    BY <1>1 DEF EdgesSound, Carried
  <2>2. Rest(chain, job[k]) = <<>>
    BY <1>1 DEF EdgesSound, BoundariesInPhase, Rest
  <2>3. \A l : l \notin Locs(Rest(chain, job[k]))
    BY <2>2 DEF Locs
  <2> HIDE DEF S, New
  <2> QED
    BY <2>1, <2>3 DEF CarriedBy
<1>5. S \in SUBSET (1 .. n) /\ \A l : l \in S <=> l \in 1 .. n /\ recs[l].src = v /\ l > floor[v]
  BY DEF Above
<1>6. /\ \A q \in Pages : Locs(chain[q]) \in SUBSET (1 .. n)
      /\ \A j \in Jobs : /\ Locs(job[j].ds) \in SUBSET (1 .. n)
                         /\ Locs(Rest(chain, job[j])) \in SUBSET (1 .. n)
                         /\ job[j].page \in Pages
  BY LocsNow, ListsNow
<1>7. PICK b \in Nat : b = IF t # 0 THEN t - 1 ELSE n
  BY <1>2, <1>3
<1>8. PICK lower \in [Vertices -> Nat] : lower = [floor EXCEPT ![v] = b]
  OBVIOUS
<1>9. lower[v] = b /\ \A u \in Vertices \ {v} : lower[u] = floor[u]
  BY <1>8
<1>10. \A u \in Vertices : floor[u] \in Nat /\ floor[u] <= n /\ Linked(recs, Above(recs, u, floor[u]), head[u])
  BY DEF EdgesSound, ChainsLinked
<1>28. n \in Nat
  BY <1>2
<1>29. S \in SUBSET (1 .. n)
  BY <1>5
<1> HIDE DEF n, t
<1>11. \A u \in Vertices \ {v} : Above(recs', u, lower[u]) = Above(recs, u, floor[u])
  BY <1>2, <1>9 DEF Above, n
<1>12. Above(recs', v, lower[v]) = New
  <2>1. ASSUME NEW l PROVE l \in Above(recs', v, lower[v]) <=> l \in New
    <3>1. l \in Above(recs', v, lower[v]) <=> l \in 1 .. n /\ recs[l].src = v /\ l > b
      BY <1>2, <1>9 DEF Above
    <3>2. CASE t = 0
      <4>1. l \in 1 .. n => ~(l > b)
        BY <1>2, <1>7, <3>2
      <4> QED
        BY <1>4, <3>1, <3>2, <4>1
    <3>3. CASE t # 0
      <4>1. t > floor[v] /\ floor[v] \in Nat
        BY <1>4, <1>5, <1>10, <3>3
      <4>2. l \in 1 .. n => (l > b <=> l >= t) /\ (l >= t => l > floor[v])
        BY <1>2, <1>3, <1>7, <3>3, <4>1
      <4> QED
        BY <1>4, <1>5, <3>1, <3>3, <4>2
    <3> QED
      BY <3>2, <3>3
  <2> QED
    BY <2>1
<1>13. ChainsLinked(lower)'
  <2> SUFFICES ASSUME NEW u \in Vertices
               PROVE  lower[u] <= n /\ Linked(recs', Above(recs', u, lower[u]), head'[u])
    BY <1>2 DEF ChainsLinked
  <2>1. CASE u = v
    <3>1. b <= n
      BY <1>2, <1>3, <1>7
    <3>2. CASE t = 0
      <4>1. New = {}
        BY <1>4, <3>2
      <4>2. Linked(recs', New, 0)
        BY <4>1 DEF Linked, IsTop
      <4> QED
        BY <1>2, <1>9, <1>12, <2>1, <3>1, <3>2, <4>2
    <3>3. CASE t # 0
      <4>1. t \in S /\ \A l : l \in New <=> l \in S /\ l >= t
        BY <1>4, <3>3
      <4>2. (\A l \in S : l # t => recs'[l].next = recs[l].next) /\ recs'[t].next = 0
        BY <1>2, <1>5, <3>3
      <4>3. Linked(recs, S, head[v])
        BY <1>10
      <4> HIDE DEF S, New
      <4>5. t \in S
        BY <4>1
      <4>6. \A l : l \in New <=> l \in S /\ l >= t
        BY <4>1
      <4>7. \A l \in S : l # t => recs'[l].next = recs[l].next
        BY <4>2
      <4>8. recs'[t].next = 0
        BY <4>2
      <4>4. Linked(recs', New, head[v])
        BY <1>28, <1>29, <4>3, <4>5, <4>6, <4>7, <4>8, LinkedCut, ZenonT(60)
      <4> QED
        BY <1>2, <1>9, <1>12, <2>1, <3>1, <3>3, <4>4
    <3> QED
      BY <3>2, <3>3
  <2>2. CASE u # v
    <3>1. Linked(recs, Above(recs, u, floor[u]), head[u])
      BY <1>10
    <3>2. \A l \in Above(recs, u, floor[u]) : recs'[l] = recs[l]
      <4> TAKE l \in Above(recs, u, floor[u])
      <4>1. l \in 1 .. n /\ recs[l].src = u
        BY DEF Above, n
      <4>2. t # 0 => recs[t].src = v
        BY <1>4, <1>5
      <4>3. l # t
        BY <1>2, <2>2, <4>1, <4>2
      <4> QED
        BY <1>2, <4>1, <4>3
    <3>3. Linked(recs', Above(recs, u, floor[u]), head[u])
      BY <3>1, <3>2 DEF Linked
    <3> QED
      BY <1>2, <1>9, <1>10, <1>11, <2>2, <3>3
  <2> QED
    BY <2>1, <2>2
<1>14. ListsSorted' /\ BoundariesInPhase'
  <2>1. /\ chain' = chain
        /\ \A j \in Jobs : /\ job'[j].pc = job[j].pc /\ job'[j].ds = job[j].ds
                           /\ job'[j].stray = job[j].stray /\ job'[j].tail = job[j].tail
    BY <1>1
  <2>2. ListsSorted /\ BoundariesInPhase
    BY DEF EdgesSound
  <2>3. ListsSorted'
    BY <2>1, <2>2 DEF ListsSorted
  <2>4. BoundariesInPhase'
    BY <2>1, <2>2 DEF BoundariesInPhase
  <2> QED
    BY <2>3, <2>4
<1>15. \A j \in Jobs : (Merging(job'[j]) <=> Merging(job[j])) /\ Rest(chain', job'[j]) = Rest(chain, job[j])
  BY <1>1 DEF Merging, Rest
<1>16. FetchedStored'
  <2> SUFFICES ASSUME NEW j \in Jobs, Merging(job[j]), NEW l \in Locs(job[j].ds)
               PROVE  /\ recs'[l].src \in DOMAIN csr[job[j].page]
                      /\ \A m \in Locs(chain[job[j].page]) : l < m
    BY <1>1, <1>15 DEF FetchedStored
  <2>1. recs'[l].src = recs[l].src
    BY <1>2, <1>6
  <2> QED
    BY <2>1 DEF EdgesSound, FetchedStored
<1>17. ASSUME NEW T \in SUBSET (1 .. n), NEW u, NEW d, NEW c
       PROVE  /\ Hits(recs', T, u, d) = Hits(recs, T, u, d)
              /\ Value(recs', T, u, d, c) <=> Value(recs, T, u, d, c)
  <2>1. \A l \in T : /\ recs'[l].src = recs[l].src /\ recs'[l].dst = recs[l].dst
                     /\ recs'[l].typ = recs[l].typ
    BY <1>2
  <2> QED
    <3>1. Hits(recs', T, u, d) = Hits(recs, T, u, d)
      BY <2>1 DEF Hits
    <3>2. Value(recs', T, u, d, c) <=> Value(recs, T, u, d, c)
      BY <1>28, <2>1, ValueKept
    <3> QED
      BY <3>1, <3>2
<1>18. ASSUME NEW j \in Jobs, NEW u, NEW d
       PROVE  MergedSays(job[j], u, d)' <=> MergedSays(job[j], u, d)
  <2> DEFINE T == Locs(job[j].ds)
             c == Stored(csr[job[j].page], u, d)
  <2>1. T \in SUBSET (1 .. n)
    BY <1>6
  <2> HIDE DEF T, c
  <2>2. Value(recs', T, u, d, c) <=> Value(recs, T, u, d, c)
    BY <1>17, <2>1
  <2> QED
    BY <1>1, <2>2 DEF MergedSays, T, c
<1>19. GraphsMerged' /\ PagesMerged'
  <2>1. GraphsMerged'
    BY <1>1, <1>18 DEF EdgesSound, GraphsMerged
  <2>2. PagesMerged'
    BY <1>1, <1>18 DEF EdgesSound, PagesMerged
  <2> QED
    BY <2>1, <2>2
<1>20. StraysLast'
  <2> SUFFICES ASSUME NEW j \in Jobs, NEW u \in Moving(job[j]), NEW d \in Dsts,
                      job[j].pc \in {"install", "drain", "strays"},
                      <<j, u, d>> \notin hist.rerouted, <<u, d>> \notin hist.overtaken,
                      Hits(recs', Locs(Rest(chain, job[j])), u, d) # {}
               PROVE  Value(recs', Locs(Rest(chain, job[j])), u, d, FALSE) <=> d \in hist.graph[u]
    BY <1>1, <1>15, ZenonT(60) DEF StraysLast
  <2>1. Locs(Rest(chain, job[j])) \in SUBSET (1 .. n)
    BY <1>6
  <2>2. /\ Hits(recs', Locs(Rest(chain, job[j])), u, d) = Hits(recs, Locs(Rest(chain, job[j])), u, d)
        /\ Value(recs', Locs(Rest(chain, job[j])), u, d, FALSE)
             <=> Value(recs, Locs(Rest(chain, job[j])), u, d, FALSE)
    BY <1>17, <2>1
  <2> QED
    BY <2>2 DEF EdgesSound, StraysLast
<1>21. \A u, q : Unmerged(recs', chain', job', q, u) = Unmerged(recs, chain, job, q, u)
  <2>1. \A l, q : Waits(chain', job', l, q) <=> Waits(chain, job, l, q)
    BY <1>1, <1>15 DEF Waits
  <2> QED
    BY <1>2, <2>1 DEF Unmerged, n
<1>22. Settled(lower)'
  <2> SUFFICES ASSUME NEW u \in Vertices, \A j \in Jobs : u \notin Moving(job'[j])
               PROVE  Above(recs', u, lower[u]) = Unmerged(recs, chain, job, cur'[u].page, u)
    BY <1>21 DEF Settled
  <2>1. CASE u = v
    BY <1>1, <1>12, <2>1
  <2>2. CASE u # v
    <3>1. \A j \in Jobs : u \notin Moving(job[j])
      BY <1>1, <2>2
    <3>2. Above(recs, u, floor[u]) = Unmerged(recs, chain, job, cur[u].page, u)
      BY <3>1 DEF EdgesSound, Settled
    <3> QED
      BY <1>1, <1>11, <2>2, <3>2
  <2> QED
    BY <2>1, <2>2
<1>23. Carried(lower)'
  <2> SUFFICES ASSUME NEW j \in Jobs, NEW u \in Moving(job[j]), u # v
               PROVE  CarriedBy(recs', Above(recs', u, lower[u]),
                                Unmerged(recs, chain, job, job[j].loc[u], u), job'[j],
                                Rest(chain, job[j]), u)
    BY <1>1, <1>15, <1>21 DEF Carried
  <2> DEFINE S1 == Above(recs, u, floor[u])
             N1 == Unmerged(recs, chain, job, job[j].loc[u], u)
             rest == Rest(chain, job[j])
  <2>1. CarriedBy(recs, S1, N1, job[j], rest, u)
    BY DEF EdgesSound, Carried
  <2>2. u \in Vertices \ {v}
    BY TargetOpen
  <2>3. Above(recs', u, lower[u]) = S1
    BY <1>11, <2>2
  <2>4. S1 \in SUBSET (1 .. n) /\ N1 \in SUBSET (1 .. n) /\ Locs(job[j].ds) \in SUBSET (1 .. n)
    BY <1>6 DEF Above, Unmerged, n
  <2>5. job'[j].tail = job[j].tail /\ job'[j].ds = job[j].ds
    BY <1>1
  <2>6. /\ \A l \in Locs(job[j].ds) : recs'[l].src = recs[l].src
        /\ \A l \in S1, m \in N1 : recs[m].dst = recs[l].dst => recs'[m].dst = recs'[l].dst
    BY <1>2, <2>4
  <2> HIDE DEF S1, N1, rest
  <2>7. CarriedBy(recs', S1, N1, job'[j], rest, u)
    BY <2>1, <2>5, <2>6 DEF CarriedBy
  <2> QED
    BY <2>3, <2>7 DEF S1, N1, rest
<1>24. \A u \in Vertices, d \in Dsts : Replaying(u, d) => Replaying(u, d)'
  <2> SUFFICES ASSUME NEW u \in Vertices, NEW d \in Dsts, Replaying(u, d) PROVE Replaying(u, d)'
    OBVIOUS
  <2>1. PICK j \in Jobs : /\ job[j].pc = "strays" /\ job[j].tail[u] # 0
                          /\ \E i \in DOMAIN job[j].stray :
                               recs[job[j].stray[i]].src = u /\ recs[job[j].stray[i]].dst = d
    BY DEF Replaying
  <2>2. PICK i \in DOMAIN job[j].stray :
          recs[job[j].stray[i]].src = u /\ recs[job[j].stray[i]].dst = d
    BY <2>1
  <2>3. job[j].stray[i] \in 1 .. n
    <3>1. /\ job[j].stray \in Seq(Nat)
          /\ \A m \in 1 .. Len(job[j].stray) : job[j].stray[m] \in 1 .. n
      BY ListsNow DEF n
    <3>2. i \in 1 .. Len(job[j].stray)
      BY <3>1
    <3> QED
      BY <3>1, <3>2
  <2>4. job'[j].pc = "strays" /\ job'[j].tail[u] # 0 /\ job'[j].stray = job[j].stray
    BY <1>1, <2>1
  <2>5. recs'[job'[j].stray[i]].src = u /\ recs'[job'[j].stray[i]].dst = d
    BY <1>2, <2>2, <2>3, <2>4
  <2> QED
    BY <2>4, <2>5 DEF Replaying
<1>25. ASSUME NEW d \in Dsts
       PROVE  ChainSays(lower, v, d)' <=> ChainSays(floor, v, d)
  <2> DEFINE ds == Locs(job[k].ds)
             c == Stored(csr[job[k].page], v, d)
             e == Stored(csr[p], v, d)
  <2>1. cur[v].page = job[k].page
    BY <1>1 DEF ProtocolSound, VersionsExpected
  <2>2. ChainSays(floor, v, d) <=> Value(recs, S, v, d, c)
    BY <2>1 DEF ChainSays
  <2>3. New \in SUBSET (1 .. n)
    BY <1>4, <1>5
  <2>4. Value(recs', New, v, d, e) <=> Value(recs, New, v, d, e)
    <3> HIDE DEF New, e
    <3> QED
      BY <1>17, <2>3
  <2>5. ChainSays(lower, v, d)' <=> Value(recs', New, v, d, e)
    BY <1>1, <1>12 DEF ChainSays
  <2>6. e <=> Value(recs, ds, v, d, c)
    <3>1. d \in csr[p][v] <=> MergedSays(job[k], v, d)
      BY <1>1 DEF EdgesSound, PagesMerged
    <3>2. v \in DOMAIN csr[p]
      BY <1>1 DEF ProtocolSound, VerticesStored
    <3> QED
      BY <3>1, <3>2 DEF MergedSays, Stored
  <2>7. ds \in SUBSET (1 .. n) /\ \A l \in New : recs[l].src = v /\ l \in S
    BY <1>4, <1>5, <1>6
  <2> HIDE DEF ds, c, e, S, New, p
  <2>8. CASE Hits(recs, New, v, d) # {}
    <3>1. PICK l \in Hits(recs, New, v, d) : \A m \in Hits(recs, New, v, d) : m <= l
      BY <1>2, <2>3, <2>8, HitsTop
    <3>2. l \in Hits(recs, S, v, d) /\ l \in New /\ l >= t
      BY <1>4 DEF Hits
    <3>3. \A m \in Hits(recs, S, v, d) : m <= l
      <4> TAKE m \in Hits(recs, S, v, d)
      <4>1. m \in S /\ m \in Nat /\ l \in Nat
        BY <1>5, <2>3, <3>2 DEF Hits
      <4>2. CASE m >= t
        <5>1. m \in New
          BY <1>4, <3>2, <4>1, <4>2
        <5> QED
          BY <3>1, <5>1 DEF Hits
      <4>3. CASE ~(m >= t)
        BY <1>3, <3>2, <4>1, <4>3
      <4> QED
        BY <4>2, <4>3
    <3>4. Value(recs, S, v, d, c) <=> recs[l].typ = "INSERT"
      BY <1>28, <1>29, <3>2, <3>3, ValueTop
    <3>5. Value(recs, New, v, d, e) <=> recs[l].typ = "INSERT"
      BY <1>28, <2>3, <3>1, ValueTop
    <3> QED
      BY <2>2, <2>4, <2>5, <3>4, <3>5
  <2>9. CASE Hits(recs, New, v, d) = {}
    <3>1. Hits(recs, S, v, d) = Hits(recs, ds, v, d)
      <4>1. ASSUME NEW l \in Hits(recs, S, v, d) PROVE l \in Hits(recs, ds, v, d)
        <5>1. l \in S /\ recs[l].src = v /\ recs[l].dst = d
          BY DEF Hits
        <5>2. ~ \E m \in New : recs[m].dst = recs[l].dst
          BY <2>7, <2>9, <5>1 DEF Hits
        <5> QED
          BY <1>4, <5>1, <5>2 DEF Hits, ds
      <4>2. ASSUME NEW l \in Hits(recs, ds, v, d) PROVE l \in Hits(recs, S, v, d)
        BY <1>4 DEF Hits, ds
      <4> QED
        BY <4>1, <4>2
    <3>2. Value(recs, New, v, d, e) <=> e
      BY <2>9, ValueNone
    <3>3. Value(recs, S, v, d, c) <=> Value(recs, ds, v, d, c)
      BY <3>1 DEF Value
    <3> QED
      BY <2>2, <2>4, <2>5, <2>6, <3>2, <3>3
  <2> QED
    BY <2>8, <2>9
<1>26. Exact(lower)'
  <2> SUFFICES ASSUME NEW u \in Vertices, NEW d \in Dsts
               PROVE  \/ <<u, d>> \in hist'.overtaken
                      \/ Replaying(u, d)'
                      \/ ChainSays(lower, u, d)' <=> d \in hist'.graph[u]
    BY DEF Exact
  <2>1. \/ <<u, d>> \in hist.overtaken
        \/ Replaying(u, d)
        \/ ChainSays(floor, u, d) <=> d \in hist.graph[u]
    BY DEF EdgesSound, Exact
  <2>2. ChainSays(lower, u, d)' <=> ChainSays(floor, u, d)
    <3>1. CASE u = v
      BY <1>25, <3>1
    <3>2. CASE u # v
      <4> DEFINE T == Above(recs, u, floor[u])
                 c == Stored(csr[cur[u].page], u, d)
      <4>1. T \in SUBSET (1 .. n) /\ Above(recs', u, lower[u]) = T /\ cur'[u] = cur[u]
        BY <1>1, <1>11, <3>2 DEF Above, n
      <4>2. ChainSays(lower, u, d)' <=> Value(recs', T, u, d, c)
        BY <1>1, <4>1 DEF ChainSays
      <4>3. ChainSays(floor, u, d) <=> Value(recs, T, u, d, c)
        BY DEF ChainSays
      <4> HIDE DEF T, c
      <4> QED
        BY <1>17, <4>1, <4>2, <4>3
    <3> QED
      BY <3>1, <3>2
  <2> QED
    BY <1>1, <1>24, <2>1, <2>2
<1>27. EdgesSound(lower)'
  BY <1>13, <1>14, <1>16, <1>19, <1>20, <1>22, <1>23, <1>26 DEF EdgesSound
<1> QED
  BY <1>27
-----------------------------------------------------------------------------
(* The theorem *)

\* Initially every chain is empty.
LEMMA InitEdges == Init => EdgesInv
<1> SUFFICES ASSUME Init PROVE \E floor \in [Vertices -> Nat] : EdgesSound(floor)
  BY DEF EdgesInv
<1>1. PICK floor \in [Vertices -> Nat] : \A v \in Vertices : floor[v] = 0
  <2>1. \A v \in Vertices : [u \in Vertices |-> 0][v] = 0
    OBVIOUS
  <2> QED
    BY <2>1
<1>2. /\ recs = <<>> /\ Len(recs) = 0 /\ \A p \in Pages : chain[p] = <<>>
      /\ \A v \in Vertices : head[v] = 0 /\ cur[v].page = 1 /\ hist.graph[v] = BaseGraph[v]
      /\ csr[1] = BaseGraph
  BY ConsolidationAssumption DEF Init, Pages
<1>3. \A k \in Jobs : /\ job[k].pc = "none" /\ job[k].ds = <<>> /\ job[k].stray = <<>>
                      /\ DOMAIN job[k].loc = {} /\ \A v \in Vertices : job[k].tail[v] = 0
  BY DEF Init, NewJob, Nothing
<1>4. \A k \in Jobs : Moving(job[k]) = {} /\ ~Merging(job[k])
  BY <1>3 DEF Moving, Merging
<1>5. /\ \A v \in Vertices : Above(recs, v, floor[v]) = {}
      /\ \A v \in Vertices, p \in Pages : Unmerged(recs, chain, job, p, v) = {}
  <2>1. \A l : l \notin 1 .. Len(recs)
    BY <1>2
  <2> QED
    BY <2>1, Zenon DEF Above, Unmerged
<1>6. ListsSorted
  <2>1. Increasing(<<>>)
    BY DEF Increasing
  <2> QED
    BY <1>2, <1>3, <2>1 DEF ListsSorted
<1>7. FetchedStored /\ GraphsMerged /\ PagesMerged /\ StraysLast /\ Carried(floor)
  BY <1>3, <1>4 DEF FetchedStored, GraphsMerged, PagesMerged, StraysLast, Carried
<1>8. BoundariesInPhase
  BY <1>3 DEF BoundariesInPhase
<1>9. ChainsLinked(floor)
  BY <1>1, <1>2, <1>5 DEF ChainsLinked, Linked, IsTop
<1>10. Settled(floor)
  <2>1. 1 \in Pages
    BY ConsolidationAssumption DEF Pages
  <2> QED
    BY <1>2, <1>5, <2>1 DEF Settled
<1>11. Exact(floor)
  <2> SUFFICES ASSUME NEW v \in Vertices, NEW d \in Dsts
               PROVE  ChainSays(floor, v, d) <=> d \in hist.graph[v]
    BY DEF Exact
  <2>1. Hits(recs, Above(recs, v, floor[v]), v, d) = {}
    BY <1>5 DEF Hits
  <2>2. ChainSays(floor, v, d) <=> Stored(csr[cur[v].page], v, d)
    BY <2>1, ValueNone DEF ChainSays
  <2> QED
    BY <1>2, <2>2, ConsolidationAssumption DEF Stored
<1> QED
  BY <1>6, <1>7, <1>8, <1>9, <1>10, <1>11 DEF EdgesSound

\* A preparation that throws is on record.
LEMMA ThrowRecorded ==
  ASSUME CInv, NEW k \in Jobs, NEW n, SmoThrow(k, n) PROVE ~Lossless'
<1>1. hist'.races = hist.races \cup {"dropped"}
  BY QuietTypes DEF SmoThrow, Histories
<1> QED
  BY <1>1 DEF Lossless

\* Nothing on record stays nothing on record only by steps that add nothing.
LEMMA LosslessBefore ==
  ASSUME CInv, [Next]_vars, Lossless' PROVE Lossless /\ Healthy /\ Healthy'
BY RacesStay DEF Lossless, Healthy

\* Every step keeps the invariant as long as nothing is on record.
LEMMA NextEdges == CInv /\ ProtocolInv /\ EdgesInv /\ [Next]_vars => EdgesInv'
<1> SUFFICES ASSUME CInv, ProtocolInv, EdgesInv, [Next]_vars, Lossless'
             PROVE  \E lower \in [Vertices -> Nat] : EdgesSound(lower)'
  BY DEF EdgesInv
<1>1. Lossless /\ Healthy /\ Healthy' /\ ProtocolSound /\ ProtocolSound'
  BY LosslessBefore, NextProtocol DEF ProtocolInv
<1>2. PICK floor \in [Vertices -> Nat] : EdgesSound(floor)
  BY <1>1 DEF EdgesInv
<1>3. CASE UNCHANGED <<csr, cur, head, recs, chain, job, hist>>
  BY <1>2, <1>3, EdgesKept
<1>4. CASE \E w \in Writers : WriterStep(w)
  <2>1. PICK w \in Writers : WriterStep(w)
    BY <1>4
  <2>2. CASE WriterAppend(w)
    BY <1>1, <1>2, <2>2, WriterAppendEdges
  <2>3. CASE WriterClaim(w)
    BY <1>2, <2>3, WriterClaimEdges
  <2>4. CASE WriterProbe(w) \/ WriterCheck(w) \/ WriterThrows(w) \/ WriterReturn(w)
    BY <1>3, <2>4 DEF WriterProbe, WriterCheck, WriterThrows, WriterReturn, pvars
  <2> QED
    BY <2>1, <2>2, <2>3, <2>4 DEF WriterStep
<1>5. CASE \E k \in Jobs : JobStep(k)
  <2>1. PICK k \in Jobs : JobStep(k)
    BY <1>5
  <2>2. CASE SmoFetch(k) \/ SmoMerge(k) \/ SmoInstall(k) \/ SmoDrain(k)
    BY <1>1, <1>2, <2>2, SmoFetchEdges, SmoMergeEdges, SmoInstallEdges, SmoDrainEdges
  <2>3. CASE \/ SmoStray(k) \/ SmoStage(k) \/ PublishNext(k)
             \/ \E pc \in {"done", "threw"} : SmoDetach(k, pc)
    BY <1>1, <1>2, <2>3, SmoStrayEdges, SmoStageEdges, PublishNextEdges, SmoDetachEdges
  <2>4. CASE \E place \in Placements : SmoBuild(k, place)
    BY <1>1, <1>2, <2>4, SmoBuildEdges
  <2>5. CASE \E v \in Vertices : SmoFinalize(k, v)
    BY <1>1, <1>2, <2>5, SmoFinalizeEdges
  <2>6. CASE \E n \in 0 .. MaxParts : SmoThrow(k, n)
    BY <2>6, ThrowRecorded
  <2> QED
    BY <2>1, <2>2, <2>3, <2>4, <2>5, <2>6 DEF JobStep
<1>6. CASE \E k \in Jobs : Reclaim(k)
  BY <1>1, <1>2, <1>6, ReclaimEdges
<1>7. CASE PublishPending
  BY <1>3, <1>7 DEF PublishPending, pvars
<1>8. CASE \E w \in Writers, v \in Vertices, typ \in Ops, d \in Dsts : WriterLock(w, v, typ, d)
  BY <1>3, <1>8 DEF WriterLock, pvars
<1>9. CASE \/ \E r \in Readers, v \in Vertices : ReaderSnapshot(r, v)
           \/ \E r \in Readers : ReaderStep(r) \/ ReaderFinish(r)
  BY <1>3, <1>9 DEF ReaderSnapshot, ReaderStep, ReaderFinish, pvars
<1>10. CASE UNCHANGED vars
  BY <1>3, <1>10 DEF vars
<1> QED
  BY <1>4, <1>5, <1>6, <1>7, <1>8, <1>9, <1>10 DEF Next

\* As long as no late append, no early build, no preparation that throws and no
\* throw between two strays is on record, consolidation is transparent: in every
\* state, through every phase of every job, the CSR page of a vertex with its delta chain says
\* of each edge what the acknowledged calls of insert_edge and delete_edge say,
\* except of an edge that a stray of consolidate_pages has overtaken, and of one
\* whose strays are being rerouted.
THEOREM ConsolidationEdgesExact == Spec => []EdgesExact
<1>1. Spec => []EdgesInv
  BY ConsolidationInvariant, ConsolidationProtocol, InitEdges, NextEdges, PTL DEF Spec
<1> QED
  BY ConsolidationInvariant, <1>1, EdgesFromInv, PTL
-----------------------------------------------------------------------------
(* Readers *)

\* The records of v above b that a walk at location at has still to meet.
Left(R, v, at, b) == {l \in 1 .. at : R[l].src = v /\ l > b}

\* What the walk x will return for neighbour d if nothing cuts it.
WillSay(x, b, d) ==
  \/ d \in x.ins
  \/ d \notin x.del /\ Value(recs, Left(recs, x.v, x.at, b), x.v, d, Stored(csr[x.page], x.v, d))

\* The rest of the walk x is linked, and what it will return for an edge is a
\* state the edge has had during the call.
WalkSound(x, b) ==
  /\ Linked(recs, Left(recs, x.v, x.at, b), x.at)
  /\ x.ins \cap x.del = {}
  /\ \A d \in Dsts : \/ <<x.v, d>> \in hist.overtaken
                     \/ IF WillSay(x, b, d) THEN d \in x.in ELSE d \in x.out

ReaderSound(r) ==
  (rd[r].pc = "walk" /\ ~rd[r].torn) => \E b \in Nat : WalkSound(rd[r], b)

\* The inductive invariant of the readers, next to CInv, ProtocolInv and EdgesInv.
ReadersInv == Lossless => \A r \in Readers : ReaderSound(r)

\* A walk is typed, and at a record that exists.
LEMMA ReaderNow ==
  ASSUME CInv, NEW r \in Readers, rd[r].pc = "walk"
  PROVE  /\ rd[r] \in Walking /\ rd[r].v \in Vertices /\ rd[r].page \in Pages /\ rd[r].at \in Nat
         /\ rd[r].at <= Len(recs)
         /\ \A b \in Nat : Left(recs, rd[r].v, rd[r].at, b) \in SUBSET (1 .. Len(recs))
<1>1. rd[r] \in Walking /\ rd[r].at <= Len(recs)
  BY ReaderCases DEF CInv, TypeOK, LocsValid
<1>2. rd[r].v \in Vertices /\ rd[r].page \in Pages /\ rd[r].at \in Nat
  BY <1>1 DEF Walking
<1>3. Len(recs) \in Nat
  BY RecordsNow
<1>4. \A l \in 1 .. rd[r].at : l \in 1 .. Len(recs)
  BY <1>1, <1>2, <1>3
<1> QED
  BY <1>1, <1>2, <1>4 DEF Left

\* At the end of a walk nothing is left, and the result is what it was to say.
LEMMA ReadsFromInv == CInv /\ ReadersInv => ReadsRegular
<1> SUFFICES ASSUME CInv, ReadersInv, NEW r \in Readers, Lossless, rd[r].pc = "walk", rd[r].at = 0,
                    ~rd[r].torn, NEW d \in Dsts
             PROVE  \/ <<rd[r].v, d>> \in hist.overtaken
                    \/ IF d \in ReadResult(r) THEN d \in rd[r].in ELSE d \in rd[r].out
  BY DEF ReadsRegular
<1>1. PICK b \in Nat : WalkSound(rd[r], b)
  BY DEF ReadersInv, ReaderSound
<1> DEFINE x == rd[r]
           c == Stored(csr[x.page], x.v, d)
           T == Left(recs, x.v, x.at, b)
<1>2. T = {}
  BY DEF Left
<1>3. Value(recs, T, x.v, d, c) <=> c
  <2> HIDE DEF T, c
  <2>1. Hits(recs, T, x.v, d) = {}
    BY <1>2 DEF Hits
  <2> QED
    BY <2>1, ValueNone
<1>4. WillSay(x, b, d) <=> d \in x.ins \/ (d \notin x.del /\ c)
  BY <1>3 DEF WillSay
<1>5. d \in ReadResult(r) <=> (c \/ d \in x.ins) /\ d \notin x.del
  BY DEF ReadResult, Stored
<1>6. ~(d \in x.ins /\ d \in x.del)
  BY <1>1 DEF WalkSound
<1>7. \/ <<x.v, d>> \in hist.overtaken
      \/ IF WillSay(x, b, d) THEN d \in x.in ELSE d \in x.out
  BY <1>1 DEF WalkSound
<1>8. d \in ReadResult(r) <=> WillSay(x, b, d)
  <2> HIDE DEF c
  <2> QED
    BY <1>4, <1>5, <1>6
<1> QED
  BY <1>7, <1>8

\* A walk goes on as long as nothing it has still to read changes.
LEMMA WalkKept ==
  ASSUME CInv, NEW r \in Readers, rd[r].pc = "walk", NEW b \in Nat, WalkSound(rd[r], b),
         rd'[r].v = rd[r].v, rd'[r].page = rd[r].page, rd'[r].at = rd[r].at,
         rd'[r].ins = rd[r].ins, rd'[r].del = rd[r].del,
         rd[r].in \subseteq rd'[r].in, rd[r].out \subseteq rd'[r].out,
         csr'[rd[r].page] = csr[rd[r].page], hist.overtaken \subseteq hist'.overtaken,
         \A l \in 1 .. Len(recs) : /\ recs'[l].src = recs[l].src /\ recs'[l].dst = recs[l].dst
                                   /\ recs'[l].typ = recs[l].typ,
         \A l \in Left(recs, rd[r].v, rd[r].at, b) : recs'[l].next = recs[l].next
  PROVE  WalkSound(rd[r], b)'
<1>1. PICK x : x = rd[r]
  OBVIOUS
<1>2. PICK y : y = rd'[r]
  OBVIOUS
<1> DEFINE n == Len(recs)
           T == Left(recs, x.v, x.at, b)
<1>3. /\ x.at \in Nat /\ x.at <= n /\ n \in Nat /\ T \in SUBSET (1 .. n)
  BY <1>1, ReaderNow, RecordsNow
<1>4. \A l \in 1 .. x.at : l \in 1 .. n
  BY <1>3
<1>5. Left(recs', y.v, y.at, b) = T
  BY <1>1, <1>2, <1>4 DEF Left
<1>6. \A l \in T : /\ recs'[l].src = recs[l].src /\ recs'[l].dst = recs[l].dst
                   /\ recs'[l].typ = recs[l].typ /\ recs'[l].next = recs[l].next
  BY <1>1, <1>3
<1>7. y.v = x.v /\ y.page = x.page /\ y.at = x.at /\ y.ins = x.ins /\ y.del = x.del
  BY <1>1, <1>2
<1>8. Linked(recs, T, x.at) /\ x.ins \cap x.del = {}
  BY <1>1 DEF WalkSound
<1> HIDE DEF T, n
<1>9. Linked(recs', T, y.at)
  BY <1>6, <1>7, <1>8 DEF Linked
<1>10. ASSUME NEW d \in Dsts
       PROVE  \/ <<y.v, d>> \in hist'.overtaken
              \/ IF WillSay(y, b, d)' THEN d \in y.in ELSE d \in y.out
  <2> DEFINE c == Stored(csr[x.page], x.v, d)
             u == x.v
  <2>1. Value(recs', T, u, d, c) <=> Value(recs, T, u, d, c)
    <3> HIDE DEF c, u
    <3> QED
      BY <1>3, <1>6, ValueKept
  <2>2. WillSay(y, b, d)' <=> d \in y.ins \/ (d \notin y.del /\ Value(recs', T, u, d, c))
    BY <1>1, <1>5, <1>7 DEF WillSay
  <2>3. WillSay(x, b, d) <=> d \in x.ins \/ (d \notin x.del /\ Value(recs, T, u, d, c))
    BY DEF WillSay, T
  <2> HIDE DEF c, u
  <2>4. WillSay(y, b, d)' <=> WillSay(x, b, d)
    BY <1>7, <2>1, <2>2, <2>3
  <2>5. \/ <<x.v, d>> \in hist.overtaken
        \/ IF WillSay(x, b, d) THEN d \in x.in ELSE d \in x.out
    BY <1>1 DEF WalkSound
  <2> QED
    BY <1>1, <1>2, <1>7, <2>4, <2>5
<1>11. WalkSound(y, b)'
  BY <1>5, <1>7, <1>8, <1>9, <1>10 DEF WalkSound
<1> QED
  BY <1>2, <1>11

\* The same for a reader whose walk is not torn.
LEMMA ReaderKept ==
  ASSUME CInv, NEW r \in Readers, ReaderSound(r), rd[r].pc = "walk", ~rd[r].torn,
         rd'[r].v = rd[r].v, rd'[r].page = rd[r].page, rd'[r].at = rd[r].at,
         rd'[r].ins = rd[r].ins, rd'[r].del = rd[r].del,
         rd[r].in \subseteq rd'[r].in, rd[r].out \subseteq rd'[r].out,
         csr'[rd[r].page] = csr[rd[r].page], hist.overtaken \subseteq hist'.overtaken,
         \A l \in 1 .. Len(recs) : /\ recs'[l].src = recs[l].src /\ recs'[l].dst = recs[l].dst
                                   /\ recs'[l].typ = recs[l].typ,
         \A b \in Nat : Linked(recs, Left(recs, rd[r].v, rd[r].at, b), rd[r].at) =>
           \A l \in Left(recs, rd[r].v, rd[r].at, b) : recs'[l].next = recs[l].next
  PROVE  ReaderSound(r)'
<1>1. PICK b \in Nat : WalkSound(rd[r], b)
  BY DEF ReaderSound
<1>2. Linked(recs, Left(recs, rd[r].v, rd[r].at, b), rd[r].at)
  BY <1>1 DEF WalkSound
<1>3. \A l \in Left(recs, rd[r].v, rd[r].at, b) : recs'[l].next = recs[l].next
  BY <1>2
<1>4. WalkSound(rd[r], b)'
  BY <1>1, <1>3, WalkKept
<1> QED
  BY <1>4 DEF ReaderSound

\* A reader that does not move is not disturbed by a step that appends to the
\* records at most.
LEMMA ReaderRests ==
  ASSUME CInv, NEW r \in Readers, ReaderSound(r), rd'[r] = rd[r],
         rd[r].pc = "walk" => csr'[rd[r].page] = csr[rd[r].page],
         hist.overtaken \subseteq hist'.overtaken,
         \A l \in 1 .. Len(recs) : recs'[l] = recs[l]
  PROVE  ReaderSound(r)'
<1>1. CASE rd[r].pc = "walk" /\ ~rd[r].torn
  <2>1. \A b \in Nat : Left(recs, rd[r].v, rd[r].at, b) \in SUBSET (1 .. Len(recs))
    BY <1>1, ReaderNow
  <2>2. \A b \in Nat : \A l \in Left(recs, rd[r].v, rd[r].at, b) : recs'[l].next = recs[l].next
    BY <2>1
  <2> QED
    BY <1>1, <2>2, ReaderKept
<1>2. CASE ~(rd[r].pc = "walk" /\ ~rd[r].torn)
  BY <1>2 DEF ReaderSound
<1> QED
  BY <1>1, <1>2

\* The newest of the records left decides on its edge, and on no other.
LEMMA ValueStep ==
  ASSUME NEW R, NEW n \in Nat, NEW T \in SUBSET (1 .. n), NEW a \in T, \A m \in T : m <= a,
         NEW U, \A l : l \in U <=> l \in T /\ l < a, NEW v, NEW d, NEW c
  PROVE  /\ (R[a].src = v /\ R[a].dst = d) => (Value(R, T, v, d, c) <=> R[a].typ = "INSERT")
         /\ ~(R[a].src = v /\ R[a].dst = d) => (Value(R, U, v, d, c) <=> Value(R, T, v, d, c))
<1>1. ASSUME R[a].src = v, R[a].dst = d PROVE Value(R, T, v, d, c) <=> R[a].typ = "INSERT"
  <2>1. a \in Hits(R, T, v, d) /\ \A m \in Hits(R, T, v, d) : m <= a
    BY <1>1 DEF Hits
  <2> QED
    BY <2>1, ValueTop
<1>2. ASSUME ~(R[a].src = v /\ R[a].dst = d) PROVE Value(R, U, v, d, c) <=> Value(R, T, v, d, c)
  <2>0. \A m \in T : m \in Nat /\ (m < a \/ m = a)
    OBVIOUS
  <2>1. Hits(R, U, v, d) = Hits(R, T, v, d)
    BY <1>2, <2>0 DEF Hits
  <2> QED
    BY <2>1, ValueSame
<1> QED
  BY <1>1, <1>2

\* A snapshot starts at the head, with the whole chain left.
LEMMA SnapshotReaders ==
  ASSUME CInv, NEW floor \in [Vertices -> Nat], EdgesSound(floor), NEW r \in Readers,
         NEW v \in Vertices, ReaderSnapshot(r, v)
  PROVE  ReaderSound(r)'
<1> SUFFICES ASSUME ~rd'[r].torn PROVE WalkSound(rd[r], floor[v])'
  BY DEF ReaderSound
<1>1. PICK y : y = rd'[r]
  OBVIOUS
<1>2. PICK b : b = floor[v]
  OBVIOUS
<1>3. /\ y = [pc |-> "walk", v |-> v, page |-> cur[v].page, at |-> head[v],
              ins |-> {}, del |-> {}, in |-> hist.graph[v],
              out |-> Dsts \ hist.graph[v], torn |-> \E d \in Dsts : Replaying(v, d)]
      /\ UNCHANGED <<csr, recs, hist>>
  <2>1. rd \in [Readers -> Walking \cup {IdleReader}]
    BY QuietTypes
  <2> QED
    BY <1>1, <2>1 DEF ReaderSnapshot, pvars
<1>4. /\ y.v = v /\ y.page = cur[v].page /\ y.at = head[v] /\ y.ins = {} /\ y.del = {}
      /\ y.in = hist.graph[v] /\ y.out = Dsts \ hist.graph[v]
      /\ y.torn = \E d \in Dsts : Replaying(v, d)
  BY <1>3
<1>5. \A d \in Dsts : ~Replaying(v, d)
  BY <1>1, <1>4
<1> DEFINE S == Above(recs, v, b)
<1>6. Linked(recs, S, head[v]) /\ b \in Nat
  BY <1>2 DEF EdgesSound, ChainsLinked
<1>7. Left(recs, v, head[v], b) = S
  <2>1. Len(recs) \in Nat /\ head[v] \in Nat
    BY QuietTypes
  <2>2. (S = {} /\ head[v] = 0) \/ (head[v] \in S /\ \A m \in S : m <= head[v])
    BY <1>6 DEF Linked, IsTop
  <2>3. head[v] <= Len(recs)
    BY DEF CInv, TypeOK, LocsValid
  <2>4. \A l \in 1 .. head[v] : l \in 1 .. Len(recs)
    BY <2>1, <2>3
  <2>5. \A l \in S : l \in 1 .. head[v]
    BY <2>1, <2>2 DEF Above
  <2> QED
    BY <2>4, <2>5 DEF Left, Above
<1>8. ASSUME NEW d \in Dsts
      PROVE  \/ <<y.v, d>> \in hist'.overtaken
             \/ IF WillSay(y, b, d)' THEN d \in y.in ELSE d \in y.out
  <2>1. \/ <<v, d>> \in hist.overtaken
        \/ ChainSays(floor, v, d) <=> d \in hist.graph[v]
    BY <1>5 DEF EdgesSound, Exact
  <2>2. WillSay(y, b, d)' <=> ChainSays(floor, v, d)
    <3> DEFINE c == Stored(csr[cur[v].page], v, d)
    <3>1. WillSay(y, b, d)' <=> Value(recs, S, v, d, c)
      BY <1>3, <1>4, <1>7 DEF WillSay
    <3> QED
      BY <1>2, <3>1 DEF ChainSays
  <2> QED
    BY <1>3, <1>4, <2>1, <2>2
<1>9. Linked(recs', Left(recs', y.v, y.at, b), y.at)
  BY <1>3, <1>4, <1>6, <1>7
<1>10. WalkSound(y, b)'
  BY <1>4, <1>8, <1>9 DEF WalkSound
<1> QED
  BY <1>1, <1>2, <1>10

\* A step takes the newest record left and goes to the next one.
LEMMA StepReaders ==
  ASSUME CInv, NEW r \in Readers, ReaderSound(r), ReaderStep(r)
  PROVE  ReaderSound(r)'
<1>1. PICK x : x = rd[r]
  OBVIOUS
<1>2. PICK y : y = rd'[r]
  OBVIOUS
<1>3. PICK a : a = x.at
  OBVIOUS
<1>4. x \in Walking /\ a \in Nat /\ a # 0 /\ a <= Len(recs) /\ x.pc = "walk"
  BY <1>1, <1>3, ReaderNow DEF ReaderStep
<1>5. Len(recs) \in Nat /\ a \in 1 .. Len(recs)
  BY <1>4, QuietTypes
<1>6. PICK e : e = recs[a]
  OBVIOUS
<1>7. e.typ \in {"INSERT", "DELETE"} /\ e.dst \in Dsts /\ e.next \in Nat /\ e.next < a
  BY <1>5, <1>6, RecordsNow
<1>8. /\ y = [x EXCEPT !.at = e.next,
                !.ins = IF FirstSeen(r, e.dst) /\ e.typ = "INSERT" THEN @ \cup {e.dst} ELSE @,
                !.del = IF FirstSeen(r, e.dst) /\ e.typ = "DELETE" THEN @ \cup {e.dst} ELSE @]
      /\ UNCHANGED <<csr, recs, hist>>
  <2>1. rd \in [Readers -> Walking \cup {IdleReader}]
    BY QuietTypes
  <2> QED
    BY <1>1, <1>2, <1>3, <1>6, <2>1 DEF ReaderStep, pvars
<1>9. FirstSeen(r, e.dst) <=> e.dst \notin x.ins /\ e.dst \notin x.del
  BY <1>1 DEF FirstSeen
<1>10. /\ y.v = x.v /\ y.page = x.page /\ y.at = e.next /\ y.in = x.in /\ y.out = x.out
       /\ y.torn = x.torn
       /\ y.ins = IF FirstSeen(r, e.dst) /\ e.typ = "INSERT" THEN x.ins \cup {e.dst} ELSE x.ins
       /\ y.del = IF FirstSeen(r, e.dst) /\ e.typ = "DELETE" THEN x.del \cup {e.dst} ELSE x.del
  BY <1>4, <1>8 DEF Walking
<1> SUFFICES ASSUME ~x.torn PROVE \E b \in Nat : WalkSound(y, b)'
  BY <1>2, <1>10 DEF ReaderSound
<1>11. PICK b \in Nat : WalkSound(x, b)
  BY <1>1, <1>4 DEF ReaderSound
<1> DEFINE n == Len(recs)
           T == Left(recs, x.v, a, b)
           U == Left(recs, x.v, e.next, b)
<1>12. T \in SUBSET (1 .. n)
  BY <1>1, <1>3, <1>4, ReaderNow
<1>13. Linked(recs, T, a) /\ x.ins \cap x.del = {}
  BY <1>3, <1>11 DEF WalkSound
<1>14. a \in T /\ \A m \in T : m <= a
  BY <1>4, <1>13 DEF Linked, IsTop
<1>15. e.src = x.v
  BY <1>6, <1>14 DEF Left
<1>16. IsTop({m \in T : m < a}, e.next)
  BY <1>6, <1>13, <1>14 DEF Linked
<1>17. \A l : l \in U <=> l \in T /\ l < a
  <2>1. ASSUME NEW l, l \in U PROVE l \in T /\ l < a
    BY <1>4, <1>7, <2>1 DEF Left
  <2>2. ASSUME NEW l, l \in T, l < a PROVE l \in U
    <3>1. l \in {m \in T : m < a}
      BY <2>2
    <3>2. l <= e.next
      BY <1>16, <3>1 DEF IsTop
    <3> QED
      BY <1>7, <2>2, <3>2 DEF Left
  <2> QED
    BY <2>1, <2>2
<1> HIDE DEF T, U, n
<1>18. Linked(recs, U, e.next)
  <2>1. U = {m \in T : m < a}
    BY <1>17
  <2>2. ASSUME NEW l \in U PROVE IsTop({m \in U : m < l}, recs[l].next)
    <3>1. l \in T /\ l < a
      BY <1>17
    <3>2. \A m \in T : m < l => m < a
      <4>1. \A m \in T : m \in Nat
        BY <1>5, <1>12 DEF n
      <4> QED
        BY <1>4, <3>1, <4>1
    <3>3. {m \in U : m < l} = {m \in T : m < l}
      BY <1>17, <3>2
    <3> QED
      BY <1>13, <3>1, <3>3 DEF Linked
  <2> QED
    BY <1>16, <2>1, <2>2 DEF Linked
<1>19. ASSUME NEW d \in Dsts
       PROVE  \/ <<y.v, d>> \in hist'.overtaken
              \/ IF WillSay(y, b, d)' THEN d \in y.in ELSE d \in y.out
  <2> DEFINE c == Stored(csr[x.page], x.v, d)
             u == x.v
  <2>1. WillSay(y, b, d)' <=> d \in y.ins \/ (d \notin y.del /\ Value(recs, U, u, d, c))
    BY <1>8, <1>10 DEF WillSay, U
  <2>2. WillSay(x, b, d) <=> d \in x.ins \/ (d \notin x.del /\ Value(recs, T, u, d, c))
    BY <1>3 DEF WillSay, T
  <2>3. \/ <<x.v, d>> \in hist.overtaken
        \/ IF WillSay(x, b, d) THEN d \in x.in ELSE d \in x.out
    BY <1>11 DEF WalkSound
  <2>4. u = x.v
    OBVIOUS
  <2>5. recs[a].src = u
    BY <1>6, <1>15
  <2>6. n \in Nat
    BY <1>5 DEF n
  <2> HIDE DEF c, u
  <2>7a. /\ (recs[a].src = u /\ recs[a].dst = d) =>
              (Value(recs, T, u, d, c) <=> recs[a].typ = "INSERT")
         /\ ~(recs[a].src = u /\ recs[a].dst = d) =>
              (Value(recs, U, u, d, c) <=> Value(recs, T, u, d, c))
    BY <1>12, <1>14, <1>17, <2>6, ValueStep
  <2>7. /\ recs[a].dst = d => (Value(recs, T, u, d, c) <=> recs[a].typ = "INSERT")
        /\ recs[a].dst # d => (Value(recs, U, u, d, c) <=> Value(recs, T, u, d, c))
    BY <2>5, <2>7a
  <2>8. WillSay(y, b, d)' <=> WillSay(x, b, d)
    <3>1. CASE e.dst # d
      <4>1. (d \in y.ins <=> d \in x.ins) /\ (d \in y.del <=> d \in x.del)
        BY <1>10, <3>1
      <4> QED
        BY <1>6, <2>1, <2>2, <2>7, <3>1, <4>1
    <3>2. CASE e.dst = d /\ FirstSeen(r, e.dst)
      <4>1. d \notin x.ins /\ d \notin x.del
        BY <1>9, <3>2
      <4>2. WillSay(x, b, d) <=> e.typ = "INSERT"
        BY <1>6, <2>2, <2>7, <3>2, <4>1
      <4>3. CASE e.typ = "INSERT"
        <5>1. d \in y.ins
          BY <1>10, <3>2, <4>3
        <5> QED
          BY <2>1, <4>2, <4>3, <5>1
      <4>4. CASE e.typ = "DELETE"
        <5>1. d \notin y.ins /\ d \in y.del
          BY <1>10, <3>2, <4>1, <4>4
        <5> QED
          BY <2>1, <4>2, <4>4, <5>1
      <4> QED
        BY <1>7, <4>3, <4>4
    <3>3. CASE e.dst = d /\ ~FirstSeen(r, e.dst)
      <4>1. y.ins = x.ins /\ y.del = x.del /\ (d \in x.ins \/ d \in x.del)
        BY <1>9, <1>10, <3>3
      <4>2. ~(d \in x.ins /\ d \in x.del)
        BY <1>13
      <4> QED
        BY <2>1, <2>2, <4>1, <4>2
    <3> QED
      BY <3>1, <3>2, <3>3
  <2> QED
    BY <1>8, <1>10, <2>3, <2>8
<1>20. y.ins \cap y.del = {}
  <2>1. \A d : ~(d \in y.ins /\ d \in y.del)
    BY <1>9, <1>10, <1>13
  <2> QED
    BY <2>1
<1>21. Linked(recs', Left(recs', y.v, y.at, b), y.at)
  BY <1>8, <1>10, <1>18 DEF U
<1>22. WalkSound(y, b)'
  BY <1>19, <1>20, <1>21 DEF WalkSound
<1> QED
  BY <1>22

\* An append leaves the records of a walk alone and widens what it may report.
LEMMA WriterAppendReaders ==
  ASSUME CInv, ProtocolSound, Healthy, Healthy', NEW w \in Writers, WriterAppend(w),
         NEW r \in Readers, ReaderSound(r)
  PROVE  ReaderSound(r)'
<1>1. PICK rec : recs' = Append(recs, rec) /\ hist'.overtaken = hist.overtaken /\ csr' = csr
  <2>1. PICK rec : rec = Record(wr[w].v, wr[w].typ, wr[w].d, head[wr[w].v])
    OBVIOUS
  <2>2. recs' = Append(recs, rec) /\ csr' = csr
    BY <2>1 DEF WriterAppend, pvars
  <2>3. \E g, a, b : hist' = [hist EXCEPT !.graph = g, !.races = a, !.rerouted = b]
    BY DEF WriterAppend
  <2>4. hist'.overtaken = hist.overtaken
    BY <2>3, QuietTypes DEF Histories
  <2> QED
    BY <2>2, <2>4
<1>2. \A l \in 1 .. Len(recs) : recs'[l] = recs[l]
  BY <1>1, QuietTypes
<1>3. \/ rd'[r] = rd[r]
      \/ rd[r].pc # "idle" /\ \E h, g : rd'[r] = [rd[r] EXCEPT !.in = @ \cup h, !.out = @ \cup g]
  BY DEF WriterAppend
<1>4. CASE rd'[r] = rd[r]
  BY <1>1, <1>2, <1>4, ReaderRests
<1>5. CASE rd[r].pc # "idle" /\ \E h, g : rd'[r] = [rd[r] EXCEPT !.in = @ \cup h, !.out = @ \cup g]
  <2>1. rd[r] \in Walking /\ rd[r].pc = "walk"
    BY <1>5, ReaderCases DEF CInv, TypeOK
  <2>2. PICK h, g : rd'[r] = [rd[r] EXCEPT !.in = @ \cup h, !.out = @ \cup g]
    BY <1>5
  <2>3. PICK x : x = rd[r]
    OBVIOUS
  <2>4. PICK y : y = [x EXCEPT !.in = @ \cup h, !.out = @ \cup g]
    OBVIOUS
  <2>5. /\ y.v = x.v /\ y.page = x.page /\ y.at = x.at /\ y.ins = x.ins /\ y.del = x.del
        /\ y.in = x.in \cup h /\ y.out = x.out \cup g /\ y.torn = x.torn
    BY <2>1, <2>3, <2>4 DEF Walking
  <2>6. rd'[r] = y
    BY <2>2, <2>3, <2>4
  <2>7. CASE ~x.torn
    <3>1. \A b \in Nat : Left(recs, rd[r].v, rd[r].at, b) \in SUBSET (1 .. Len(recs))
      BY <2>1, ReaderNow
    <3>2. \A b \in Nat : \A l \in Left(recs, rd[r].v, rd[r].at, b) : recs'[l].next = recs[l].next
      BY <1>2, <3>1
    <3>3. /\ rd'[r].v = rd[r].v /\ rd'[r].page = rd[r].page /\ rd'[r].at = rd[r].at
          /\ rd'[r].ins = rd[r].ins /\ rd'[r].del = rd[r].del
      BY <2>3, <2>5, <2>6
    <3>4. rd[r].in \subseteq rd'[r].in /\ rd[r].out \subseteq rd'[r].out
      BY <2>3, <2>5, <2>6
    <3> QED
      BY <1>1, <1>2, <2>1, <2>3, <2>7, <3>2, <3>3, <3>4, ReaderKept
  <2>8. CASE x.torn
    BY <2>5, <2>6, <2>8 DEF ReaderSound
  <2> QED
    BY <2>7, <2>8
<1> QED
  BY <1>3, <1>4, <1>5

\* So does a stray that is rerouted.
LEMMA SmoStrayReaders ==
  ASSUME CInv, ProtocolSound, NEW k \in Jobs, SmoStray(k), NEW r \in Readers, ReaderSound(r)
  PROVE  ReaderSound(r)'
<1>1. csr' = csr /\ rd' = rd
  BY DEF SmoStray, pvars, rvars
<1>2. recs' = recs \/ \E rec : recs' = Append(recs, rec)
  BY DEF SmoStray
<1>3. \A l \in 1 .. Len(recs) : recs'[l] = recs[l]
  <2>1. recs \in Seq(Records)
    BY QuietTypes
  <2> QED
    BY <1>2, <2>1
<1>4. \/ hist' = hist
      \/ \E o : hist' = [hist EXCEPT !.overtaken = @ \cup o]
      \/ \E e : hist' = [hist EXCEPT !.races = @ \cup {e}]
  BY DEF SmoStray
<1>5. hist.overtaken \subseteq hist'.overtaken
  BY <1>4, QuietTypes DEF Histories
<1> QED
  BY <1>1, <1>3, <1>5, ReaderRests

\* The pages a job builds are unused, so no reader is on one of them.
LEMMA SmoBuildReaders ==
  ASSUME CInv, ProtocolSound, NEW k \in Jobs, NEW place \in Placements, SmoBuild(k, place),
         Healthy, Healthy', NEW r \in Readers, ReaderSound(r)
  PROVE  ReaderSound(r)'
<1>1. PICK pgs : /\ \A p \in pgs : PageUnused(p)
                 /\ \A p \in Pages \ pgs : csr'[p] = csr[p]
                 /\ hist' = hist
  BY BuildTakes
<1>2. rd' = rd /\ recs' = recs
  BY DEF SmoBuild, rvars
<1>3. ASSUME rd[r].pc = "walk" PROVE csr'[rd[r].page] = csr[rd[r].page]
  <2>1. rd[r].page \in Pages
    BY <1>3, ReaderNow
  <2>2. rd[r].page \notin pgs
    BY <1>1, <1>3 DEF PageUnused
  <2> QED
    BY <1>1, <2>1, <2>2
<1> QED
  BY <1>1, <1>2, <1>3, ReaderRests

\* A cut that does not tear a walk does not touch what it has still to read.
LEMMA SmoFinalizeReaders ==
  ASSUME CInv, ProtocolSound, NEW k \in Jobs, NEW v \in Vertices, SmoFinalize(k, v),
         NEW r \in Readers, ReaderSound(r)
  PROVE  ReaderSound(r)'
<1>1. PICK t : t = job[k].tail[v]
  OBVIOUS
<1>2. UNCHANGED <<csr, hist>>
  BY DEF SmoFinalize, pvars
<1>3. /\ \A l \in 1 .. Len(recs) : /\ recs'[l].src = recs[l].src /\ recs'[l].dst = recs[l].dst
                                   /\ recs'[l].typ = recs[l].typ
      /\ \A l \in 1 .. Len(recs) : l # t => recs'[l] = recs[l]
      /\ t # 0 => recs'[t].next = 0
  BY <1>1, FinalizeCuts
<1>4. rd'[r] = IF t # 0 /\ CutBy(r, t) THEN [rd[r] EXCEPT !.torn = TRUE] ELSE rd[r]
  BY <1>1 DEF SmoFinalize
<1>5. CASE t # 0 /\ CutBy(r, t)
  <2>1. rd[r] \in Walking
    BY <1>5, ReaderCases DEF CutBy, CInv, TypeOK
  <2>2. rd'[r].torn
    BY <1>4, <1>5, <2>1 DEF Walking
  <2> QED
    BY <2>2 DEF ReaderSound
<1>6. CASE ~(t # 0 /\ CutBy(r, t))
  <2>1. rd'[r] = rd[r]
    BY <1>4, <1>6
  <2>2. CASE ~(rd[r].pc = "walk" /\ ~rd[r].torn)
    BY <2>1, <2>2 DEF ReaderSound
  <2>3. CASE rd[r].pc = "walk" /\ ~rd[r].torn
    <3>1. ASSUME NEW b \in Nat, Linked(recs, Left(recs, rd[r].v, rd[r].at, b), rd[r].at),
                 NEW l \in Left(recs, rd[r].v, rd[r].at, b)
          PROVE  recs'[l].next = recs[l].next
      <4> DEFINE T == Left(recs, rd[r].v, rd[r].at, b)
                 h == rd[r].at
      <4>1. T \in SUBSET (1 .. Len(recs)) /\ l \in T /\ Linked(recs, T, h)
        BY <2>3, <3>1, ReaderNow
      <4>2. h = rd[r].at
        OBVIOUS
      <4> HIDE DEF T, h
      <4>3. Walk[h] \in Seq(Nat) /\ Locs(Walk[h]) = T
        BY <4>1, RecordsNow, WalkLinked
      <4>4. CASE l # t
        BY <1>3, <4>1, <4>4
      <4>5. CASE l = t
        <5>1. t # 0
          BY <4>1, <4>5, QuietTypes
        <5>2. t \in Locs(Walk[h])
          BY <4>1, <4>3, <4>5
        <5>3. t \in {Walk[h][i] : i \in DOMAIN Walk[h]}
          BY <4>3, <5>2 DEF Locs
        <5>4. recs[t].next = 0
          BY <1>6, <2>3, <4>2, <5>1, <5>3 DEF CutBy
        <5> QED
          BY <1>3, <4>5, <5>1, <5>4
      <4> QED
        BY <4>4, <4>5
    <3>2. \A b \in Nat : Linked(recs, Left(recs, rd[r].v, rd[r].at, b), rd[r].at) =>
            \A l \in Left(recs, rd[r].v, rd[r].at, b) : recs'[l].next = recs[l].next
      BY <3>1
    <3> QED
      BY <1>2, <1>3, <2>1, <2>3, <3>2, ReaderKept
  <2> QED
    BY <2>2, <2>3
<1> QED
  BY <1>5, <1>6

\* Initially nobody reads.
LEMMA InitReaders == Init => ReadersInv
<1> SUFFICES ASSUME Init, NEW r \in Readers PROVE rd[r].pc # "walk"
  BY DEF ReadersInv, ReaderSound
<1> QED
  BY DEF Init, IdleReader

\* Every step keeps what the readers will report sound.
LEMMA NextReaders ==
  CInv /\ ProtocolInv /\ EdgesInv /\ ReadersInv /\ [Next]_vars => ReadersInv'
<1> SUFFICES ASSUME CInv, ProtocolInv, EdgesInv, ReadersInv, [Next]_vars, Lossless',
                    NEW r \in Readers
             PROVE  ReaderSound(r)'
  BY DEF ReadersInv
<1>1. Lossless /\ Healthy /\ Healthy' /\ ProtocolSound
  BY LosslessBefore DEF ProtocolInv
<1>2. PICK floor \in [Vertices -> Nat] : EdgesSound(floor)
  BY <1>1 DEF EdgesInv
<1>3. ReaderSound(r)
  BY <1>1 DEF ReadersInv
<1>4. CASE UNCHANGED <<csr, recs, hist>> /\ rd'[r] = rd[r]
  BY <1>3, <1>4, ReaderRests
<1>5. CASE \E w \in Writers : WriterStep(w)
  <2>1. PICK w \in Writers : WriterStep(w)
    BY <1>5
  <2>2. CASE WriterAppend(w)
    BY <1>1, <1>3, <2>2, WriterAppendReaders
  <2>3. CASE WriterProbe(w) \/ WriterCheck(w) \/ WriterClaim(w) \/ WriterThrows(w) \/ WriterReturn(w)
    BY <1>4, <2>3 DEF WriterProbe, WriterCheck, WriterClaim, WriterThrows, WriterReturn, pvars, rvars
  <2> QED
    BY <2>1, <2>2, <2>3 DEF WriterStep
<1>6. CASE \E k \in Jobs : JobStep(k)
  <2>1. PICK k \in Jobs : JobStep(k)
    BY <1>6
  <2>2. CASE SmoFetch(k) \/ SmoMerge(k) \/ SmoInstall(k) \/ SmoDrain(k)
    BY <1>4, <2>2 DEF SmoFetch, SmoMerge, SmoInstall, SmoDrain, pvars, rvars
  <2>3. CASE SmoStage(k) \/ PublishNext(k) \/ \E pc \in {"done", "threw"} : SmoDetach(k, pc)
    BY <1>4, <2>3 DEF SmoStage, PublishNext, SmoDetach, pvars, rvars
  <2>4. CASE SmoStray(k)
    BY <1>1, <1>3, <2>4, SmoStrayReaders
  <2>5. CASE \E place \in Placements : SmoBuild(k, place)
    BY <1>1, <1>3, <2>5, SmoBuildReaders
  <2>6. CASE \E v \in Vertices : SmoFinalize(k, v)
    BY <1>1, <1>3, <2>6, SmoFinalizeReaders
  <2>7. CASE \E n \in 0 .. MaxParts : SmoThrow(k, n)
    BY <2>7, ThrowRecorded
  <2> QED
    BY <2>1, <2>2, <2>3, <2>4, <2>5, <2>6, <2>7 DEF JobStep
<1>7. CASE \E k \in Jobs : Reclaim(k)
  BY <1>4, <1>7 DEF Reclaim, rvars
<1>8. CASE PublishPending
  BY <1>4, <1>8 DEF PublishPending, pvars, rvars
<1>9. CASE \E w \in Writers, v \in Vertices, typ \in Ops, d \in Dsts : WriterLock(w, v, typ, d)
  BY <1>4, <1>9 DEF WriterLock, pvars, rvars
<1>10. CASE \E s \in Readers, v \in Vertices : ReaderSnapshot(s, v)
  <2>1. PICK s \in Readers, v \in Vertices : ReaderSnapshot(s, v)
    BY <1>10
  <2>2. CASE s = r
    BY <1>2, <2>1, <2>2, SnapshotReaders
  <2>3. CASE s # r
    BY <1>4, <2>1, <2>3, QuietTypes DEF ReaderSnapshot, pvars
  <2> QED
    BY <2>2, <2>3
<1>11. CASE \E s \in Readers : ReaderStep(s) \/ ReaderFinish(s)
  <2>1. PICK s \in Readers : ReaderStep(s) \/ ReaderFinish(s)
    BY <1>11
  <2>2. CASE s = r /\ ReaderStep(s)
    BY <1>3, <2>2, StepReaders
  <2>3. CASE s = r /\ ReaderFinish(s)
    <3>1. rd'[r] = IdleReader
      BY <2>3, QuietTypes DEF ReaderFinish
    <3> QED
      BY <3>1 DEF ReaderSound, IdleReader
  <2>4. CASE s # r
    BY <1>4, <2>1, <2>4, QuietTypes DEF ReaderStep, ReaderFinish, pvars
  <2> QED
    BY <2>1, <2>2, <2>3, <2>4
<1>12. CASE UNCHANGED vars
  BY <1>4, <1>12 DEF vars
<1> QED
  BY <1>5, <1>6, <1>7, <1>8, <1>9, <1>10, <1>11, <1>12 DEF Next

\* As long as no late append, no early build, no preparation that throws and no
\* throw between two strays is on record, a call of read_neighbor_clone is
\* regular: whatever writers and jobs do while it walks the chain, it reports of each edge a state
\* the edge had during the call, unless finalize_consolidation cut the chain
\* below the walk or the edge was overtaken by a stray.
THEOREM ConsolidationReadsRegular == Spec => []ReadsRegular
<1>1. Spec => []EdgesInv
  BY ConsolidationInvariant, ConsolidationProtocol, InitEdges, NextEdges, PTL DEF Spec
<1>2. Spec => []ReadersInv
  BY ConsolidationInvariant, ConsolidationProtocol, <1>1, InitReaders, NextReaders, PTL DEF Spec
<1> QED
  BY ConsolidationInvariant, <1>2, ReadsFromInv, PTL
=============================================================================
