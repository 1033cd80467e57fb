------------------------------ MODULE TxnProof ------------------------------
(***************************************************************************)
(* Proofs about the transactions for any number of transactions, vertices, *)
(* operations and consolidations.  The serializability check:              *)
(* cleanup_old_txns never drops a write set that an undisturbed            *)
(* transaction has yet to be checked against, so a serializable            *)
(* transaction whose keys have changed does not commit (TxnInv).  The      *)
(* reads: no reader sees a write outside its snapshot, an undisturbed one  *)
(* sees its snapshot, and consolidation keeps the committed graph          *)
(* (MvccInv).                                                              *)
(***************************************************************************)
EXTENDS Txn, FiniteSetTheorems, WellFoundedInduction, TLAPS

Keys == Seq(Vertices)

TxType ==
  [pc : {"new", "loaded", "open", "apply", "done", "gone"}, read_ts : Nat, ops : Seq(Ops),
   reads : SUBSET Keys, next : Nat \ {0}, commit_ts : Nat, clean : BOOLEAN]

Entry == [ops : Seq(Ops \cup {Nothing}), hashes : SUBSET Keys]

TxnTyped ==
  /\ tx \in [Txns -> TxType] /\ log \in Seq(Entry)
  /\ current_ts \in Nat /\ Len(log) = current_ts
  /\ commit_lock \in Txns \cup {NoTxn} /\ is_delete \in SUBSET Vertices
  /\ \A t \in Txns : tx[t].read_ts <= current_ts

\* The transaction that applies its writes holds the commit lock.
LockHeld == \A t \in Txns : tx[t].pc = "apply" <=> commit_lock = t

\* The reader count of a timestamp is the number of transactions registered there.
RegisteredAt(s) == {t \in Txns : tx[t].pc \in {"open", "apply", "done"} /\ tx[t].read_ts = s}
ReadersExact == /\ readers \in [Timestamps -> Nat]
                /\ \A s \in Timestamps : readers[s] = Cardinality(RegisteredAt(s))

\* Each timestamp was given to a transaction that has gone through commit.
Ended == {t \in Txns : tx[t].pc \in {"apply", "done", "gone"}}
CommitsCounted == current_ts <= Cardinality(Ended)

\* The commit under way is the latest, and its key hashes are logged.
ApplyingLatest ==
  \A t \in Txns : tx[t].pc = "apply" =>
    /\ tx[t].commit_ts = current_ts /\ tx[t].read_ts < current_ts
    /\ log[current_ts].hashes = IF t \in Serializable THEN Hashes(t) ELSE {}

\* Every commit after the snapshot of an undisturbed transaction, the one under
\* way apart, has its write set on record.
OnRecord(s) == \A h \in log[s].hashes : <<s, h>> \in committed_txns
Finished(s) == \A u \in Txns : tx[u].pc = "apply" => tx[u].commit_ts # s
WriteSetsKept ==
  \A t \in Txns : (tx[t].pc \in {"loaded", "open"} /\ tx[t].clean) =>
    \A s \in tx[t].read_ts + 1 .. current_ts : Finished(s) => OnRecord(s)

\* The inductive invariant of the conflict records.
TxnInv ==
  /\ TxnTyped /\ LockHeld /\ ReadersExact /\ CommitsCounted /\ ApplyingLatest /\ WriteSetsKept
  /\ ReadKeysUnchanged

\* The commit under way has still to apply the operations from next on.
ToApply ==
  \A t \in Txns : tx[t].pc = "apply" =>
    LET ops == log[tx[t].commit_ts].ops
    IN /\ Len(ops) = Len(tx[t].ops) /\ tx[t].next <= Len(ops) + 1
       /\ \A i \in tx[t].next .. Len(ops) : ops[i] = tx[t].ops[i]

\* A transaction that has not committed has applied nothing.
Fresh == \A t \in Txns : tx[t].pc \in {"new", "loaded", "open"} => tx[t].next = 1

\* The operation at x has been applied, and was an edge operation that took effect.
Applied(x) ==
  \A u \in Txns : (tx[u].pc = "apply" /\ tx[u].commit_ts = x[1]) => x[2] < tx[u].next
EdgeKinds == {"INSERT_EDGE", "DELETE_EDGE"}
Effect == {x \in Positions(Len(log)) : log[x[1]].ops[x[2]].kind \in EdgeKinds /\ Applied(x)}

\* Delta records, and the place in the log each of them comes from.
RecordType == [type : {"INSERT", "DELETE"}, e : Vertices \X Vertices, ts : Nat, at : Nat]
PlaceOf(r) == <<r.ts, r.at>>
Logged(r) ==
  /\ r \in RecordType /\ PlaceOf(r) \in Effect
  /\ log[r.ts].ops[r.at] =
       [kind |-> IF r.type = "INSERT" THEN "INSERT_EDGE" ELSE "DELETE_EDGE", e |-> r.e]

\* The consolidation's lists have finitely many positions.
Lists == UNION {[D -> RecordType] : D \in SUBSET (Nat \ {0})}
Bounded(list) == \E n \in Nat : DOMAIN list \subseteq 1 .. n
ListsTyped ==
  /\ chain \in Seq(RecordType)
  /\ smo \in [pc : {"idle", "split", "drain", "restore", "reroute"},
              got : Lists, queue : Lists]
  /\ Bounded(smo.got)
  /\ smo.pc = "idle" => DOMAIN smo.got = {}
  /\ smo.pc \in {"idle", "split"} => DOMAIN smo.queue = {}
  /\ csr \in SUBSET [e : Vertices \X Vertices, ts : Nat]
RecordsLogged == \A r \in Reachable : Logged(r)

\* What has been merged comes before everything that can still be reached, and
\* what is about to be merged before everything that will be left.
Merged == {x \in Effect : \A r \in Reachable : PlaceOf(r) # x}
MergedFirst == \A x \in Merged : \A r \in Reachable : Earlier(x, PlaceOf(r))
Left == Range(chain) \cup Range(smo.queue)
SplitApart == \A r \in Range(smo.got) : \A q \in Left : Older(r, q)

\* The records of an edge are in order unless one was put back behind a younger one.
InOrder(list) ==
  \A i, j \in DOMAIN list :
    (i < j /\ list[i].e = list[j].e /\ list[i].e \notin crossed) => ~Older(list[j], list[i])
ChainsOrdered == InOrder(chain) /\ InOrder(smo.got)

\* The base page is what the merged operations make of the initial graph.
MergedOps(kind, e) == {x \in Merged : log[x[1]].ops[x[2]] = [kind |-> kind, e |-> e]}
CsrHas(e) == \E y \in csr : y.e = e
MergedHas(e) ==
  \/ e \in Base /\ MergedOps("DELETE_EDGE", e) = {}
  \/ \E x \in MergedOps("INSERT_EDGE", e) : \A y \in MergedOps("DELETE_EDGE", e) : Earlier(y, x)
CsrExact == \A e \in Vertices \X Vertices : e \notin crossed => (CsrHas(e) <=> MergedHas(e))
CsrLogged ==
  \A y \in csr : \/ y.ts = INVALID_TS /\ y.e \in Base
                 \/ \E x \in Effect : /\ x[1] = y.ts
                                      /\ log[x[1]].ops[x[2]] = [kind |-> "INSERT_EDGE", e |-> y.e]

\* For an undisturbed transaction every commit of its snapshot has been applied, and
\* nothing younger than its snapshot has been merged or is about to be.
Undisturbed(t) == tx[t].pc \in {"loaded", "open"} /\ tx[t].clean
SnapshotApplied ==
  \A t, u \in Txns : (Undisturbed(t) /\ tx[u].pc = "apply") => tx[t].read_ts < tx[u].commit_ts
MergedOld ==
  \A t \in Txns : Undisturbed(t) =>
    /\ \A x \in Merged : x[1] <= tx[t].read_ts
    /\ \A y \in csr : y.ts <= tx[t].read_ts
    /\ smo.pc # "split" => \A r \in Range(smo.got) : r.ts <= tx[t].read_ts

\* The inductive invariant of the reads and merges.
MvccInv ==
  /\ TxnInv /\ ToApply /\ Fresh /\ ListsTyped /\ RecordsLogged /\ MergedFirst /\ SplitApart /\ ChainsOrdered
  /\ CsrExact /\ CsrLogged /\ SnapshotApplied /\ MergedOld

-----------------------------------------------------------------------------
(* Counting *)

LEMMA TxnsFinite == IsFiniteSet(Txns) /\ Cardinality(Txns) \in Nat
BY TxnAssumption, FS_CardinalityType

LEMMA CountGrows ==
  ASSUME NEW A \in SUBSET Txns, NEW B \in SUBSET Txns, A \subseteq B
  PROVE  /\ IsFiniteSet(A) /\ Cardinality(A) \in Nat /\ Cardinality(B) \in Nat
         /\ Cardinality(A) <= Cardinality(B) /\ Cardinality(B) <= Cardinality(Txns)
<1>1. IsFiniteSet(A) /\ IsFiniteSet(B)
  BY TxnsFinite, FS_Subset
<1>2. Cardinality(A) <= Cardinality(B) /\ Cardinality(B) <= Cardinality(Txns)
  BY <1>1, TxnsFinite, FS_Subset
<1> QED
  BY <1>1, <1>2, FS_CardinalityType

\* Timestamps stay within the bound the watermark scans.
LEMMA InTimestamps ==
  ASSUME TxnInv
  PROVE  current_ts \in Timestamps /\ \A t \in Txns : tx[t].read_ts \in Timestamps
<1>1. Cardinality(Ended) \in Nat /\ Cardinality(Ended) <= Cardinality(Txns)
  BY CountGrows DEF Ended
<1>2. current_ts \in Nat /\ \A t \in Txns : tx[t].read_ts \in Nat /\ tx[t].read_ts <= current_ts
  BY DEF TxnInv, TxnTyped, TxType
<1> QED
  BY <1>1, <1>2, TxnsFinite DEF TxnInv, CommitsCounted, Timestamps

LEMMA LeastNatural ==
  ASSUME NEW S \in SUBSET Nat, S # {}
  PROVE  \E m \in S : \A y \in S : m <= y
<1> DEFINE R == OpToRel(<, Nat)
<1>1. \A x, y \in Nat : x < y => <<x, y>> \in R
  BY DEF OpToRel
<1>2. IsWellFoundedOn(R, Nat)
  BY NatLessThanWellFounded
<1> HIDE DEF R
<1>3. PICK m \in S : \A y \in S : ~(<<y, m>> \in R)
  BY <1>2, WFMin
<1>4. \A y \in S : ~(y < m)
  BY <1>1, <1>3
<1> QED
  BY <1>4

\* A registered transaction holds the watermark back; a transaction that has
\* read its timestamp and is not registered is overlooked or not behind it.
LEMMA Watermark ==
  ASSUME TxnInv
  PROVE  /\ get_watermark \in Nat
         /\ \A t \in Txns : tx[t].pc \in {"open", "apply", "done"} => get_watermark <= tx[t].read_ts
<1> DEFINE active == {s \in Timestamps : readers[s] > 0}
<1>1. active \subseteq Nat
  BY TxnsFinite DEF Timestamps
<1>2. CASE active = {}
  <2>1. get_watermark = current_ts
    BY <1>2 DEF get_watermark
  <2>2. ASSUME NEW t \in Txns, tx[t].pc \in {"open", "apply", "done"}
        PROVE  FALSE
    <3>1. tx[t].read_ts \in Timestamps
      BY InTimestamps
    <3>2. t \in RegisteredAt(tx[t].read_ts)
      BY <2>2 DEF RegisteredAt
    <3>3. Cardinality(RegisteredAt(tx[t].read_ts)) # 0
      BY <3>2, CountGrows, FS_EmptySet DEF RegisteredAt
    <3>4. readers[tx[t].read_ts] \in Nat /\ readers[tx[t].read_ts] # 0
      BY <3>1, <3>3 DEF TxnInv, ReadersExact
    <3> QED
      BY <1>2, <3>1, <3>4
  <2> QED
    BY <2>1, <2>2 DEF TxnInv, TxnTyped
<1>3. CASE active # {}
  <2>1. \E m \in active : \A y \in active : m <= y
    BY <1>1, <1>3, LeastNatural
  <2>2. get_watermark = Min(active)
    BY <1>3 DEF get_watermark
  <2> HIDE DEF active
  <2>3. Min(active) \in active /\ \A y \in active : Min(active) <= y
    BY <2>1 DEF Min
  <2>4. ASSUME NEW t \in Txns, tx[t].pc \in {"open", "apply", "done"}
        PROVE  tx[t].read_ts \in active
    <3>1. tx[t].read_ts \in Timestamps
      BY InTimestamps
    <3>2. t \in RegisteredAt(tx[t].read_ts)
      BY <2>4 DEF RegisteredAt
    <3>3. Cardinality(RegisteredAt(tx[t].read_ts)) # 0
      BY <3>2, CountGrows, FS_EmptySet DEF RegisteredAt
    <3>4. readers[tx[t].read_ts] \in Nat /\ readers[tx[t].read_ts] # 0
      BY <3>1, <3>3 DEF TxnInv, ReadersExact
    <3> QED
      BY <3>1, <3>4 DEF active
  <2> QED
    BY <1>1, <2>2, <2>3, <2>4
<1> QED
  BY <1>2, <1>3
-----------------------------------------------------------------------------
(* Steps that move one transaction and no commit *)

\* A step of one transaction t that is not applying writes, before or after:
\* what it must respect to preserve every part but the reader counts.
Settled(t) ==
  /\ tx' \in [Txns -> TxType] /\ \A u \in Txns : u # t => tx'[u] = tx[u]
  /\ tx[t].pc # "apply" /\ tx'[t].pc # "apply"
  /\ tx[t].pc \in {"done", "gone"} => tx'[t].pc \in {"done", "gone"}
  /\ tx'[t].read_ts <= current_ts
  /\ (tx'[t].pc \in {"loaded", "open"} /\ tx'[t].clean) =>
       \/ tx'[t].read_ts = current_ts
       \/ tx'[t].read_ts = tx[t].read_ts /\ tx[t].pc \in {"loaded", "open"} /\ tx[t].clean
  /\ UNCHANGED <<current_ts, log, commit_lock, committed_txns, is_delete>>

LEMMA SettledStep ==
  ASSUME TxnInv, NEW t \in Txns, Settled(t)
  PROVE  /\ TxnTyped' /\ LockHeld' /\ CommitsCounted' /\ ApplyingLatest' /\ WriteSetsKept'
         /\ ReadKeysUnchanged'
<1>1. TxnTyped'
  BY DEF TxnInv, TxnTyped, Settled
<1>2. LockHeld'
  BY DEF TxnInv, LockHeld, Settled
<1>3. CommitsCounted'
  <2>1. Ended \subseteq Ended' /\ Ended \in SUBSET Txns /\ Ended' \in SUBSET Txns
    BY DEF Ended, Settled
  <2>2. Cardinality(Ended) \in Nat /\ Cardinality(Ended') \in Nat
        /\ Cardinality(Ended) <= Cardinality(Ended')
    BY <2>1, CountGrows
  <2>3. current_ts \in Nat /\ current_ts <= Cardinality(Ended) /\ current_ts' = current_ts
    BY DEF TxnInv, TxnTyped, CommitsCounted, Settled
  <2> QED
    BY <2>2, <2>3 DEF CommitsCounted
<1>4. ApplyingLatest'
  <2> SUFFICES ASSUME NEW u \in Txns, tx'[u].pc = "apply"
               PROVE  /\ tx'[u].commit_ts = current_ts' /\ tx'[u].read_ts < current_ts'
                      /\ log'[current_ts'].hashes = IF u \in Serializable THEN Hashes(u)' ELSE {}
    BY DEF ApplyingLatest
  <2>1. tx'[u] = tx[u] /\ current_ts' = current_ts /\ log' = log
    BY DEF Settled
  <2> QED
    BY <2>1 DEF TxnInv, ApplyingLatest, Hashes
<1>5. WriteSetsKept'
  <2> SUFFICES ASSUME NEW u \in Txns, tx'[u].pc \in {"loaded", "open"}, tx'[u].clean,
                      NEW s \in tx'[u].read_ts + 1 .. current_ts', Finished(s)'
               PROVE  OnRecord(s)'
    BY DEF WriteSetsKept
  <2>1. Finished(s)
    BY DEF Finished, Settled
  <2>2. OnRecord(s)
    <3>1. CASE u # t
      BY <2>1, <3>1 DEF TxnInv, WriteSetsKept, Settled
    <3>2. CASE u = t /\ tx'[u].read_ts = current_ts
      BY <3>2 DEF TxnInv, TxnTyped, Settled
    <3>3. CASE u = t /\ tx'[u].read_ts # current_ts
      BY <2>1, <3>3 DEF TxnInv, WriteSetsKept, Settled
    <3> QED
      BY <3>1, <3>2, <3>3
  <2> QED
    BY <2>2 DEF OnRecord, Settled
<1>6. ReadKeysUnchanged'
  <2> SUFFICES ASSUME NEW u \in Txns, tx'[u].pc = "apply", tx'[u].clean, u \in Serializable,
                      NEW s \in tx'[u].read_ts + 1 .. tx'[u].commit_ts - 1
               PROVE  log'[s].hashes \cap tx'[u].reads = {}
    BY DEF ReadKeysUnchanged
  <2>1. tx'[u] = tx[u] /\ log' = log
    BY DEF Settled
  <2> QED
    BY <2>1 DEF TxnInv, ReadKeysUnchanged
<1> QED
  BY <1>1, <1>2, <1>3, <1>4, <1>5, <1>6

LEMMA NewTyped == NewTx \in TxType /\ NewTx.read_ts = 0 /\ NewTx.pc = "new"
<1> DEFINE o == <<>>
<1>1. o \in Seq(Ops)
  OBVIOUS
<1>2. NewTx = [pc |-> "new", read_ts |-> 0, ops |-> o, reads |-> {}, next |-> 1, commit_ts |-> 0,
               clean |-> TRUE]
  BY DEF NewTx
<1> HIDE DEF o
<1> QED
  BY <1>1, <1>2 DEF TxType

\* Counts stay exact when no transaction is registered or removed.
LEMMA SameReaders ==
  ASSUME ReadersExact, readers' = readers, \A s \in Timestamps : RegisteredAt(s)' = RegisteredAt(s)
  PROVE  ReadersExact'
BY DEF ReadersExact, Timestamps

LEMMA BeginStep ==
  ASSUME TxnInv, NEW t \in Txns, begin_txn(t)
  PROVE  TxnInv'
<1>1. tx[t] \in TxType /\ current_ts \in Nat /\ tx[t].pc = "new"
  BY DEF TxnInv, TxnTyped, begin_txn
<1> DEFINE x == [tx[t] EXCEPT !.pc = "loaded", !.read_ts = current_ts,
                              !.clean = \A u \in Txns : tx[u].pc # "apply"]
<1>2. tx' = [tx EXCEPT ![t] = x]
  BY DEF TxnInv, TxnTyped, begin_txn
<1>3. x \in TxType /\ x.pc = "loaded" /\ x.read_ts = current_ts
  BY <1>1 DEF TxType
<1> HIDE DEF x
<1>4. tx' \in [Txns -> TxType] /\ tx'[t] = x /\ \A u \in Txns : u # t => tx'[u] = tx[u]
  BY <1>2, <1>3 DEF TxnInv, TxnTyped
<1>5. Settled(t)
  BY <1>1, <1>3, <1>4 DEF begin_txn, Settled
<1>6. ReadersExact'
  <2>1. \A s \in Timestamps : RegisteredAt(s)' = RegisteredAt(s)
    BY <1>1, <1>3, <1>4 DEF RegisteredAt
  <2> QED
    BY <2>1, SameReaders DEF TxnInv, begin_txn
<1> QED
  BY <1>5, <1>6, SettledStep DEF TxnInv

\* An open transaction notes a read or a write, or ends without a commit.
LEMMA OpenStep ==
  ASSUME TxnInv, NEW t \in Txns, NEW x \in TxType, tx[t].pc = "open", x.pc \in {"open", "done"},
         x.read_ts = tx[t].read_ts, x.clean = tx[t].clean, tx' = [tx EXCEPT ![t] = x],
         UNCHANGED <<current_ts, readers, commit_lock, committed_txns, is_delete, log>>
  PROVE  TxnInv'
<1>1. tx' \in [Txns -> TxType] /\ tx'[t] = x /\ \A u \in Txns : u # t => tx'[u] = tx[u]
  BY DEF TxnInv, TxnTyped
<1>2. Settled(t)
  BY <1>1 DEF Settled, TxnInv, TxnTyped
<1>3. \A s \in Timestamps : RegisteredAt(s)' = RegisteredAt(s)
  BY <1>1 DEF RegisteredAt
<1> QED
  BY <1>2, <1>3, SameReaders, SettledStep DEF TxnInv

LEMMA NoteStep ==
  ASSUME TxnInv, NEW t \in Txns,
         \/ \E v \in Vertices : get_neighbors(t, v)
         \/ \E op \in Ops : Write(t, op)
  PROVE  TxnInv'
<1>1. tx[t] \in TxType /\ tx \in [Txns -> TxType]
  BY DEF TxnInv, TxnTyped
<1>2. CASE \E v \in Vertices : get_neighbors(t, v)
  <2>1. PICK v \in Vertices : get_neighbors(t, v)
    BY <1>2
  <2> DEFINE x == [tx[t] EXCEPT !.reads = @ \cup {compute_key_hash(v, Zero)}]
  <2>2. compute_key_hash(v, Zero) \in Keys
    BY DEF compute_key_hash, Keys
  <2>3. x \in TxType /\ x.pc = tx[t].pc /\ x.read_ts = tx[t].read_ts /\ x.clean = tx[t].clean
    BY <1>1, <2>2 DEF TxType
  <2>4. tx' = [tx EXCEPT ![t] = x] /\ tx[t].pc = "open"
    BY <1>1, <2>1 DEF get_neighbors
  <2> HIDE DEF x
  <2> QED
    BY <2>1, <2>3, <2>4, OpenStep DEF get_neighbors
<1>3. CASE \E op \in Ops : Write(t, op)
  <2>1. PICK op \in Ops : Write(t, op)
    BY <1>3
  <2> DEFINE o == Append(tx[t].ops, op)
             x == [tx[t] EXCEPT !.ops = o]
  <2>2. tx' = [tx EXCEPT ![t] = x] /\ tx[t].pc = "open"
    BY <1>1, <2>1 DEF Write
  <2>3. o \in Seq(Ops)
    BY <1>1 DEF TxType
  <2> HIDE DEF o
  <2>4. x \in TxType /\ x.pc = tx[t].pc /\ x.read_ts = tx[t].read_ts /\ x.clean = tx[t].clean
    BY <1>1, <2>3 DEF TxType
  <2> HIDE DEF x
  <2> QED
    BY <2>1, <2>2, <2>4, OpenStep DEF Write
<1> QED
  BY <1>2, <1>3

LEMMA EndStep ==
  ASSUME TxnInv, NEW t \in Txns, CommitEmpty(t) \/ CommitRefused(t) \/ abort(t)
  PROVE  TxnInv'
<1>1. tx[t] \in TxType /\ tx \in [Txns -> TxType]
  BY DEF TxnInv, TxnTyped
<1>2. CASE CommitEmpty(t) \/ CommitRefused(t)
  <2> DEFINE x == [tx[t] EXCEPT !.pc = "done"]
  <2>1. x \in TxType /\ x.pc = "done" /\ x.read_ts = tx[t].read_ts /\ x.clean = tx[t].clean
    BY <1>1 DEF TxType
  <2>2. tx' = [tx EXCEPT ![t] = x] /\ tx[t].pc = "open"
    BY <1>1, <1>2 DEF CommitEmpty, CommitRefused
  <2> HIDE DEF x
  <2> QED
    BY <1>2, <2>1, <2>2, OpenStep DEF CommitEmpty, CommitRefused
<1>3. CASE abort(t)
  <2> DEFINE o == <<>>
             x == [tx[t] EXCEPT !.pc = "done", !.ops = o]
  <2>1. tx' = [tx EXCEPT ![t] = x] /\ tx[t].pc = "open"
    BY <1>1, <1>3 DEF abort
  <2>2. o \in Seq(Ops)
    OBVIOUS
  <2> HIDE DEF o
  <2>3. x \in TxType /\ x.pc = "done" /\ x.read_ts = tx[t].read_ts /\ x.clean = tx[t].clean
    BY <1>1, <2>2 DEF TxType
  <2> HIDE DEF x
  <2> QED
    BY <1>3, <2>1, <2>3, OpenStep DEF abort
<1> QED
  BY <1>2, <1>3

\* The constructor's registration adds one to the count of the snapshot ...
LEMMA RegisterStep ==
  ASSUME TxnInv, NEW t \in Txns, register_reader(t)
  PROVE  TxnInv'
<1>0. PICK r \in Timestamps : r = tx[t].read_ts
  BY InTimestamps
<1> DEFINE x == [tx[t] EXCEPT !.pc = "open"]
<1>1. tx[t] \in TxType /\ tx \in [Txns -> TxType] /\ tx[t].pc = "loaded"
  BY DEF TxnInv, TxnTyped, register_reader
<1>2. x \in TxType /\ x.pc = "open" /\ x.read_ts = r /\ x.clean = tx[t].clean
  BY <1>0, <1>1 DEF TxType
<1>3. tx' = [tx EXCEPT ![t] = x]
  BY <1>1 DEF register_reader
<1> HIDE DEF x
<1>4. tx' \in [Txns -> TxType] /\ tx'[t] = x /\ \A u \in Txns : u # t => tx'[u] = tx[u]
  BY <1>1, <1>2, <1>3
<1>5. Settled(t)
  BY <1>1, <1>2, <1>4 DEF Settled, TxnInv, TxnTyped, register_reader
<1>6. ReadersExact'
  <2>1. /\ RegisteredAt(r)' = RegisteredAt(r) \cup {t} /\ t \notin RegisteredAt(r)
        /\ \A s \in Timestamps : s # r => RegisteredAt(s)' = RegisteredAt(s)
    BY <1>0, <1>1, <1>2, <1>4 DEF RegisteredAt
  <2>2. IsFiniteSet(RegisteredAt(r))
    BY CountGrows DEF RegisteredAt
  <2>3. Cardinality(RegisteredAt(r)') = Cardinality(RegisteredAt(r)) + 1
    BY <2>1, <2>2, FS_AddElement
  <2>4. readers' = [readers EXCEPT ![r] = @ + 1] /\ readers \in [Timestamps -> Nat]
    BY <1>0 DEF TxnInv, ReadersExact, register_reader
  <2>5. \A s \in Timestamps : readers'[s] = Cardinality(RegisteredAt(s)')
    <3>1. readers'[r] = readers[r] + 1 /\ readers[r] = Cardinality(RegisteredAt(r))
      BY <2>4 DEF TxnInv, ReadersExact
    <3>2. \A s \in Timestamps : s # r => readers'[s] = readers[s]
      BY <2>4
    <3> QED
      BY <2>1, <2>3, <3>1, <3>2 DEF TxnInv, ReadersExact
  <2>6. readers' \in [Timestamps -> Nat]
    BY <2>2, <2>3, <2>4, <2>5
  <2> QED
    BY <2>5, <2>6 DEF ReadersExact, Timestamps
<1> QED
  BY <1>5, <1>6, SettledStep DEF TxnInv

\* ... and the destructor takes it off again.
LEMMA DestroyStep ==
  ASSUME TxnInv, NEW t \in Txns, Destroy(t)
  PROVE  TxnInv'
<1>0. PICK r \in Timestamps : r = tx[t].read_ts
  BY InTimestamps
<1> DEFINE x == [NewTx EXCEPT !.pc = "gone"]
<1>1. tx[t] \in TxType /\ tx \in [Txns -> TxType] /\ tx[t].pc = "done"
  BY DEF TxnInv, TxnTyped, Destroy
<1>2. x \in TxType /\ x.pc = "gone" /\ x.read_ts = 0
  <2>1. NewTx \in TxType /\ NewTx.read_ts = 0
    BY NewTyped
  <2> QED
    BY <2>1 DEF TxType
<1>3. tx' = [tx EXCEPT ![t] = x]
  BY DEF Destroy
<1> HIDE DEF x
<1>4. tx' \in [Txns -> TxType] /\ tx'[t] = x /\ \A u \in Txns : u # t => tx'[u] = tx[u]
  BY <1>1, <1>2, <1>3
<1>5. Settled(t)
  <2>1. tx'[t].pc = "gone" /\ tx'[t].read_ts = 0 /\ current_ts \in Nat
    BY <1>2, <1>4 DEF TxnInv, TxnTyped
  <2>2. UNCHANGED <<current_ts, log, commit_lock, committed_txns, is_delete>>
    BY DEF Destroy
  <2> QED
    BY <1>1, <1>4, <2>1, <2>2 DEF Settled
<1>6. ReadersExact'
  <2>1. /\ RegisteredAt(r)' = RegisteredAt(r) \ {t} /\ t \in RegisteredAt(r)
        /\ \A s \in Timestamps : s # r => RegisteredAt(s)' = RegisteredAt(s)
    BY <1>0, <1>1, <1>2, <1>4 DEF RegisteredAt
  <2>2. IsFiniteSet(RegisteredAt(r)) /\ Cardinality(RegisteredAt(r)') \in Nat
    BY CountGrows DEF RegisteredAt
  <2>3. Cardinality(RegisteredAt(r)') = Cardinality(RegisteredAt(r)) - 1
    BY <2>1, <2>2, FS_RemoveElement
  <2>4. readers' = [readers EXCEPT ![r] = @ - 1] /\ readers \in [Timestamps -> Nat]
    BY <1>0 DEF TxnInv, ReadersExact, Destroy, remove_reader
  <2>5. \A s \in Timestamps : readers'[s] = Cardinality(RegisteredAt(s)')
    <3>1. readers'[r] = readers[r] - 1 /\ readers[r] = Cardinality(RegisteredAt(r))
      BY <2>4 DEF TxnInv, ReadersExact
    <3>2. \A s \in Timestamps : s # r => readers'[s] = readers[s]
      BY <2>4
    <3> QED
      BY <2>1, <2>3, <3>1, <3>2 DEF TxnInv, ReadersExact
  <2>6. readers' \in [Timestamps -> Nat]
    BY <2>2, <2>3, <2>4, <2>5
  <2> QED
    BY <2>5, <2>6 DEF ReadersExact, Timestamps
<1> QED
  BY <1>5, <1>6, SettledStep DEF TxnInv

-----------------------------------------------------------------------------
(* Steps of a commit *)

LEMMA HashesTyped ==
  ASSUME TxnTyped, NEW t \in Txns
  PROVE  Hashes(t) \in SUBSET Keys
<1>1. tx[t].ops \in Seq(Ops)
  BY DEF TxnTyped, TxType
<1>2. \A op \in Ops : op.e \in Vertices \X Vertices
  BY TxnAssumption
<1>3. \A op \in Ops : WriteHash(op) \in Keys
  BY <1>2 DEF WriteHash, compute_key_hash, Keys
<1> QED
  BY <1>1, <1>3 DEF Hashes

\* A commit passes the check against every finished commit after its snapshot,
\* because those are on record.
LEMMA CommitStep ==
  ASSUME TxnInv, NEW t \in Txns, commit(t)
  PROVE  TxnInv'
<1> DEFINE n == current_ts + 1
           x == [tx[t] EXCEPT !.pc = "apply", !.commit_ts = n]
           h == IF t \in Serializable THEN Hashes(t) ELSE {}
           e == [ops |-> tx[t].ops, hashes |-> h]
<1>1. /\ tx[t] \in TxType /\ tx \in [Txns -> TxType] /\ tx[t].pc = "open" /\ current_ts \in Nat
      /\ log \in Seq(Entry) /\ Len(log) = current_ts /\ commit_lock = NoTxn
      /\ \A u \in Txns : tx[u].pc # "apply"
  BY TxnAssumption DEF TxnInv, TxnTyped, LockHeld, commit
<1>2. x \in TxType /\ x.pc = "apply" /\ x.commit_ts = n /\ x.read_ts = tx[t].read_ts
      /\ x.clean = tx[t].clean /\ x.ops = tx[t].ops /\ x.reads = tx[t].reads
  <2>1. n \in Nat
    BY <1>1
  <2> HIDE DEF n
  <2>2. x \in TxType
    BY <1>1, <2>1 DEF TxType
  <2>3. x.pc = "apply" /\ x.commit_ts = n /\ x.read_ts = tx[t].read_ts
    BY <1>1, <2>1 DEF TxType
  <2>4. x.clean = tx[t].clean /\ x.ops = tx[t].ops /\ x.reads = tx[t].reads
    BY <1>1, <2>1, ZenonT(40) DEF TxType
  <2> QED
    BY <2>2, <2>3, <2>4
<1>3. tx' = [tx EXCEPT ![t] = x] /\ log' = Append(log, e) /\ current_ts' = n /\ commit_lock' = t
  BY <1>1 DEF commit
<1>4. h \in SUBSET Keys
  BY HashesTyped DEF TxnInv
<1> HIDE DEF x, h
<1>5. tx' \in [Txns -> TxType] /\ tx'[t] = x /\ \A u \in Txns : u # t => tx'[u] = tx[u]
  BY <1>1, <1>2, <1>3
<1>6. e \in Entry /\ e.hashes = h
  <2>1. tx[t].ops \in Seq(Ops)
    BY <1>1 DEF TxType
  <2>2. tx[t].ops \in Seq(Ops \cup {Nothing})
    BY <2>1
  <2> QED
    BY <1>4, <2>2 DEF Entry
<1> HIDE DEF e
<1>7. /\ log' \in Seq(Entry) /\ Len(log') = n /\ log'[n] = e
      /\ \A s \in 1 .. current_ts : log'[s] = log[s]
  BY <1>1, <1>3, <1>6
<1>8. \A u \in Txns : tx'[u].read_ts = tx[u].read_ts /\ tx[u].read_ts \in Nat /\ tx[u].read_ts <= current_ts
  BY <1>2, <1>5 DEF TxnInv, TxnTyped, TxType
<1>9. TxnTyped'
  <2>1. \A u \in Txns : tx'[u].read_ts <= n
    BY <1>1, <1>8
  <2>2. is_delete' = is_delete
    BY DEF commit
  <2> QED
    BY <1>1, <1>3, <1>5, <1>7, <2>1, <2>2 DEF TxnInv, TxnTyped
<1>10. LockHeld'
  BY <1>1, <1>2, <1>3, <1>5 DEF LockHeld
<1>11. ReadersExact'
  <2>1. \A s \in Timestamps : RegisteredAt(s)' = RegisteredAt(s)
    BY <1>1, <1>2, <1>5 DEF RegisteredAt
  <2> QED
    BY <2>1, SameReaders DEF TxnInv, commit
<1>12. CommitsCounted'
  <2>1. Ended' = Ended \cup {t} /\ t \notin Ended
    BY <1>1, <1>2, <1>5 DEF Ended
  <2>2. IsFiniteSet(Ended) /\ Cardinality(Ended) \in Nat
    BY CountGrows DEF Ended
  <2>3. Cardinality(Ended') = Cardinality(Ended) + 1
    BY <2>1, <2>2, FS_AddElement
  <2> QED
    BY <1>1, <1>3, <2>2, <2>3 DEF TxnInv, CommitsCounted
<1>13. ApplyingLatest'
  <2>1. \A u \in Txns : tx'[u].pc = "apply" => u = t
    BY <1>1, <1>5
  <2>2. tx'[t].commit_ts = current_ts' /\ tx'[t].read_ts < current_ts'
    BY <1>1, <1>2, <1>3, <1>5, <1>8
  <2>3. Hashes(t)' = Hashes(t)
    BY <1>2, <1>5 DEF Hashes
  <2>4. log'[current_ts'].hashes = IF t \in Serializable THEN Hashes(t)' ELSE {}
    BY <1>3, <1>6, <1>7, <2>3 DEF h
  <2> QED
    BY <2>1, <2>2, <2>4 DEF ApplyingLatest
<1>14. \A s \in 1 .. current_ts : Finished(s)
  BY <1>1 DEF Finished
<1>15. WriteSetsKept'
  <2> SUFFICES ASSUME NEW u \in Txns, tx'[u].pc \in {"loaded", "open"}, tx'[u].clean,
                      NEW s \in tx'[u].read_ts + 1 .. current_ts', Finished(s)'
               PROVE  OnRecord(s)'
    BY DEF WriteSetsKept
  <2>1. u # t /\ tx'[u] = tx[u]
    BY <1>2, <1>5
  <2>2. s # n
    BY <1>2, <1>5 DEF Finished
  <2>3. s \in tx[u].read_ts + 1 .. current_ts /\ s \in 1 .. current_ts
    BY <1>1, <1>3, <1>8, <2>1, <2>2
  <2>4. OnRecord(s)
    BY <1>14, <2>1, <2>3 DEF TxnInv, WriteSetsKept
  <2> QED
    BY <1>7, <2>3, <2>4 DEF OnRecord, commit
<1>16. ReadKeysUnchanged'
  <2> SUFFICES ASSUME NEW u \in Txns, tx'[u].pc = "apply", tx'[u].clean, u \in Serializable,
                      NEW s \in tx'[u].read_ts + 1 .. tx'[u].commit_ts - 1
               PROVE  log'[s].hashes \cap tx'[u].reads = {}
    BY DEF ReadKeysUnchanged
  <2>1. u = t /\ tx'[u] = x
    BY <1>1, <1>5
  <2>2. s \in tx[t].read_ts + 1 .. current_ts /\ s \in 1 .. current_ts /\ s > tx[t].read_ts
    BY <1>1, <1>2, <1>8, <2>1
  <2>3. OnRecord(s)
    BY <1>1, <1>2, <1>14, <2>1, <2>2 DEF TxnInv, WriteSetsKept
  <2>4. ~check_serializable_conflict(t)
    BY <2>1 DEF commit
  <2>5. \A k \in log[s].hashes : k \notin tx[t].reads
    <3> SUFFICES ASSUME NEW k \in log[s].hashes, k \in tx[t].reads PROVE FALSE
      OBVIOUS
    <3>1. <<s, k>> \in committed_txns
      BY <2>3 DEF OnRecord
    <3>2. <<s, k>>[1] > tx[t].read_ts /\ <<s, k>>[2] \in tx[t].reads
      BY <2>2
    <3> QED
      BY <2>4, <3>1, <3>2 DEF check_serializable_conflict
  <2> QED
    BY <1>2, <1>7, <2>1, <2>2, <2>5
<1> QED
  BY <1>9, <1>10, <1>11, <1>12, <1>13, <1>15, <1>16 DEF TxnInv

\* One buffered write is applied; no timestamp, lock or key hash changes.
LEMMA ApplyStep ==
  ASSUME TxnInv, NEW t \in Txns, apply_writes(t)
  PROVE  TxnInv'
<1> DEFINE i == tx[t].next
           op == tx[t].ops[i]
           c == tx[t].commit_ts
           j == i + 1
           x == [tx[t] EXCEPT !.next = j]
<1>1. /\ tx[t] \in TxType /\ tx \in [Txns -> TxType] /\ tx[t].pc = "apply" /\ i <= Len(tx[t].ops)
      /\ log \in Seq(Entry) /\ c = current_ts /\ Len(log) = current_ts /\ current_ts \in Nat
  BY DEF TxnInv, TxnTyped, ApplyingLatest, apply_writes
<1>2. i \in Nat \ {0} /\ tx[t].ops \in Seq(Ops)
  BY <1>1 DEF TxType
<1>3. op \in Ops /\ op.e[1] \in Vertices
  <2>1. op \in Ops
    BY <1>1, <1>2
  <2> HIDE DEF op
  <2> QED
    BY <2>1, TxnAssumption
<1>4. is_delete' \in SUBSET Vertices
  <2>1. is_delete' = is_delete \/ is_delete' = is_delete \ {op.e[1]} \/ is_delete' = is_delete \cup {op.e[1]}
    BY DEF apply_writes
  <2> QED
    BY <1>3, <2>1 DEF TxnInv, TxnTyped
<1>5. x \in TxType
  <2>1. j \in Nat \ {0}
    BY <1>2
  <2> HIDE DEF j
  <2> QED
    BY <1>1, <2>1 DEF TxType
<1>6. /\ x.pc = tx[t].pc /\ x.read_ts = tx[t].read_ts /\ x.ops = tx[t].ops /\ x.reads = tx[t].reads
      /\ x.commit_ts = tx[t].commit_ts /\ x.clean = tx[t].clean
  BY <1>1, ZenonT(40) DEF TxType
<1>7. tx' = [tx EXCEPT ![t] = x]
  BY <1>1 DEF apply_writes
<1> HIDE DEF x
<1>8. /\ tx' \in [Txns -> TxType]
      /\ \A u \in Txns : /\ tx'[u].pc = tx[u].pc /\ tx'[u].read_ts = tx[u].read_ts
                         /\ tx'[u].ops = tx[u].ops /\ tx'[u].reads = tx[u].reads
                         /\ tx'[u].commit_ts = tx[u].commit_ts /\ tx'[u].clean = tx[u].clean
  BY <1>1, <1>5, <1>6, <1>7
<1>9. log' \in Seq(Entry) /\ Len(log') = Len(log) /\ \A s \in 1 .. current_ts : log'[s].hashes = log[s].hashes
  <2>1. CASE ~Fails(op)
    BY <1>1, <2>1 DEF apply_writes
  <2>2. CASE Fails(op)
    <3>1. log' = [log EXCEPT ![c].ops[i] = Nothing]
      BY <2>2 DEF apply_writes
    <3>2. c \in 1 .. Len(log)
      <4>1. tx[t].read_ts \in Nat
        BY <1>1 DEF TxType
      <4>2. tx[t].read_ts < current_ts
        BY <1>1 DEF TxnInv, ApplyingLatest
      <4> QED
        BY <1>1, <4>1, <4>2
    <3> DEFINE f == log[c].ops
               o == [f EXCEPT ![i] = Nothing]
               y == [log[c] EXCEPT !.ops = o]
    <3>3. log[c] \in Entry /\ log' = [log EXCEPT ![c] = y]
      BY <1>1, <3>1, <3>2
    <3>4. f \in Seq(Ops \cup {Nothing})
      BY <3>3 DEF Entry
    <3> HIDE DEF f
    <3>5. Len(f) \in Nat /\ f \in [1 .. Len(f) -> Ops \cup {Nothing}]
      BY <3>4
    <3>6. o \in [1 .. Len(f) -> Ops \cup {Nothing}]
      BY <3>5
    <3> HIDE DEF o
    <3>7. o \in Seq(Ops \cup {Nothing})
      BY <3>5, <3>6
    <3>8. y \in Entry /\ y.hashes = log[c].hashes
      BY <3>3, <3>7 DEF Entry
    <3> HIDE DEF y, c
    <3> QED
      BY <1>1, <3>2, <3>3, <3>8
  <2> QED
    BY <2>1, <2>2
<1>10. UNCHANGED <<current_ts, readers, commit_lock, committed_txns>>
  BY DEF apply_writes
<1>11. \A u \in Txns : Hashes(u)' = Hashes(u)
  BY <1>8 DEF Hashes
<1>12. TxnTyped'
  BY <1>1, <1>4, <1>8, <1>9, <1>10 DEF TxnInv, TxnTyped
<1>13. LockHeld'
  BY <1>8, <1>10 DEF TxnInv, LockHeld
<1>14. ReadersExact'
  <2>1. \A s \in Timestamps : RegisteredAt(s)' = RegisteredAt(s)
    BY <1>8 DEF RegisteredAt
  <2> QED
    BY <1>10, <2>1, SameReaders DEF TxnInv
<1>15. CommitsCounted'
  <2>1. Ended' = Ended
    BY <1>8 DEF Ended
  <2> QED
    BY <1>10, <2>1 DEF TxnInv, CommitsCounted
<1>16. ApplyingLatest'
  <2> SUFFICES ASSUME NEW u \in Txns, tx'[u].pc = "apply"
               PROVE  /\ tx'[u].commit_ts = current_ts' /\ tx'[u].read_ts < current_ts'
                      /\ log'[current_ts'].hashes = IF u \in Serializable THEN Hashes(u)' ELSE {}
    BY DEF ApplyingLatest
  <2>1. /\ tx[u].commit_ts = current_ts /\ tx[u].read_ts < current_ts
        /\ log[current_ts].hashes = IF u \in Serializable THEN Hashes(u) ELSE {}
    BY <1>8 DEF TxnInv, ApplyingLatest
  <2>2. tx[u].read_ts \in Nat
    BY DEF TxnInv, TxnTyped, TxType
  <2>3. current_ts \in 1 .. current_ts
    BY <1>1, <2>1, <2>2
  <2> QED
    BY <1>8, <1>9, <1>10, <1>11, <2>1, <2>3
<1>17. WriteSetsKept'
  <2> SUFFICES ASSUME NEW u \in Txns, tx'[u].pc \in {"loaded", "open"}, tx'[u].clean,
                      NEW s \in tx'[u].read_ts + 1 .. current_ts', Finished(s)'
               PROVE  OnRecord(s)'
    BY DEF WriteSetsKept
  <2>1. Finished(s)
    BY <1>8 DEF Finished
  <2>2. tx[u].read_ts \in Nat /\ s \in tx[u].read_ts + 1 .. current_ts
    BY <1>8, <1>10 DEF TxnInv, TxnTyped, TxType
  <2>3. OnRecord(s)
    BY <1>8, <2>1, <2>2 DEF TxnInv, WriteSetsKept
  <2>4. s \in 1 .. current_ts
    BY <1>1, <2>2
  <2> QED
    BY <1>9, <1>10, <2>3, <2>4 DEF OnRecord
<1>18. ReadKeysUnchanged'
  <2> SUFFICES ASSUME NEW u \in Txns, tx'[u].pc = "apply", tx'[u].clean, u \in Serializable,
                      NEW s \in tx'[u].read_ts + 1 .. tx'[u].commit_ts - 1
               PROVE  log'[s].hashes \cap tx'[u].reads = {}
    BY DEF ReadKeysUnchanged
  <2>1. tx[u].read_ts \in Nat /\ tx[u].commit_ts = current_ts
    BY <1>8 DEF TxnInv, TxnTyped, TxType, ApplyingLatest
  <2>2. s \in 1 .. current_ts /\ s \in tx[u].read_ts + 1 .. tx[u].commit_ts - 1
    BY <1>1, <1>8, <2>1
  <2>3. log[s].hashes \cap tx[u].reads = {}
    BY <1>8, <2>2 DEF TxnInv, ReadKeysUnchanged
  <2> QED
    BY <1>8, <1>9, <2>2, <2>3
<1> QED
  BY <1>12, <1>13, <1>14, <1>15, <1>16, <1>17, <1>18 DEF TxnInv

\* Marking transactions as disturbed changes nothing else of them.
LEMMA Taint ==
  ASSUME tx \in [Txns -> TxType], NEW S
  PROVE  /\ Tainted(tx, S) \in [Txns -> TxType]
         /\ \A u \in Txns :
              LET y == Tainted(tx, S)[u]
              IN /\ y.pc = tx[u].pc /\ y.read_ts = tx[u].read_ts /\ y.ops = tx[u].ops
                 /\ y.reads = tx[u].reads /\ y.commit_ts = tx[u].commit_ts /\ y.next = tx[u].next
                 /\ y.clean => tx[u].clean /\ u \notin S
<1> SUFFICES ASSUME NEW u \in Txns
             PROVE  LET y == IF u \in S THEN [tx[u] EXCEPT !.clean = FALSE] ELSE tx[u]
                    IN /\ y \in TxType
                       /\ y.pc = tx[u].pc /\ y.read_ts = tx[u].read_ts /\ y.ops = tx[u].ops
                       /\ y.reads = tx[u].reads /\ y.commit_ts = tx[u].commit_ts
                       /\ y.next = tx[u].next
                       /\ y.clean => tx[u].clean /\ u \notin S
  BY DEF Tainted
<1> DEFINE z == [tx[u] EXCEPT !.clean = FALSE]
<1>1. tx[u] \in TxType
  OBVIOUS
<1>2. z \in TxType
  BY <1>1 DEF TxType
<1>3. /\ z.pc = tx[u].pc /\ z.read_ts = tx[u].read_ts /\ z.ops = tx[u].ops
      /\ z.reads = tx[u].reads /\ z.commit_ts = tx[u].commit_ts /\ z.next = tx[u].next
      /\ z.clean = FALSE
  BY <1>1, ZenonT(40) DEF TxType
<1> HIDE DEF z
<1>4. CASE u \in S
  BY <1>2, <1>3, <1>4 DEF z
<1>5. CASE u \notin S
  BY <1>1, <1>5
<1> QED
  BY <1>4, <1>5

\* The record of the commit is added and old records are dropped: those below
\* the watermark, which no undisturbed transaction needs.
LEMMA DoneStep ==
  ASSUME TxnInv, NEW t \in Txns, CommitDone(t)
  PROVE  TxnInv'
<1>0. PICK wm \in Nat : wm = get_watermark
  BY Watermark
<1> DEFINE S == IF t \in Serializable THEN Overlooked(wm) ELSE {}
           f == Tainted(tx, S)
           x == [f[t] EXCEPT !.pc = "done"]
           added == committed_txns \cup {<<tx[t].commit_ts, k>> : k \in Hashes(t)}
<1>1. /\ tx \in [Txns -> TxType] /\ tx[t].pc = "apply" /\ current_ts \in Nat
      /\ tx[t].commit_ts = current_ts /\ tx[t].read_ts < current_ts
      /\ log[current_ts].hashes = IF t \in Serializable THEN Hashes(t) ELSE {}
      /\ \A u \in Txns : tx[u].pc = "apply" => u = t
  BY DEF TxnInv, TxnTyped, LockHeld, ApplyingLatest, CommitDone
<1>2. /\ tx' = [f EXCEPT ![t].pc = "done"] /\ commit_lock' = NoTxn
      /\ committed_txns' = IF t \in Serializable THEN {c \in added : c[1] >= wm} ELSE committed_txns
      /\ UNCHANGED <<current_ts, readers, is_delete, log>>
  BY <1>0 DEF CommitDone
<1> HIDE DEF S
<1>3. /\ f \in [Txns -> TxType]
      /\ \A u \in Txns : /\ f[u].pc = tx[u].pc /\ f[u].read_ts = tx[u].read_ts
                         /\ f[u].clean => tx[u].clean /\ u \notin S
  BY <1>1, Taint
<1> HIDE DEF f
<1>4. x \in TxType /\ x.pc = "done" /\ x.read_ts = tx[t].read_ts /\ tx' = [f EXCEPT ![t] = x]
  BY <1>2, <1>3 DEF TxType
<1> HIDE DEF x
<1>5. /\ tx' \in [Txns -> TxType] /\ tx'[t].pc = "done"
      /\ \A u \in Txns : tx'[u].read_ts = tx[u].read_ts
      /\ \A u \in Txns : u # t => tx'[u].pc = tx[u].pc /\ (tx'[u].clean => tx[u].clean /\ u \notin S)
  BY <1>3, <1>4
<1>6. \A u \in Txns : tx'[u].pc # "apply"
  BY <1>1, <1>5
<1>7. TxnTyped'
  BY <1>2, <1>5 DEF TxnInv, TxnTyped
<1>8. LockHeld'
  BY <1>2, <1>6, TxnAssumption DEF LockHeld
<1>9. ReadersExact'
  <2>1. \A s \in Timestamps : RegisteredAt(s)' = RegisteredAt(s)
    BY <1>1, <1>5 DEF RegisteredAt
  <2> QED
    BY <1>2, <2>1, SameReaders DEF TxnInv
<1>10. CommitsCounted'
  <2>1. Ended' = Ended
    BY <1>1, <1>5 DEF Ended
  <2> QED
    BY <1>2, <2>1 DEF TxnInv, CommitsCounted
<1>11. ApplyingLatest' /\ ReadKeysUnchanged'
  BY <1>6 DEF ApplyingLatest, ReadKeysUnchanged
<1>12. WriteSetsKept'
  <2> SUFFICES ASSUME NEW u \in Txns, tx'[u].pc \in {"loaded", "open"}, tx'[u].clean,
                      NEW s \in tx'[u].read_ts + 1 .. current_ts'
               PROVE  OnRecord(s)'
    BY DEF WriteSetsKept
  <2>1. /\ u # t /\ tx[u].pc \in {"loaded", "open"} /\ tx[u].clean /\ u \notin S
        /\ tx[u].read_ts \in Nat /\ s \in tx[u].read_ts + 1 .. current_ts
    BY <1>1, <1>2, <1>5 DEF TxType
  <2>2. ASSUME NEW k \in log[s].hashes
        PROVE  <<s, k>> \in added /\ (t \notin Serializable => <<s, k>> \in committed_txns)
    <3>1. CASE s = current_ts
      BY <1>1, <2>2, <3>1
    <3>2. CASE s # current_ts
      <4>1. Finished(s)
        BY <1>1, <3>2 DEF Finished
      <4>2. OnRecord(s)
        BY <2>1, <4>1 DEF TxnInv, WriteSetsKept
      <4> QED
        BY <2>2, <4>2 DEF OnRecord
    <3> QED
      BY <3>1, <3>2
  <2>3. t \in Serializable => s >= wm
    <3>1. CASE tx[u].pc = "open"
      BY <1>0, <2>1, <3>1, Watermark
    <3>2. CASE tx[u].pc = "loaded" /\ t \in Serializable
      <4>1. ~(tx[u].read_ts < wm)
        BY <2>1, <3>2 DEF S, Overlooked
      <4> QED
        BY <1>1, <2>1, <4>1
    <3> QED
      BY <2>1, <3>1, <3>2
  <2>4. ASSUME NEW k \in log[s].hashes PROVE <<s, k>> \in committed_txns'
    <3>1. <<s, k>>[1] = s
      OBVIOUS
    <3>2. CASE t \in Serializable
      BY <1>2, <2>2, <2>3, <3>1, <3>2
    <3>3. CASE t \notin Serializable
      BY <1>2, <2>2, <3>3
    <3> QED
      BY <3>2, <3>3
  <2> QED
    BY <1>2, <2>4 DEF OnRecord
<1> QED
  BY <1>7, <1>8, <1>9, <1>10, <1>11, <1>12 DEF TxnInv

-----------------------------------------------------------------------------
(* Consolidation, and all steps together *)

txnVars == <<current_ts, readers, commit_lock, committed_txns, is_delete, log>>

\* A consolidation that computes a watermark disturbs the transactions it
\* overlooks and nothing else.
LEMMA SplitStep ==
  ASSUME TxnInv, NEW S, tx' = Tainted(tx, S), UNCHANGED txnVars
  PROVE  TxnInv'
<1>1. tx \in [Txns -> TxType]
  BY DEF TxnInv, TxnTyped
<1>2. /\ tx' \in [Txns -> TxType]
      /\ \A u \in Txns : /\ tx'[u].pc = tx[u].pc /\ tx'[u].read_ts = tx[u].read_ts
                         /\ tx'[u].ops = tx[u].ops /\ tx'[u].reads = tx[u].reads
                         /\ tx'[u].commit_ts = tx[u].commit_ts /\ (tx'[u].clean => tx[u].clean)
  BY <1>1, Taint
<1>3. UNCHANGED <<current_ts, readers, commit_lock, committed_txns, is_delete, log>>
  BY DEF txnVars
<1>4. TxnTyped'
  BY <1>2, <1>3 DEF TxnInv, TxnTyped
<1>5. LockHeld'
  BY <1>2, <1>3 DEF TxnInv, LockHeld
<1>6. ReadersExact'
  <2>1. \A s \in Timestamps : RegisteredAt(s)' = RegisteredAt(s)
    BY <1>2 DEF RegisteredAt
  <2> QED
    BY <1>3, <2>1, SameReaders DEF TxnInv
<1>7. CommitsCounted'
  <2>1. Ended' = Ended
    BY <1>2 DEF Ended
  <2> QED
    BY <1>3, <2>1 DEF TxnInv, CommitsCounted
<1>8. ApplyingLatest'
  <2>1. \A u \in Txns : Hashes(u)' = Hashes(u)
    BY <1>2 DEF Hashes
  <2> QED
    BY <1>2, <1>3, <2>1 DEF TxnInv, ApplyingLatest
<1>9. WriteSetsKept'
  <2>1. \A s : Finished(s)' = Finished(s) /\ OnRecord(s)' = OnRecord(s)
    BY <1>2, <1>3 DEF Finished, OnRecord
  <2> QED
    BY <1>2, <1>3, <2>1 DEF TxnInv, WriteSetsKept
<1>10. ReadKeysUnchanged'
  BY <1>2, <1>3 DEF TxnInv, ReadKeysUnchanged
<1> QED
  BY <1>4, <1>5, <1>6, <1>7, <1>8, <1>9, <1>10 DEF TxnInv

LEMMA QuietStep ==
  ASSUME TxnInv, UNCHANGED <<txnVars, tx>>
  PROVE  TxnInv'
<1>1. Tainted(tx, {}) = tx
  BY DEF Tainted, TxnInv, TxnTyped
<1> QED
  BY <1>1, SplitStep

LEMMA TxnStart == Init => TxnInv
<1> SUFFICES ASSUME Init PROVE TxnInv
  OBVIOUS
<1>1. \A t \in Txns : tx[t] = NewTx
  BY DEF Init
<1>2. \A t \in Txns : tx[t] \in TxType /\ tx[t].read_ts = 0 /\ tx[t].pc = "new"
  BY <1>1, NewTyped
<1>3. TxnTyped
  <2>1. tx \in [Txns -> TxType]
    BY <1>2 DEF Init
  <2>2. log \in Seq(Entry) /\ Len(log) = 0
    BY DEF Init
  <2> QED
    BY <1>2, <2>1, <2>2 DEF Init, TxnTyped
<1>4. LockHeld
  BY <1>2, TxnAssumption DEF Init, LockHeld
<1>5. ReadersExact
  <2>1. \A s \in Timestamps : RegisteredAt(s) = {}
    BY <1>2 DEF RegisteredAt
  <2> QED
    BY <2>1, FS_EmptySet DEF Init, ReadersExact
<1>6. CommitsCounted
  <2>1. Ended = {}
    BY <1>2 DEF Ended
  <2> QED
    BY <2>1, FS_EmptySet DEF Init, CommitsCounted
<1>7. ApplyingLatest /\ WriteSetsKept /\ ReadKeysUnchanged
  BY <1>2 DEF ApplyingLatest, WriteSetsKept, ReadKeysUnchanged
<1> QED
  BY <1>3, <1>4, <1>5, <1>6, <1>7 DEF TxnInv

LEMMA TxnStep == TxnInv /\ [Next]_vars => TxnInv'
<1> SUFFICES ASSUME TxnInv, [Next]_vars PROVE TxnInv'
  OBVIOUS
<1>1. CASE \E t \in Txns : begin_txn(t) \/ register_reader(t) \/ Commit(t) \/ abort(t) \/ Destroy(t)
  BY <1>1, BeginStep, RegisterStep, EndStep, CommitStep, ApplyStep, DoneStep, DestroyStep DEF Commit
<1>2. CASE \E t \in Txns, v \in Vertices : get_neighbors(t, v)
  BY <1>2, NoteStep
<1>3. CASE \E t \in Txns, op \in Ops : Write(t, op)
  BY <1>3, NoteStep
<1>4. CASE SmoSplit
  BY <1>4, SplitStep DEF SmoSplit, txnVars
<1>5. CASE SmoFetch \/ SmoDrain \/ SmoPut \/ SmoPublish
  BY <1>5, QuietStep DEF SmoFetch, SmoDrain, SmoPut, SmoPublish, txnVars
<1>6. CASE UNCHANGED vars
  BY <1>6, QuietStep DEF vars, txnVars
<1> QED
  BY <1>1, <1>2, <1>3, <1>4, <1>5, <1>6 DEF Next

LEMMA TxnInvariant == Spec => []TxnInv
BY TxnStart, TxnStep, PTL DEF Spec

-----------------------------------------------------------------------------
(* Places in the log *)

\* Applied edge operations have a place in the log; places are in a total order.
LEMMA EffectPlaces ==
  ASSUME TxnTyped, NEW x \in Effect
  PROVE  /\ x \in Nat \X Nat /\ x = <<x[1], x[2]>> /\ x[1] \in 1 .. Len(log)
         /\ x[2] \in DOMAIN log[x[1]].ops /\ x[2] \in Nat
<1>0. PICK s \in 1 .. Len(log) : x \in {s} \X DOMAIN log[s].ops
  BY DEF Effect, Positions
<1>1. PICK i \in DOMAIN log[s].ops : x = <<s, i>>
  BY <1>0
<1>2. log[s] \in Entry
  BY DEF TxnTyped
<1>3. log[s].ops \in Seq(Ops \cup {Nothing})
  BY <1>2 DEF Entry
<1>4. i \in Nat
  BY <1>3
<1> QED
  BY <1>1, <1>4 DEF TxnTyped

LEMMA EffectMember ==
  ASSUME TxnTyped, NEW s \in 1 .. Len(log), NEW i \in DOMAIN log[s].ops,
         log[s].ops[i].kind \in EdgeKinds, Applied(<<s, i>>)
  PROVE  <<s, i>> \in Effect
<1>1. <<s, i>> \in Positions(Len(log))
  BY DEF Positions
<1> QED
  BY <1>1 DEF Effect

LEMMA OneOrTheOther ==
  ASSUME NEW x \in Nat \X Nat, NEW y \in Nat \X Nat
  PROVE  /\ Earlier(x, y) \/ Earlier(y, x) \/ x = y
         /\ ~(Earlier(x, y) /\ Earlier(y, x)) /\ ~Earlier(x, x)
BY DEF Earlier

\* A reachable record has a place after all that has been merged.
LEMMA RecordPlace ==
  ASSUME TxnTyped, NEW r, Logged(r)
  PROVE  /\ r \in RecordType /\ PlaceOf(r) \in Effect /\ PlaceOf(r) \in Nat \X Nat
         /\ PlaceOf(r)[1] = r.ts /\ PlaceOf(r)[2] = r.at /\ r.ts \in 1 .. Len(log) /\ r.at \in Nat
         /\ r.type = "INSERT" => log[r.ts].ops[r.at] = [kind |-> "INSERT_EDGE", e |-> r.e]
         /\ r.type = "DELETE" => log[r.ts].ops[r.at] = [kind |-> "DELETE_EDGE", e |-> r.e]
BY EffectPlaces DEF Logged, PlaceOf

LEMMA OlderEarlier ==
  ASSUME NEW r, NEW q
  PROVE  Older(r, q) <=> Earlier(PlaceOf(r), PlaceOf(q))
BY DEF Older, Earlier, PlaceOf

LEMMA GreatestIndex ==
  ASSUME NEW n \in Nat, NEW S \in SUBSET (1 .. n), S # {}
  PROVE  \E m \in S : \A i \in S : i <= m
<1> DEFINE D == {n - i : i \in S}
<1>1. D \in SUBSET Nat /\ D # {}
  OBVIOUS
<1> HIDE DEF D
<1>2. PICK d \in D : \A y \in D : d <= y
  BY <1>1, LeastNatural
<1>3. PICK m \in S : d = n - m
  BY DEF D
<1>4. \A i \in S : n - i \in D
  BY DEF D
<1>5. \A i \in S : n - m <= n - i
  BY <1>2, <1>3, <1>4
<1> QED
  BY <1>5

-----------------------------------------------------------------------------
(* Merging a list in order *)

\* Merging into the base page a list whose records come after all that was merged,
\* and in order, leaves an edge exactly when the last operation on it is an insert.
PlacesIn(list, type, e) ==
  {PlaceOf(list[i]) : i \in {j \in DOMAIN list : list[j].e = e /\ list[j].type = type}}
InsertsWith(list, e) == MergedOps("INSERT_EDGE", e) \cup PlacesIn(list, "INSERT", e)
DeletesWith(list, e) == MergedOps("DELETE_EDGE", e) \cup PlacesIn(list, "DELETE", e)
MergedWith(list) == Merged \cup {PlaceOf(list[i]) : i \in DOMAIN list}
Mergeables(list) ==
  /\ Bounded(list) /\ \A i \in DOMAIN list : Logged(list[i])
  /\ \A i \in DOMAIN list : \A x \in Merged : Earlier(x, PlaceOf(list[i]))

LEMMA LastDecides ==
  ASSUME TxnTyped, NEW e, NEW list, Mergeables(list), InOrder(list), e \notin crossed,
         CsrHas(e) <=> MergedHas(e)
  PROVE  (\E y \in build_merged_graph_with_ts(csr, list) : y.e = e) <=>
           \/ e \in Base /\ DeletesWith(list, e) = {}
           \/ \E x \in InsertsWith(list, e) : \A y \in DeletesWith(list, e) : Earlier(y, x)
<1>0. PICK ins, del : /\ ins = InsertsWith(list, e) /\ del = DeletesWith(list, e)
                      /\ ins = MergedOps("INSERT_EDGE", e) \cup PlacesIn(list, "INSERT", e)
                      /\ del = MergedOps("DELETE_EDGE", e) \cup PlacesIn(list, "DELETE", e)
  BY DEF InsertsWith, DeletesWith
<1> SUFFICES (\E y \in build_merged_graph_with_ts(csr, list) : y.e = e) <=>
               \/ e \in Base /\ del = {}
               \/ \E x \in ins : \A y \in del : Earlier(y, x)
  BY <1>0
<1> USE <1>0
<1> DEFINE I == {i \in DOMAIN list : list[i].e = e}
           has == \E y \in build_merged_graph_with_ts(csr, list) : y.e = e
<1>1. CASE I = {}
  <2>1. \A type : PlacesIn(list, type, e) = {}
    BY <1>1 DEF PlacesIn
  <2>2. ins = MergedOps("INSERT_EDGE", e) /\ del = MergedOps("DELETE_EDGE", e)
    BY <2>1
  <2>3. has <=> CsrHas(e)
    BY <1>1 DEF build_merged_graph_with_ts, CsrHas
  <2> QED
    BY <2>2, <2>3 DEF MergedHas
<1>2. CASE I # {}
  <2>1. PICK n \in Nat : DOMAIN list \subseteq 1 .. n
    BY DEF Mergeables, Bounded
  <2>2. PICK m \in I : \A i \in I : i <= m
    BY <1>2, <2>1, GreatestIndex
  <2> DEFINE r == list[m]
             p == PlaceOf(r)
  <2>3. Logged(r) /\ r.e = e /\ m \in DOMAIN list
    BY <2>2 DEF Mergeables
  <2>4. p \in Nat \X Nat /\ p \in Effect /\ r.type \in {"INSERT", "DELETE"}
    <3>1. p \in Nat \X Nat /\ p \in Effect /\ r \in RecordType
      BY <2>3, RecordPlace
    <3> QED
      BY <3>1 DEF RecordType
  <2>5. LastOfEdge(list, m)
    BY <2>2, <2>3 DEF LastOfEdge
  <2>6. ASSUME NEW i \in I, LastOfEdge(list, i) PROVE i = m
    <3>1. m <= i /\ i <= m /\ i \in Nat /\ m \in Nat
      BY <2>1, <2>2, <2>3, <2>6 DEF LastOfEdge
    <3> QED
      BY <3>1
  <2>7. has <=> r.type = "INSERT"
    <3>1. ASSUME r.type = "INSERT" PROVE has
      <4>1. [e |-> r.e, ts |-> r.ts] \in build_merged_graph_with_ts(csr, list)
        BY <2>3, <2>5, <3>1 DEF build_merged_graph_with_ts
      <4> QED
        BY <2>3, <4>1
    <3>2. ASSUME has PROVE r.type = "INSERT"
      <4>1. PICK y \in build_merged_graph_with_ts(csr, list) : y.e = e
        BY <3>2
      <4>2. ~(\A i \in DOMAIN list : list[i].e # y.e)
        BY <2>3, <4>1
      <4>3. PICK i \in DOMAIN list : /\ list[i].type = "INSERT" /\ LastOfEdge(list, i)
                                     /\ y = [e |-> list[i].e, ts |-> list[i].ts]
        BY <4>1, <4>2 DEF build_merged_graph_with_ts
      <4>4. i \in I
        BY <4>1, <4>3
      <4> QED
        BY <2>6, <4>3, <4>4
    <3> QED
      BY <3>1, <3>2
  <2>8. ASSUME NEW y \in ins \cup del
        PROVE  y \in Nat \X Nat /\ ~Earlier(p, y)
    <3>1. CASE y \in Merged
      <4>1. y \in Nat \X Nat
        BY <3>1, EffectPlaces DEF Merged
      <4>2. Earlier(y, p)
        BY <2>3, <3>1 DEF Mergeables
      <4> QED
        BY <2>4, <4>1, <4>2, OneOrTheOther
    <3>2. CASE y \notin Merged
      <4>1. PICK i \in I : y = PlaceOf(list[i])
        BY <2>8, <3>2 DEF MergedOps, PlacesIn
      <4>2. Logged(list[i]) /\ y \in Nat \X Nat /\ list[i].e = e
        BY <4>1, RecordPlace DEF Mergeables
      <4>3. CASE i = m
        BY <2>4, <4>1, <4>2, <4>3, OneOrTheOther
      <4>4. CASE i # m
        <5>1. i < m
          BY <2>1, <2>2, <4>4
        <5>2. ~Older(list[m], list[i])
          BY <2>3, <4>2, <5>1 DEF InOrder
        <5> QED
          BY <4>1, <4>2, <5>2, OlderEarlier
      <4> QED
        BY <4>3, <4>4
    <3> QED
      BY <3>1, <3>2
  <2>9. CASE r.type = "INSERT"
    <3>1. p \in ins
      BY <2>2, <2>3, <2>9 DEF PlacesIn
    <3>2. log[p[1]].ops[p[2]] = [kind |-> "INSERT_EDGE", e |-> e]
      BY <2>3, <2>9, RecordPlace
    <3>3. p \notin del
      <4>1. p \notin MergedOps("DELETE_EDGE", e)
        BY <3>2 DEF MergedOps
      <4>2. ASSUME p \in PlacesIn(list, "DELETE", e) PROVE FALSE
        <5>1. PICK i \in DOMAIN list : list[i].type = "DELETE" /\ PlaceOf(list[i]) = p
          BY <4>2 DEF PlacesIn
        <5>2. log[p[1]].ops[p[2]] = [kind |-> "DELETE_EDGE", e |-> list[i].e]
          <6>1. Logged(list[i])
            BY DEF Mergeables
          <6>2. /\ PlaceOf(list[i])[1] = list[i].ts /\ PlaceOf(list[i])[2] = list[i].at
                /\ log[list[i].ts].ops[list[i].at] = [kind |-> "DELETE_EDGE", e |-> list[i].e]
            BY <5>1, <6>1, RecordPlace
          <6> QED
            BY <5>1, <6>2
        <5>3. [kind |-> "DELETE_EDGE", e |-> list[i].e].kind = "DELETE_EDGE"
              /\ [kind |-> "INSERT_EDGE", e |-> e].kind = "INSERT_EDGE"
          OBVIOUS
        <5> QED
          BY <3>2, <5>2, <5>3
      <4> QED
        BY <4>1, <4>2
    <3>4. \A y \in del : Earlier(y, p)
      BY <2>4, <2>8, <3>3, OneOrTheOther
    <3> QED
      BY <2>7, <2>9, <3>1, <3>4
  <2>10. CASE r.type = "DELETE"
    <3>1. p \in del
      BY <2>2, <2>3, <2>10 DEF PlacesIn
    <3>2. \A x \in ins : ~Earlier(p, x)
      BY <2>8
    <3> QED
      BY <2>7, <2>10, <3>1, <3>2
  <2> QED
    BY <2>4, <2>9, <2>10
<1> QED
  BY <1>1, <1>2

\* The operations on an edge among the merged ones and those of a list.
LEMMA OpsOfList ==
  ASSUME TxnTyped, NEW e, NEW list, \A i \in DOMAIN list : Logged(list[i]),
         NEW type, NEW kind, \/ type = "INSERT" /\ kind = "INSERT_EDGE"
                             \/ type = "DELETE" /\ kind = "DELETE_EDGE"
  PROVE  {x \in MergedWith(list) : log[x[1]].ops[x[2]] = [kind |-> kind, e |-> e]}
           = MergedOps(kind, e) \cup PlacesIn(list, type, e)
<1>1. ASSUME NEW i \in DOMAIN list
      PROVE  log[PlaceOf(list[i])[1]].ops[PlaceOf(list[i])[2]] = [kind |-> kind, e |-> e]
               <=> list[i].e = e /\ list[i].type = type
  <2> DEFINE r == list[i]
  <2>1. Logged(r)
    OBVIOUS
  <2> HIDE DEF r
  <2>2. /\ r \in RecordType /\ PlaceOf(r)[1] = r.ts /\ PlaceOf(r)[2] = r.at
        /\ r.type = "INSERT" => log[r.ts].ops[r.at] = [kind |-> "INSERT_EDGE", e |-> r.e]
        /\ r.type = "DELETE" => log[r.ts].ops[r.at] = [kind |-> "DELETE_EDGE", e |-> r.e]
    BY <2>1, RecordPlace
  <2>3. r.type \in {"INSERT", "DELETE"}
    BY <2>2 DEF RecordType
  <2>4. \A k, l, a, b : [kind |-> k, e |-> a] = [kind |-> l, e |-> b] <=> k = l /\ a = b
    <3> TAKE k, l, a, b
    <3>1. [kind |-> k, e |-> a].kind = k /\ [kind |-> l, e |-> b].kind = l
      OBVIOUS
    <3>2. [kind |-> k, e |-> a].e = a /\ [kind |-> l, e |-> b].e = b
      OBVIOUS
    <3> QED
      BY <3>1, <3>2
  <2> QED
    BY <2>2, <2>3, <2>4 DEF r
<1> QED
  BY <1>1 DEF MergedWith, MergedOps, PlacesIn

-----------------------------------------------------------------------------
(* What the invariant says of reads *)

LEMMA ReachableRecord ==
  ASSUME MvccInv, NEW r \in Reachable
  PROVE  Logged(r) /\ \A x \in Merged : Earlier(x, PlaceOf(r))
BY DEF MvccInv, RecordsLogged, MergedFirst

\* The commits of a snapshot that no commit under way belongs to are applied.
LEMMA SnapshotOps ==
  ASSUME MvccInv, NEW n \in 0 .. Len(log), \A u \in Txns : tx[u].pc = "apply" => n < tx[u].commit_ts,
         NEW kind \in EdgeKinds, NEW e, NEW x
  PROVE  x \in EdgeOps(kind, e, n) <=>
           x \in Effect /\ x[1] <= n /\ log[x[1]].ops[x[2]] = [kind |-> kind, e |-> e]
<1>0. TxnTyped /\ Len(log) \in Nat
  BY DEF MvccInv, TxnInv, TxnTyped
<1>1. ASSUME x \in EdgeOps(kind, e, n)
      PROVE  x \in Effect /\ x[1] <= n /\ log[x[1]].ops[x[2]] = [kind |-> kind, e |-> e]
  <2>1. PICK s \in 1 .. n : x \in {s} \X DOMAIN log[s].ops
    BY <1>1 DEF EdgeOps, Positions
  <2>2. PICK i \in DOMAIN log[s].ops : x = <<s, i>>
    BY <2>1
  <2>3. log[s].ops[i] = [kind |-> kind, e |-> e]
    BY <1>1, <2>2 DEF EdgeOps
  <2>4. log[s].ops[i].kind = kind
    BY <2>3
  <2>5. \A u \in Txns : tx[u].pc = "apply" => tx[u].commit_ts # s
    BY <1>0 DEF MvccInv, TxnInv, TxnTyped, TxType
  <2>6. Applied(<<s, i>>)
    BY <2>5 DEF Applied
  <2>7. s \in 1 .. Len(log)
    BY <1>0
  <2>8. <<s, i>> \in Effect
    BY <1>0, <2>4, <2>6, <2>7, EffectMember
  <2> QED
    BY <2>2, <2>3, <2>8
<1>2. ASSUME x \in Effect, x[1] <= n, log[x[1]].ops[x[2]] = [kind |-> kind, e |-> e]
      PROVE  x \in EdgeOps(kind, e, n)
  <2>1. x = <<x[1], x[2]>> /\ x[1] \in 1 .. n /\ x[2] \in DOMAIN log[x[1]].ops
    BY <1>0, <1>2, EffectPlaces
  <2>2. x \in {x[1]} \X DOMAIN log[x[1]].ops
    BY <2>1
  <2>3. x \in Positions(n)
    BY <2>1, <2>2 DEF Positions
  <2> QED
    BY <1>2, <2>3 DEF EdgeOps
<1> QED
  BY <1>1, <1>2

LEMMA ReadsClean ==
  ASSUME MvccInv
  PROVE  NoDirtyRead
<1> SUFFICES ASSUME NEW t \in Txns, NEW v \in Vertices, tx[t].pc = "open",
                    NEW w \in read_neighbor_clone_txn(v, tx[t].read_ts), <<v, w>> \notin Base
             PROVE  \E s \in 1 .. tx[t].read_ts : \E i \in DOMAIN log[s].ops :
                      log[s].ops[i] = [kind |-> "INSERT_EDGE", e |-> <<v, w>>]
  BY DEF NoDirtyRead
<1> DEFINE R == tx[t].read_ts
<1>0. TxnTyped /\ R \in Nat /\ Len(log) \in Nat
  BY DEF MvccInv, TxnInv, TxnTyped, TxType
<1>1. CASE \E y \in csr : y.e[1] = v /\ y.e[2] = w /\ (y.ts = INVALID_TS \/ y.ts <= R)
  <2>1. PICK y \in csr : y.e[1] = v /\ y.e[2] = w /\ (y.ts = INVALID_TS \/ y.ts <= R)
    BY <1>1
  <2>2. y.e \in Vertices \X Vertices /\ y.ts \in Nat
    BY DEF MvccInv, ListsTyped
  <2>3. y.e = <<v, w>>
    BY <2>1, <2>2
  <2>4. PICK x \in Effect : x[1] = y.ts /\ log[x[1]].ops[x[2]] = [kind |-> "INSERT_EDGE", e |-> y.e]
    BY <2>3 DEF MvccInv, CsrLogged
  <2>5. x[1] \in 1 .. Len(log) /\ x[2] \in DOMAIN log[x[1]].ops
    BY <1>0, EffectPlaces
  <2>6. x[1] \in 1 .. R
    BY <1>0, <2>1, <2>2, <2>4, <2>5 DEF INVALID_TS
  <2> QED
    BY <2>3, <2>4, <2>5, <2>6
<1>2. CASE \E r \in Reachable : r.e[1] = v /\ r.e[2] = w /\ Visible(r, R) /\ r.type = "INSERT"
  <2>1. PICK r \in Reachable : r.e[1] = v /\ r.e[2] = w /\ Visible(r, R) /\ r.type = "INSERT"
    BY <1>2
  <2>2. Logged(r)
    BY ReachableRecord
  <2>3. /\ r \in RecordType /\ r.ts \in 1 .. Len(log) /\ r.at \in DOMAIN log[r.ts].ops
        /\ log[r.ts].ops[r.at] = [kind |-> "INSERT_EDGE", e |-> r.e]
    <3>1. /\ r \in RecordType /\ r.ts \in 1 .. Len(log)
          /\ log[r.ts].ops[r.at] = [kind |-> "INSERT_EDGE", e |-> r.e]
          /\ PlaceOf(r) \in Effect /\ PlaceOf(r)[1] = r.ts /\ PlaceOf(r)[2] = r.at
      BY <1>0, <2>1, <2>2, RecordPlace
    <3>2. PlaceOf(r)[2] \in DOMAIN log[PlaceOf(r)[1]].ops
      BY <1>0, <3>1, EffectPlaces
    <3> QED
      BY <3>1, <3>2
  <2>4. r.e \in Vertices \X Vertices
    BY <2>3 DEF RecordType
  <2>5. r.e = <<v, w>>
    BY <2>1, <2>4
  <2>6. r.ts \in 1 .. R
    BY <1>0, <2>1, <2>3 DEF Visible
  <2> QED
    BY <2>3, <2>5, <2>6
<1> QED
  BY <1>1, <1>2 DEF read_neighbor_clone_txn

\* What a reader finds of an edge: visible deletes hide it, visible inserts and
\* base page entries show it.
LEMMA ReadOfEdge ==
  ASSUME MvccInv, NEW v \in Vertices, NEW w \in Vertices, NEW n \in Nat
  PROVE  w \in read_neighbor_clone_txn(v, n) <=>
           /\ \/ \E y \in csr : y.e = <<v, w>> /\ (y.ts = INVALID_TS \/ y.ts <= n)
              \/ \E r \in Reachable : r.e = <<v, w>> /\ r.ts <= n /\ r.type = "INSERT"
           /\ ~\E r \in Reachable : r.e = <<v, w>> /\ r.ts <= n /\ r.type = "DELETE"
<1>0. TxnTyped /\ Len(log) \in Nat
  BY DEF MvccInv, TxnInv, TxnTyped
<1>1. ASSUME NEW r \in Reachable
      PROVE  /\ Visible(r, n) <=> r.ts <= n
             /\ r.e = <<v, w>> <=> r.e[1] = v /\ r.e[2] = w
  <2>1. r \in RecordType /\ r.ts \in 1 .. Len(log)
    BY <1>0, ReachableRecord, RecordPlace
  <2>2. r.e \in Vertices \X Vertices
    BY <2>1 DEF RecordType
  <2> QED
    BY <1>0, <2>1, <2>2 DEF Visible, INVALID_TS
<1>2. \A y \in csr : y.e = <<v, w>> <=> y.e[1] = v /\ y.e[2] = w
  <2>1. \A y \in csr : y.e \in Vertices \X Vertices
    BY DEF MvccInv, ListsTyped
  <2> QED
    BY <2>1
<1> DEFINE seen == {r \in Reachable : r.e[1] = v /\ Visible(r, n)}
           ins  == {r.e[2] : r \in {s \in seen : s.type = "INSERT"}}
           del  == {r.e[2] : r \in {s \in seen : s.type = "DELETE"}}
           base == {x.e[2] : x \in {y \in csr : y.e[1] = v /\ (y.ts = INVALID_TS \/ y.ts <= n)}}
<1>3. w \in read_neighbor_clone_txn(v, n) <=> (w \in base \/ w \in ins) /\ w \notin del
  BY DEF read_neighbor_clone_txn
<1>4. w \in base <=> \E y \in csr : y.e = <<v, w>> /\ (y.ts = INVALID_TS \/ y.ts <= n)
  BY <1>2
<1>5. w \in ins <=> \E r \in Reachable : r.e = <<v, w>> /\ r.ts <= n /\ r.type = "INSERT"
  BY <1>1
<1>6. w \in del <=> \E r \in Reachable : r.e = <<v, w>> /\ r.ts <= n /\ r.type = "DELETE"
  BY <1>1
<1> QED
  BY <1>3, <1>4, <1>5, <1>6

LEMMA ReadsExact ==
  ASSUME MvccInv
  PROVE  SnapshotExact
<1> SUFFICES ASSUME NEW t \in Txns, NEW v \in Vertices, NEW w \in Vertices, tx[t].pc = "open",
                    tx[t].clean, ~Reinserted(<<v, w>>), <<v, w>> \notin crossed
             PROVE  w \in read_neighbor_clone_txn(v, tx[t].read_ts)
                      <=> InSnapshot(<<v, w>>, tx[t].read_ts)
  BY DEF SnapshotExact
<1>0. PICK R \in 0 .. Len(log) : R = tx[t].read_ts
  BY DEF MvccInv, TxnInv, TxnTyped, TxType
<1>1. TxnTyped /\ Len(log) \in Nat /\ R \in Nat
  BY <1>0 DEF MvccInv, TxnInv, TxnTyped
<1> DEFINE e == <<v, w>>
           Is(x, k) == log[x[1]].ops[x[2]] = [kind |-> k, e |-> e]
<1>2. e \in Vertices \X Vertices
  OBVIOUS
<1> HIDE DEF e
<1>3. Undisturbed(t)
  BY DEF Undisturbed
<1>4. \A u \in Txns : tx[u].pc = "apply" => R < tx[u].commit_ts
  BY <1>0, <1>3 DEF MvccInv, SnapshotApplied
<1>5. ASSUME NEW k \in EdgeKinds, NEW x
      PROVE  x \in EdgeOps(k, e, R) <=> x \in Effect /\ x[1] <= R /\ Is(x, k)
  BY <1>0, <1>1, <1>4, SnapshotOps
<1>6. /\ \A x \in Merged : x \in Effect /\ x[1] <= R /\ x \in Nat \X Nat
      /\ \A y \in csr : y.ts <= R
  BY <1>0, <1>1, <1>3, EffectPlaces DEF MvccInv, MergedOld, Merged
<1>7. CsrHas(e) <=> MergedHas(e)
  BY <1>2 DEF MvccInv, CsrExact, e
<1>8. ASSUME NEW r \in Reachable, r.e = e, r.ts <= R
      PROVE  /\ r.type = "INSERT" => PlaceOf(r) \in EdgeOps("INSERT_EDGE", e, R)
             /\ r.type = "DELETE" => PlaceOf(r) \in EdgeOps("DELETE_EDGE", e, R)
             /\ PlaceOf(r) \in Nat \X Nat
  <2>1. /\ PlaceOf(r) \in Effect /\ PlaceOf(r) \in Nat \X Nat
        /\ PlaceOf(r)[1] = r.ts /\ PlaceOf(r)[2] = r.at
        /\ r.type = "INSERT" => log[r.ts].ops[r.at] = [kind |-> "INSERT_EDGE", e |-> r.e]
        /\ r.type = "DELETE" => log[r.ts].ops[r.at] = [kind |-> "DELETE_EDGE", e |-> r.e]
    BY <1>1, ReachableRecord, RecordPlace
  <2> QED
    BY <1>5, <1>8, <2>1 DEF EdgeKinds
<1>9. ASSUME NEW x \in Effect, x[1] <= R, NEW k \in EdgeKinds, Is(x, k), x \notin Merged
      PROVE  \E r \in Reachable : /\ r.e = e /\ r.ts <= R /\ PlaceOf(r) = x
                                  /\ r.type = IF k = "INSERT_EDGE" THEN "INSERT" ELSE "DELETE"
  <2>1. PICK r \in Reachable : PlaceOf(r) = x
    BY <1>9 DEF Merged
  <2>2. /\ r \in RecordType /\ PlaceOf(r)[1] = r.ts /\ PlaceOf(r)[2] = r.at
        /\ r.type = "INSERT" => log[r.ts].ops[r.at] = [kind |-> "INSERT_EDGE", e |-> r.e]
        /\ r.type = "DELETE" => log[r.ts].ops[r.at] = [kind |-> "DELETE_EDGE", e |-> r.e]
    BY <1>1, ReachableRecord, RecordPlace
  <2>3. r.type \in {"INSERT", "DELETE"}
    BY <2>2 DEF RecordType
  <2>4. log[r.ts].ops[r.at] = [kind |-> k, e |-> e]
    BY <1>9, <2>1, <2>2
  <2>5. log[r.ts].ops[r.at].kind = k /\ log[r.ts].ops[r.at].e = e
    BY <2>4
  <2>6. CASE r.type = "INSERT"
    <3>1. k = "INSERT_EDGE" /\ r.e = e
      BY <2>2, <2>5, <2>6
    <3> QED
      BY <1>9, <2>1, <2>2, <2>6, <3>1
  <2>7. CASE r.type = "DELETE"
    <3>1. k = "DELETE_EDGE" /\ r.e = e
      BY <2>2, <2>5, <2>7
    <3> QED
      BY <1>9, <2>1, <2>2, <2>7, <3>1
  <2> QED
    BY <2>3, <2>6, <2>7
<1> DEFINE shown == \/ \E y \in csr : y.e = e /\ (y.ts = INVALID_TS \/ y.ts <= R)
                    \/ \E r \in Reachable : r.e = e /\ r.ts <= R /\ r.type = "INSERT"
           hidden == \E r \in Reachable : r.e = e /\ r.ts <= R /\ r.type = "DELETE"
<1>10. w \in read_neighbor_clone_txn(v, R) <=> shown /\ ~hidden
  BY <1>1, ReadOfEdge DEF e
<1>11. ASSUME shown, ~hidden PROVE InSnapshot(e, R)
  <2>1. EdgeOps("DELETE_EDGE", e, R) = MergedOps("DELETE_EDGE", e)
    <3>1. ASSUME NEW x \in EdgeOps("DELETE_EDGE", e, R) PROVE x \in MergedOps("DELETE_EDGE", e)
      <4>1. x \in Effect /\ x[1] <= R /\ Is(x, "DELETE_EDGE")
        BY <1>5, <3>1 DEF EdgeKinds
      <4>2. x \in Merged
        BY <1>9, <1>11, <4>1 DEF EdgeKinds
      <4> QED
        BY <4>1, <4>2 DEF MergedOps
    <3>2. ASSUME NEW x \in MergedOps("DELETE_EDGE", e) PROVE x \in EdgeOps("DELETE_EDGE", e, R)
      BY <1>5, <1>6 DEF MergedOps, EdgeKinds
    <3> QED
      BY <3>1, <3>2
  <2>2. CASE CsrHas(e)
    <3>1. MergedHas(e)
      BY <1>7, <2>2
    <3>2. \A x \in MergedOps("INSERT_EDGE", e) : x \in EdgeOps("INSERT_EDGE", e, R)
      BY <1>5, <1>6 DEF MergedOps, EdgeKinds
    <3> QED
      BY <2>1, <3>1, <3>2 DEF MergedHas, InSnapshot
  <2>3. CASE ~CsrHas(e)
    <3>1. PICK r \in Reachable : r.e = e /\ r.ts <= R /\ r.type = "INSERT"
      BY <1>11, <2>3 DEF CsrHas
    <3>2. PlaceOf(r) \in EdgeOps("INSERT_EDGE", e, R)
      BY <1>8, <3>1
    <3>3. \A y \in MergedOps("DELETE_EDGE", e) : Earlier(y, PlaceOf(r))
      BY ReachableRecord DEF MergedOps
    <3> QED
      BY <2>1, <3>2, <3>3 DEF InSnapshot
  <2> QED
    BY <2>2, <2>3
<1>12. ASSUME InSnapshot(e, R) PROVE shown /\ ~hidden
  <2>1. ASSUME NEW k, NEW x \in EdgeOps(k, e, R) PROVE x \in EdgeOps(k, e, Len(log))
    <3>1. 1 .. R \subseteq 1 .. Len(log)
      BY <1>1
    <3> QED
      BY <3>1 DEF EdgeOps, Positions
  <2>2. EdgeOps("DELETE_EDGE", e, R) = {}
    BY <1>12, <2>1 DEF InSnapshot, Reinserted, e
  <2>3. ~hidden
    BY <1>8, <2>2
  <2>4. MergedOps("DELETE_EDGE", e) = {}
    BY <1>5, <1>6, <2>2 DEF MergedOps, EdgeKinds
  <2>5. CASE MergedHas(e)
    BY <1>6, <1>7, <2>3, <2>5 DEF CsrHas
  <2>6. CASE ~MergedHas(e)
    <3>1. PICK x \in EdgeOps("INSERT_EDGE", e, R) : TRUE
      BY <1>12, <2>4, <2>6 DEF InSnapshot, MergedHas
    <3>2. x \in Effect /\ x[1] <= R /\ Is(x, "INSERT_EDGE")
      BY <1>5, <3>1 DEF EdgeKinds
    <3>3. x \notin Merged
      BY <2>4, <2>6, <3>2 DEF MergedHas, MergedOps
    <3> QED
      BY <1>9, <2>3, <3>2, <3>3 DEF EdgeKinds
  <2> QED
    BY <2>5, <2>6
<1> QED
  BY <1>0, <1>10, <1>11, <1>12 DEF e

LEMMA MergesExactly ==
  ASSUME MvccInv
  PROVE  MergeExact
<1> SUFFICES ASSUME smo.pc = "idle", commit_lock = NoTxn, NEW e \in Vertices \X Vertices, e \notin crossed
             PROVE  (\E y \in build_merged_graph_with_ts(csr, chain) : y.e = e) <=> InSnapshot(e, current_ts)
  BY DEF MergeExact
<1>1. TxnTyped /\ Len(log) \in Nat /\ current_ts = Len(log) /\ current_ts \in 0 .. Len(log)
  BY DEF MvccInv, TxnInv, TxnTyped
<1>2. \A u \in Txns : tx[u].pc # "apply"
  BY TxnAssumption DEF MvccInv, TxnInv, LockHeld
<1>3. Reachable = Range(chain) /\ chain \in Seq(RecordType)
  <2>1. DOMAIN smo.got = {} /\ DOMAIN smo.queue = {} /\ chain \in Seq(RecordType)
    BY DEF MvccInv, ListsTyped
  <2> QED
    BY <2>1 DEF Reachable, Range
<1>4. \A i \in DOMAIN chain : chain[i] \in Reachable
  BY <1>3 DEF Range
<1>5. \A i \in DOMAIN chain : Logged(chain[i]) /\ \A x \in Merged : Earlier(x, PlaceOf(chain[i]))
  BY <1>4, ReachableRecord
<1>6. Mergeables(chain)
  <2>1. DOMAIN chain \subseteq 1 .. Len(chain) /\ Len(chain) \in Nat
    BY <1>3
  <2> QED
    BY <1>5, <2>1 DEF Mergeables, Bounded
<1>7. Effect = MergedWith(chain)
  <2>1. \A i \in DOMAIN chain : PlaceOf(chain[i]) \in Effect
    BY <1>5 DEF Logged
  <2>2. ASSUME NEW x \in Effect, x \notin Merged PROVE \E i \in DOMAIN chain : x = PlaceOf(chain[i])
    <3>1. PICK r \in Range(chain) : PlaceOf(r) = x
      BY <1>3, <2>2 DEF Merged
    <3> QED
      BY <3>1 DEF Range
  <2> QED
    BY <2>1, <2>2 DEF Merged, MergedWith
<1>8. ASSUME NEW k \in EdgeKinds
      PROVE  EdgeOps(k, e, current_ts) = {x \in Effect : log[x[1]].ops[x[2]] = [kind |-> k, e |-> e]}
  <2>1. \A x \in Effect : x[1] <= current_ts
    BY <1>1, EffectPlaces
  <2>2. \A x : x \in EdgeOps(k, e, current_ts) <=>
                 x \in Effect /\ x[1] <= current_ts /\ log[x[1]].ops[x[2]] = [kind |-> k, e |-> e]
    BY <1>1, <1>2, SnapshotOps
  <2> QED
    BY <2>1, <2>2
<1>9. EdgeOps("INSERT_EDGE", e, current_ts) = InsertsWith(chain, e)
  BY <1>1, <1>5, <1>7, <1>8, OpsOfList DEF EdgeKinds, InsertsWith
<1>10. EdgeOps("DELETE_EDGE", e, current_ts) = DeletesWith(chain, e)
  BY <1>1, <1>5, <1>7, <1>8, OpsOfList DEF EdgeKinds, DeletesWith
<1>11. InOrder(chain) /\ (CsrHas(e) <=> MergedHas(e))
  BY DEF MvccInv, ChainsOrdered, CsrExact
<1> QED
  BY <1>1, <1>6, <1>9, <1>10, <1>11, LastDecides DEF InSnapshot

-----------------------------------------------------------------------------
(* Steps that leave the applied operations and the lists alone *)

LEMMA SameOperations ==
  ASSUME MvccInv, Effect' = Effect, \A x \in Effect : log'[x[1]].ops[x[2]] = log[x[1]].ops[x[2]],
         UNCHANGED <<chain, smo, csr, crossed>>
  PROVE  /\ ListsTyped' /\ RecordsLogged' /\ MergedFirst' /\ SplitApart' /\ ChainsOrdered'
         /\ CsrExact' /\ CsrLogged' /\ Merged' = Merged
<1>1. Reachable' = Reachable /\ Left' = Left
  BY DEF Reachable, Left
<1>2. Merged' = Merged
  BY <1>1 DEF Merged
<1>3. ListsTyped'
  BY DEF MvccInv, ListsTyped, Bounded
<1>4. RecordsLogged'
  <2> SUFFICES ASSUME NEW r \in Reachable PROVE Logged(r)'
    BY <1>1 DEF RecordsLogged
  <2>1. Logged(r)
    BY ReachableRecord
  <2>2. log'[r.ts].ops[r.at] = log[r.ts].ops[r.at]
    <3>1. PlaceOf(r)[1] = r.ts /\ PlaceOf(r)[2] = r.at /\ PlaceOf(r) \in Effect
      BY <2>1 DEF PlaceOf, Logged
    <3> QED
      BY <3>1
  <2> QED
    BY <2>1, <2>2 DEF Logged
<1>5. MergedFirst' /\ SplitApart' /\ ChainsOrdered'
  <2>1. MergedFirst'
    BY <1>1, <1>2 DEF MvccInv, MergedFirst
  <2>2. SplitApart'
    BY <1>1 DEF MvccInv, SplitApart
  <2>3. ChainsOrdered'
    BY DEF MvccInv, ChainsOrdered, InOrder
  <2> QED
    BY <2>1, <2>2, <2>3
<1>6. CsrExact'
  <2>1. \A k, e : MergedOps(k, e)' = MergedOps(k, e)
    <3> TAKE k, e
    <3>1. \A x \in Merged : log'[x[1]].ops[x[2]] = log[x[1]].ops[x[2]]
      BY DEF Merged
    <3> QED
      BY <1>2, <3>1 DEF MergedOps
  <2>2. \A e : CsrHas(e)' = CsrHas(e) /\ MergedHas(e)' = MergedHas(e)
    BY <2>1 DEF CsrHas, MergedHas
  <2> QED
    BY <2>2 DEF MvccInv, CsrExact
<1>7. CsrLogged'
  <2> SUFFICES ASSUME NEW y \in csr
               PROVE  \/ y.ts = INVALID_TS /\ y.e \in Base
                      \/ \E x \in Effect : /\ x[1] = y.ts
                                           /\ log'[x[1]].ops[x[2]] = [kind |-> "INSERT_EDGE", e |-> y.e]
    BY DEF CsrLogged
  <2> QED
    BY DEF MvccInv, CsrLogged
<1> QED
  BY <1>2, <1>3, <1>4, <1>5, <1>6, <1>7

\* Nothing is younger than the latest commit.
LEMMA AllCommitted ==
  ASSUME MvccInv
  PROVE  /\ \A x \in Merged : x[1] <= current_ts
         /\ \A y \in csr : y.ts <= current_ts
         /\ \A r \in Range(smo.got) : r.ts <= current_ts
<1>1. TxnTyped /\ current_ts \in Nat /\ Len(log) = current_ts
  BY DEF MvccInv, TxnInv, TxnTyped
<1>2. \A x \in Effect : x[1] <= current_ts
  BY <1>1, EffectPlaces
<1>3. \A y \in csr : y.ts <= current_ts
  <2> SUFFICES ASSUME NEW y \in csr PROVE y.ts <= current_ts
    OBVIOUS
  <2>1. y.ts = INVALID_TS \/ \E x \in Effect : x[1] = y.ts
    BY DEF MvccInv, CsrLogged
  <2> QED
    BY <1>1, <1>2, <2>1 DEF INVALID_TS
<1>4. \A r \in Range(smo.got) : r.ts <= current_ts
  <2> SUFFICES ASSUME NEW r \in Range(smo.got) PROVE r.ts <= current_ts
    OBVIOUS
  <2>1. Logged(r)
    BY ReachableRecord DEF Reachable
  <2>2. r.ts \in 1 .. Len(log)
    BY <1>1, <2>1, RecordPlace
  <2> QED
    BY <1>1, <2>2
<1> QED
  BY <1>2, <1>3, <1>4 DEF Merged

\* A step of one transaction that is not applying writes: it applies nothing, and
\* becomes undisturbed only by taking the latest snapshot while no commit is applied.
MovesOne(t) ==
  /\ \A u \in Txns : u # t => tx'[u] = tx[u]
  /\ tx[t].pc # "apply" /\ tx'[t].pc # "apply"
  /\ tx'[t].pc \in {"new", "loaded", "open"} => tx'[t].next = 1
  /\ (tx'[t].pc \in {"loaded", "open"} /\ tx'[t].clean) =>
       \/ Undisturbed(t) /\ tx'[t].read_ts = tx[t].read_ts
       \/ tx'[t].read_ts = current_ts /\ \A u \in Txns : tx[u].pc # "apply"
  /\ UNCHANGED <<log, current_ts, chain, smo, csr, crossed>>

LEMMA MovesOneStep ==
  ASSUME MvccInv, TxnInv', NEW t \in Txns, MovesOne(t)
  PROVE  MvccInv'
<1>1. \A x : Applied(x)' = Applied(x)
  BY DEF Applied, MovesOne
<1>2. Effect' = Effect
  BY <1>1 DEF Effect, Positions, MovesOne
<1>3. /\ ListsTyped' /\ RecordsLogged' /\ MergedFirst' /\ SplitApart' /\ ChainsOrdered'
      /\ CsrExact' /\ CsrLogged' /\ Merged' = Merged
  BY <1>2, SameOperations DEF MovesOne
<1>4. ToApply'
  <2> SUFFICES ASSUME NEW u \in Txns, tx'[u].pc = "apply"
               PROVE  LET ops == log'[tx'[u].commit_ts].ops
                      IN /\ Len(ops) = Len(tx'[u].ops) /\ tx'[u].next <= Len(ops) + 1
                         /\ \A i \in tx'[u].next .. Len(ops) : ops[i] = tx'[u].ops[i]
    BY DEF ToApply
  <2>1. tx'[u] = tx[u] /\ log' = log
    BY DEF MovesOne
  <2> QED
    BY <2>1 DEF MvccInv, ToApply
<1>5. Fresh'
  BY DEF MvccInv, Fresh, MovesOne
<1>6. ASSUME NEW u \in Txns, Undisturbed(u)'
      PROVE  \/ Undisturbed(u) /\ tx'[u].read_ts = tx[u].read_ts
             \/ tx'[u].read_ts = current_ts /\ \A a \in Txns : tx[a].pc # "apply"
  BY <1>6 DEF Undisturbed, MovesOne
<1>7. SnapshotApplied'
  <2> SUFFICES ASSUME NEW u \in Txns, NEW a \in Txns, Undisturbed(u)', tx'[a].pc = "apply"
               PROVE  tx'[u].read_ts < tx'[a].commit_ts
    BY DEF SnapshotApplied
  <2>1. tx'[a] = tx[a]
    BY DEF MovesOne
  <2> QED
    BY <1>6, <2>1 DEF MvccInv, SnapshotApplied
<1>8. MergedOld'
  <2> SUFFICES ASSUME NEW u \in Txns, Undisturbed(u)'
               PROVE  /\ \A x \in Merged : x[1] <= tx'[u].read_ts
                      /\ \A y \in csr : y.ts <= tx'[u].read_ts
                      /\ smo.pc # "split" => \A r \in Range(smo.got) : r.ts <= tx'[u].read_ts
    BY <1>3 DEF MergedOld, MovesOne
  <2> QED
    BY <1>6, AllCommitted DEF MvccInv, MergedOld
<1> QED
  BY <1>3, <1>4, <1>5, <1>7, <1>8 DEF MvccInv

LEMMA BeginMvcc ==
  ASSUME MvccInv, NEW t \in Txns, begin_txn(t) \/ register_reader(t)
  PROVE  MovesOne(t)
<1>1. tx[t] \in TxType /\ tx \in [Txns -> TxType]
  BY DEF MvccInv, TxnInv, TxnTyped
<1>2. CASE begin_txn(t)
  <2> DEFINE x == [tx[t] EXCEPT !.pc = "loaded", !.read_ts = current_ts,
                                !.clean = \A u \in Txns : tx[u].pc # "apply"]
  <2>1. tx[t].pc = "new" /\ tx' = [tx EXCEPT ![t] = x]
        /\ UNCHANGED <<log, current_ts, chain, smo, csr, crossed>>
    BY <1>1, <1>2 DEF begin_txn
  <2>2. x.pc = "loaded" /\ x.read_ts = current_ts /\ x.next = tx[t].next
        /\ x.clean = \A u \in Txns : tx[u].pc # "apply"
    BY <1>1, ZenonT(40) DEF TxType
  <2> HIDE DEF x
  <2>3. tx'[t] = x /\ \A u \in Txns : u # t => tx'[u] = tx[u]
    BY <1>1, <2>1
  <2>4. tx[t].next = 1
    BY <2>1 DEF MvccInv, Fresh
  <2> QED
    BY <2>1, <2>2, <2>3, <2>4 DEF MovesOne
<1>3. CASE register_reader(t)
  <2> DEFINE x == [tx[t] EXCEPT !.pc = "open"]
  <2>1. tx[t].pc = "loaded" /\ tx' = [tx EXCEPT ![t] = x]
        /\ UNCHANGED <<log, current_ts, chain, smo, csr, crossed>>
    BY <1>1, <1>3 DEF register_reader
  <2>2. x.pc = "open" /\ x.read_ts = tx[t].read_ts /\ x.next = tx[t].next /\ x.clean = tx[t].clean
    BY <1>1, ZenonT(40) DEF TxType
  <2> HIDE DEF x
  <2>3. tx'[t] = x /\ \A u \in Txns : u # t => tx'[u] = tx[u]
    BY <1>1, <2>1
  <2>4. tx[t].next = 1
    BY <2>1 DEF MvccInv, Fresh
  <2> QED
    BY <2>1, <2>2, <2>3, <2>4 DEF MovesOne, Undisturbed
<1> QED
  BY <1>2, <1>3

\* An open transaction notes a read or a write, or ends without a commit.
LEMMA OpenMvcc ==
  ASSUME MvccInv, NEW t \in Txns,
         \/ \E v \in Vertices : get_neighbors(t, v)
         \/ \E op \in Ops : Write(t, op)
         \/ CommitEmpty(t) \/ CommitRefused(t) \/ abort(t)
  PROVE  MovesOne(t)
<1>1. tx[t] \in TxType /\ tx \in [Txns -> TxType]
  BY DEF MvccInv, TxnInv, TxnTyped
<1>2. PICK x : /\ tx' = [tx EXCEPT ![t] = x]
               /\ \/ \E h : x = [tx[t] EXCEPT !.reads = h]
                  \/ \E o : x = [tx[t] EXCEPT !.ops = o]
                  \/ x = [tx[t] EXCEPT !.pc = "done"]
                  \/ x = [tx[t] EXCEPT !.pc = "done", !.ops = <<>>]
  BY <1>1 DEF get_neighbors, Write, CommitEmpty, CommitRefused, abort
<1>3. tx[t].pc = "open" /\ UNCHANGED <<log, current_ts, chain, smo, csr, crossed>>
  BY DEF get_neighbors, Write, CommitEmpty, CommitRefused, abort
<1>4. x.pc \in {"open", "done"} /\ x.read_ts = tx[t].read_ts /\ x.next = tx[t].next /\ x.clean = tx[t].clean
  <2>1. CASE \E h : x = [tx[t] EXCEPT !.reads = h]
    BY <1>1, <1>3, <2>1, ZenonT(40) DEF TxType
  <2>2. CASE \E o : x = [tx[t] EXCEPT !.ops = o]
    BY <1>1, <1>3, <2>2, ZenonT(40) DEF TxType
  <2>3. CASE x = [tx[t] EXCEPT !.pc = "done"]
    BY <1>1, <2>3, ZenonT(40) DEF TxType
  <2>4. CASE x = [tx[t] EXCEPT !.pc = "done", !.ops = <<>>]
    BY <1>1, <2>4, ZenonT(40) DEF TxType
  <2> QED
    BY <1>2, <2>1, <2>2, <2>3, <2>4
<1>5. tx'[t] = x /\ \A u \in Txns : u # t => tx'[u] = tx[u]
  BY <1>1, <1>2
<1>6. tx[t].next = 1
  BY <1>3 DEF MvccInv, Fresh
<1> QED
  BY <1>3, <1>4, <1>5, <1>6 DEF MovesOne, Undisturbed

LEMMA DestroyMvcc ==
  ASSUME MvccInv, NEW t \in Txns, Destroy(t)
  PROVE  MovesOne(t)
<1> DEFINE x == [NewTx EXCEPT !.pc = "gone"]
<1>1. tx \in [Txns -> TxType] /\ tx[t].pc = "done" /\ tx' = [tx EXCEPT ![t] = x]
      /\ UNCHANGED <<log, current_ts, chain, smo, csr, crossed>>
  BY DEF MvccInv, TxnInv, TxnTyped, Destroy
<1>2. x.pc = "gone"
  BY DEF NewTx
<1> HIDE DEF x
<1>3. tx'[t] = x /\ \A u \in Txns : u # t => tx'[u] = tx[u]
  BY <1>1
<1> QED
  BY <1>1, <1>2, <1>3 DEF MovesOne

-----------------------------------------------------------------------------
(* Steps of a commit *)

LEMMA PositionsOf ==
  ASSUME NEW L, NEW x
  PROVE  x \in UNION {{s} \X DOMAIN L[s].ops : s \in 1 .. Len(L)}
           <=> \E s \in 1 .. Len(L) : \E i \in DOMAIN L[s].ops : x = <<s, i>>
OBVIOUS

\* A new commit has applied nothing yet.
LEMMA CommitMvcc ==
  ASSUME MvccInv, TxnInv', NEW t \in Txns, commit(t)
  PROVE  MvccInv'
<1> DEFINE n == current_ts + 1
           x == [tx[t] EXCEPT !.pc = "apply", !.commit_ts = n]
           ent == [ops |-> tx[t].ops, hashes |-> IF t \in Serializable THEN Hashes(t) ELSE {}]
<1>1. /\ tx[t] \in TxType /\ tx \in [Txns -> TxType] /\ tx[t].pc = "open" /\ current_ts \in Nat
      /\ log \in Seq(Entry) /\ Len(log) = current_ts /\ TxnTyped
      /\ \A u \in Txns : tx[u].pc # "apply"
  BY TxnAssumption DEF MvccInv, TxnInv, TxnTyped, LockHeld, commit
<1>2. /\ x.pc = "apply" /\ x.commit_ts = n /\ x.next = tx[t].next /\ x.ops = tx[t].ops
  BY <1>1, ZenonT(40) DEF TxType
<1>3. /\ tx' = [tx EXCEPT ![t] = x] /\ log' = Append(log, ent)
      /\ UNCHANGED <<chain, smo, csr, crossed>>
  BY <1>1 DEF commit
<1> HIDE DEF x
<1>4. ent.ops = tx[t].ops
  OBVIOUS
<1> HIDE DEF ent
<1>5. tx'[t] = x /\ \A u \in Txns : u # t => tx'[u] = tx[u]
  BY <1>1, <1>3
<1>6. /\ Len(log') = n /\ log'[n].ops = tx[t].ops
      /\ \A s \in 1 .. current_ts : log'[s] = log[s]
  BY <1>1, <1>3, <1>4
<1>7. tx[t].next = 1 /\ tx[t].ops \in Seq(Ops)
  BY <1>1 DEF MvccInv, Fresh, TxType
<1>8. Effect' = Effect
  <2>1. ASSUME NEW y \in Effect' PROVE y \in Effect
    <3>1. y \in UNION {{s} \X DOMAIN log'[s].ops : s \in 1 .. Len(log')}
          /\ log'[y[1]].ops[y[2]].kind \in EdgeKinds /\ Applied(y)'
      BY <2>1 DEF Effect, Positions
    <3>2. \E s \in 1 .. Len(log') : \E i \in DOMAIN log'[s].ops : y = <<s, i>>
      BY <3>1, PositionsOf
    <3>3. PICK s \in 1 .. Len(log') : \E i \in DOMAIN log'[s].ops : y = <<s, i>>
      BY <3>2
    <3>4. PICK i \in DOMAIN log'[s].ops : y = <<s, i>>
      BY <3>3
    <3>5. s # n
      <4> SUFFICES ASSUME s = n PROVE FALSE
        OBVIOUS
      <4>1. i \in Nat /\ i >= 1
        BY <1>6, <1>7, <3>4
      <4>2. i < tx'[t].next
        BY <1>2, <1>5, <3>1, <3>4 DEF Applied
      <4> QED
        BY <1>2, <1>5, <1>7, <4>1, <4>2
    <3>6. s \in 1 .. Len(log) /\ log'[s] = log[s]
      BY <1>1, <1>6, <3>5
    <3>7. Applied(<<s, i>>)
      BY <1>1 DEF Applied
    <3>8. i \in DOMAIN log[s].ops /\ log[s].ops[i].kind \in EdgeKinds
      BY <3>1, <3>4, <3>6
    <3> QED
      BY <1>1, <3>4, <3>6, <3>7, <3>8, EffectMember
  <2>2. ASSUME NEW y \in Effect PROVE y \in Effect'
    <3>1. y = <<y[1], y[2]>> /\ y[1] \in 1 .. Len(log) /\ y[2] \in DOMAIN log[y[1]].ops
      BY <1>1, EffectPlaces
    <3>2. log'[y[1]] = log[y[1]] /\ y[1] \in 1 .. Len(log') /\ y[1] # n
      BY <1>1, <1>6, <3>1
    <3>3. \E s \in 1 .. Len(log') : \E i \in DOMAIN log'[s].ops : y = <<s, i>>
      BY <3>1, <3>2
    <3>4. y \in UNION {{s} \X DOMAIN log'[s].ops : s \in 1 .. Len(log')}
      BY <3>3, PositionsOf
    <3>5. Applied(y)'
      BY <1>1, <1>2, <1>5, <3>2 DEF Applied
    <3>6. log'[y[1]].ops[y[2]].kind \in EdgeKinds
      BY <3>2 DEF Effect
    <3> QED
      BY <3>4, <3>5, <3>6 DEF Effect, Positions
  <2> QED
    BY <2>1, <2>2
<1>9. \A y \in Effect : log'[y[1]].ops[y[2]] = log[y[1]].ops[y[2]]
  <2> SUFFICES ASSUME NEW y \in Effect PROVE log'[y[1]] = log[y[1]]
    OBVIOUS
  <2> QED
    BY <1>1, <1>6, EffectPlaces
<1>10. /\ ListsTyped' /\ RecordsLogged' /\ MergedFirst' /\ SplitApart' /\ ChainsOrdered'
       /\ CsrExact' /\ CsrLogged' /\ Merged' = Merged
  BY <1>3, <1>8, <1>9, SameOperations
<1>11. ToApply'
  <2>1. /\ Len(log'[n].ops) = Len(x.ops) /\ x.next <= Len(log'[n].ops) + 1
        /\ \A i \in x.next .. Len(log'[n].ops) : log'[n].ops[i] = x.ops[i]
    BY <1>2, <1>6, <1>7
  <2>2. \A u \in Txns : tx'[u].pc = "apply" => tx'[u] = x
    BY <1>1, <1>5
  <2> HIDE DEF n
  <2> QED
    BY <1>2, <2>1, <2>2 DEF ToApply
<1>12. Fresh'
  BY <1>2, <1>5 DEF MvccInv, Fresh
<1>13. \A u \in Txns : Undisturbed(u)' => Undisturbed(u) /\ tx'[u] = tx[u]
  BY <1>2, <1>5 DEF Undisturbed
<1>14. SnapshotApplied'
  <2> SUFFICES ASSUME NEW u \in Txns, NEW a \in Txns, Undisturbed(u)', tx'[a].pc = "apply"
               PROVE  tx'[u].read_ts < tx'[a].commit_ts
    BY DEF SnapshotApplied
  <2>1. tx'[a].commit_ts = n
    BY <1>1, <1>2, <1>5
  <2>2. tx'[u].read_ts = tx[u].read_ts /\ tx[u].read_ts \in Nat /\ tx[u].read_ts <= current_ts
    BY <1>1, <1>13 DEF TxnTyped, TxType
  <2> QED
    BY <1>1, <2>1, <2>2
<1>15. MergedOld'
  BY <1>3, <1>10, <1>13 DEF MvccInv, MergedOld
<1> QED
  BY <1>10, <1>11, <1>12, <1>14, <1>15 DEF MvccInv

\* When a commit ends, all its operations have been applied.
LEMMA DoneMvcc ==
  ASSUME MvccInv, TxnInv', NEW t \in Txns, CommitDone(t)
  PROVE  MvccInv'
<1>1. /\ tx \in [Txns -> TxType] /\ tx[t].pc = "apply" /\ TxnTyped /\ tx[t].next > Len(tx[t].ops)
      /\ tx[t].commit_ts = current_ts /\ current_ts \in Nat /\ Len(log) = current_ts
      /\ \A u \in Txns : tx[u].pc = "apply" => u = t
  BY DEF MvccInv, TxnInv, TxnTyped, LockHeld, ApplyingLatest, CommitDone
<1>2. PICK S : tx' = [Tainted(tx, S) EXCEPT ![t].pc = "done"]
  BY DEF CommitDone
<1> DEFINE f == Tainted(tx, S)
           x == [f[t] EXCEPT !.pc = "done"]
<1>3. /\ f \in [Txns -> TxType]
      /\ \A u \in Txns : /\ f[u].pc = tx[u].pc /\ f[u].read_ts = tx[u].read_ts
                         /\ f[u].next = tx[u].next /\ (f[u].clean => tx[u].clean)
  BY <1>1, Taint
<1>4. x.pc = "done" /\ tx' = [f EXCEPT ![t] = x]
  BY <1>2, <1>3 DEF TxType
<1> HIDE DEF f, x
<1>5. tx'[t].pc = "done" /\ \A u \in Txns : u # t => tx'[u] = f[u]
  BY <1>3, <1>4
<1>6. \A u \in Txns : tx'[u].pc # "apply"
  BY <1>1, <1>3, <1>5
<1>7. UNCHANGED <<log, chain, smo, csr, crossed>>
  BY DEF CommitDone
<1>8. ASSUME NEW s \in 1 .. Len(log), NEW i \in DOMAIN log[s].ops PROVE Applied(<<s, i>>)
  <2> SUFFICES ASSUME s = current_ts PROVE i < tx[t].next
    BY <1>1 DEF Applied
  <2>1. log[s] \in Entry /\ tx[t] \in TxType
    BY <1>1 DEF TxnTyped
  <2>2. log[s].ops \in Seq(Ops \cup {Nothing}) /\ tx[t].ops \in Seq(Ops) /\ tx[t].next \in Nat
    BY <2>1 DEF Entry, TxType
  <2>3. Len(log[s].ops) = Len(tx[t].ops)
    BY <1>1 DEF MvccInv, ToApply
  <2> QED
    BY <1>1, <2>2, <2>3
<1>9. Effect' = Effect
  <2>1. \A y : Applied(y)'
    BY <1>6 DEF Applied
  <2>2. Positions(Len(log))' = Positions(Len(log))
    BY <1>7 DEF Positions
  <2>3. ASSUME NEW y \in Positions(Len(log)) PROVE Applied(y)
    <3>1. \E s \in 1 .. Len(log) : \E i \in DOMAIN log[s].ops : y = <<s, i>>
      BY PositionsOf DEF Positions
    <3> QED
      BY <1>8, <3>1
  <2> QED
    BY <1>7, <2>1, <2>2, <2>3 DEF Effect
<1>10. /\ ListsTyped' /\ RecordsLogged' /\ MergedFirst' /\ SplitApart' /\ ChainsOrdered'
       /\ CsrExact' /\ CsrLogged' /\ Merged' = Merged
  BY <1>7, <1>9, SameOperations
<1>11. ToApply' /\ SnapshotApplied'
  BY <1>6 DEF ToApply, SnapshotApplied
<1>12. Fresh'
  BY <1>3, <1>5 DEF MvccInv, Fresh
<1>13. \A u \in Txns : Undisturbed(u)' => Undisturbed(u) /\ tx'[u].read_ts = tx[u].read_ts
  BY <1>3, <1>5 DEF Undisturbed
<1>14. MergedOld'
  BY <1>7, <1>10, <1>13 DEF MvccInv, MergedOld
<1> QED
  BY <1>10, <1>11, <1>12, <1>14 DEF MvccInv

\* A new record comes after everything that was applied before.
LEMMA RecordAdded ==
  ASSUME MvccInv, NEW r, Effect' = Effect \cup {PlaceOf(r)}, PlaceOf(r) \notin Effect,
         PlaceOf(r) \in Nat \X Nat, \A x \in Effect : Earlier(x, PlaceOf(r)),
         \A x \in Effect : log'[x[1]].ops[x[2]] = log[x[1]].ops[x[2]],
         Logged(r)', chain' = Append(chain, r), UNCHANGED <<smo, csr, crossed>>
  PROVE  /\ ListsTyped' /\ RecordsLogged' /\ MergedFirst' /\ SplitApart' /\ ChainsOrdered'
         /\ CsrExact' /\ CsrLogged' /\ Merged' = Merged
<1>0. chain \in Seq(RecordType) /\ r \in RecordType /\ TxnTyped
  BY DEF MvccInv, ListsTyped, Logged, TxnInv
<1>1. /\ chain' \in Seq(RecordType) /\ Len(chain') = Len(chain) + 1 /\ chain'[Len(chain) + 1] = r
      /\ \A i \in DOMAIN chain : chain'[i] = chain[i]
      /\ DOMAIN chain = 1 .. Len(chain) /\ DOMAIN chain' = 1 .. Len(chain) + 1 /\ Len(chain) \in Nat
  BY <1>0
<1>2. Range(chain') = Range(chain) \cup {r}
  <2>1. DOMAIN chain' = DOMAIN chain \cup {Len(chain) + 1}
    BY <1>1
  <2> QED
    BY <1>1, <2>1 DEF Range
<1>3. Reachable' = Reachable \cup {r} /\ Left' = Left \cup {r}
  BY <1>2 DEF Reachable, Left
<1>4. Merged' = Merged
  BY <1>3 DEF Merged
<1>5. ListsTyped'
  BY <1>1 DEF MvccInv, ListsTyped, Bounded
<1>6. \A q \in Reachable : PlaceOf(q) \in Effect /\ Earlier(PlaceOf(q), PlaceOf(r))
  BY ReachableRecord DEF Logged
<1>7. RecordsLogged'
  <2> SUFFICES ASSUME NEW q \in Reachable PROVE Logged(q)'
    BY <1>3 DEF RecordsLogged
  <2>1. Logged(q)
    BY ReachableRecord
  <2>2. log'[q.ts].ops[q.at] = log[q.ts].ops[q.at]
    <3>1. PlaceOf(q)[1] = q.ts /\ PlaceOf(q)[2] = q.at /\ PlaceOf(q) \in Effect
      BY <2>1 DEF PlaceOf, Logged
    <3> QED
      BY <3>1
  <2> QED
    BY <2>1, <2>2 DEF Logged
<1>8. MergedFirst'
  <2>1. \A x \in Merged : Earlier(x, PlaceOf(r))
    BY DEF Merged
  <2> QED
    BY <1>3, <1>4, <2>1 DEF MvccInv, MergedFirst
<1>9. SplitApart'
  <2>1. \A q \in Range(smo.got) : Older(q, r)
    BY <1>6, OlderEarlier DEF Reachable
  <2> QED
    BY <1>3, <2>1 DEF MvccInv, SplitApart
<1>10. ChainsOrdered'
  <2>1. InOrder(smo.got)'
    BY DEF MvccInv, ChainsOrdered, InOrder
  <2>2. InOrder(chain)'
    <3> SUFFICES ASSUME NEW i \in DOMAIN chain', NEW j \in DOMAIN chain', i < j, chain'[i].e = chain'[j].e,
                        chain'[i].e \notin crossed
                 PROVE  ~Older(chain'[j], chain'[i])
      BY DEF InOrder
    <3>1. i \in DOMAIN chain /\ chain'[i] = chain[i]
      BY <1>1
    <3>2. CASE j \in DOMAIN chain
      BY <1>1, <3>1, <3>2 DEF MvccInv, ChainsOrdered, InOrder
    <3>3. CASE j \notin DOMAIN chain
      <4>1. chain'[j] = r
        BY <1>1, <3>3
      <4>2. chain[i] \in Reachable
        BY <3>1 DEF Reachable, Range
      <4>3. Earlier(PlaceOf(chain[i]), PlaceOf(r)) /\ PlaceOf(chain[i]) \in Nat \X Nat
        BY <1>0, <1>6, <4>2, EffectPlaces
      <4>4. ~Earlier(PlaceOf(r), PlaceOf(chain[i]))
        BY <4>3, OneOrTheOther
      <4> QED
        BY <3>1, <4>1, <4>4, OlderEarlier
    <3> QED
      BY <3>2, <3>3
  <2> QED
    BY <2>1, <2>2 DEF ChainsOrdered
<1>11. CsrExact'
  <2>1. \A k, e : MergedOps(k, e)' = MergedOps(k, e)
    <3> TAKE k, e
    <3>1. \A x \in Merged : log'[x[1]].ops[x[2]] = log[x[1]].ops[x[2]]
      BY DEF Merged
    <3> QED
      BY <1>4, <3>1 DEF MergedOps
  <2>2. \A e : CsrHas(e)' = CsrHas(e) /\ MergedHas(e)' = MergedHas(e)
    BY <2>1 DEF CsrHas, MergedHas
  <2> QED
    BY <2>2 DEF MvccInv, CsrExact
<1>12. CsrLogged'
  <2> SUFFICES ASSUME NEW y \in csr
               PROVE  \/ y.ts = INVALID_TS /\ y.e \in Base
                      \/ \E x \in Effect : /\ x[1] = y.ts
                                           /\ log'[x[1]].ops[x[2]] = [kind |-> "INSERT_EDGE", e |-> y.e]
    BY DEF CsrLogged
  <2> QED
    BY DEF MvccInv, CsrLogged
<1> QED
  BY <1>4, <1>5, <1>7, <1>8, <1>9, <1>10, <1>11, <1>12

\* Applying one write adds its record and its place, or nothing when it fails or is
\* a vertex operation.
LEMMA ApplyMvcc ==
  ASSUME MvccInv, TxnInv', NEW t \in Txns, apply_writes(t)
  PROVE  MvccInv'
<1>1. /\ tx[t] \in TxType /\ tx \in [Txns -> TxType] /\ tx[t].pc = "apply" /\ TxnTyped
      /\ tx[t].next <= Len(tx[t].ops) /\ tx[t].commit_ts = current_ts /\ tx[t].read_ts < current_ts
      /\ log \in Seq(Entry) /\ Len(log) = current_ts /\ current_ts \in Nat
      /\ \A u \in Txns : tx[u].pc = "apply" => u = t
  BY DEF MvccInv, TxnInv, TxnTyped, LockHeld, ApplyingLatest, apply_writes
<1>2. tx[t].next \in Nat \ {0} /\ tx[t].ops \in Seq(Ops) /\ tx[t].read_ts \in Nat
  BY <1>1 DEF TxType
<1>3. PICK i \in Nat \ {0}, c \in Nat \ {0}, op \in Ops :
        i = tx[t].next /\ c = tx[t].commit_ts /\ op = tx[t].ops[i] /\ i \in 1 .. Len(tx[t].ops)
  <2>1. tx[t].ops[tx[t].next] \in Ops /\ current_ts \in Nat \ {0}
    BY <1>1, <1>2
  <2> QED
    BY <1>1, <1>2, <2>1
<1> DEFINE x == [tx[t] EXCEPT !.next = i + 1]
<1>4. tx' = [tx EXCEPT ![t] = x] /\ UNCHANGED <<smo, csr, crossed>>
  BY <1>1, <1>3 DEF apply_writes
<1>5. /\ x.pc = "apply" /\ x.next = i + 1 /\ x.commit_ts = c /\ x.ops = tx[t].ops
      /\ x.read_ts = tx[t].read_ts
  BY <1>1, <1>3, ZenonT(40) DEF TxType
<1> HIDE DEF x
<1>6. tx'[t] = x /\ \A u \in Txns : u # t => tx'[u] = tx[u]
  BY <1>1, <1>4
<1> DEFINE new == op.kind \in EdgeKinds /\ ~Fails(op)
           f == log[c].ops
           o == [f EXCEPT ![i] = Nothing]
\* The log keeps its shape and every entry but, for a write that fails, the one at i.
<1>7. /\ f \in Seq(Ops \cup {Nothing}) /\ Len(f) = Len(tx[t].ops) /\ i \in DOMAIN f /\ f[i] = op
      /\ \A j \in i .. Len(f) : f[j] = tx[t].ops[j]
  <2>1. log[c] \in Entry
    BY <1>1, <1>3
  <2>2. f \in Seq(Ops \cup {Nothing})
    BY <2>1 DEF Entry
  <2>3. Len(f) = Len(tx[t].ops) /\ \A j \in i .. Len(f) : f[j] = tx[t].ops[j]
    BY <1>1, <1>3 DEF MvccInv, ToApply
  <2>4. i \in DOMAIN f /\ i \in i .. Len(f)
    BY <1>3, <2>2, <2>3
  <2> QED
    BY <1>3, <2>2, <2>3, <2>4
<1>8. /\ Len(log') = Len(log) /\ \A s \in 1 .. Len(log) : s # c => log'[s] = log[s]
      /\ DOMAIN log'[c].ops = DOMAIN f /\ Len(log'[c].ops) = Len(f)
      /\ \A j \in DOMAIN f : j # i => log'[c].ops[j] = f[j]
      /\ log'[c].ops[i] = IF Fails(op) THEN Nothing ELSE op
  <2>1. CASE ~Fails(op)
    <3>1. log' = log
      BY <1>3, <2>1 DEF apply_writes
    <3> QED
      BY <1>7, <2>1, <3>1
  <2>2. CASE Fails(op)
    <3>1. log' = [log EXCEPT ![c].ops[i] = Nothing]
      BY <1>3, <2>2 DEF apply_writes
    <3>2. c \in 1 .. Len(log) /\ log[c] \in Entry
      BY <1>1, <1>3
    <3> DEFINE y == [log[c] EXCEPT !.ops = o]
    <3>3. log' = [log EXCEPT ![c] = y]
      BY <1>1, <3>1, <3>2
    <3>4. y.ops = o
      BY <3>2 DEF Entry
    <3> HIDE DEF y
    <3>5. log'[c] = y /\ Len(log') = Len(log) /\ \A s \in 1 .. Len(log) : s # c => log'[s] = log[s]
      BY <1>1, <3>2, <3>3
    <3> HIDE DEF f
    <3>6. DOMAIN o = DOMAIN f /\ Len(o) = Len(f) /\ o[i] = Nothing /\ \A j \in DOMAIN f : j # i => o[j] = f[j]
      BY <1>7
    <3> HIDE DEF o
    <3> QED
      BY <2>2, <3>4, <3>5, <3>6
  <2> QED
    BY <2>1, <2>2
<1> HIDE DEF o, f
<1>9. ASSUME NEW s \in Nat, NEW j \in Nat
      PROVE  /\ Applied(<<s, j>>) <=> (s = c => j < i)
             /\ Applied(<<s, j>>)' <=> (s = c => j <= i)
  <2>1. Applied(<<s, j>>) <=> (s = c => j < i)
    BY <1>1, <1>3 DEF Applied
  <2>2. \A u \in Txns : tx'[u].pc = "apply" <=> u = t
    BY <1>1, <1>5, <1>6
  <2>3. Applied(<<s, j>>)' <=> (c = s => j < i + 1)
    BY <1>5, <1>6, <2>2 DEF Applied
  <2> QED
    BY <2>1, <2>3
<1>10. Effect' = IF new THEN Effect \cup {<<c, i>>} ELSE Effect
  <2>1. ASSUME NEW y \in Effect' PROVE y \in Effect \/ (new /\ y = <<c, i>>)
    <3>1. y \in UNION {{s} \X DOMAIN log'[s].ops : s \in 1 .. Len(log')}
          /\ log'[y[1]].ops[y[2]].kind \in EdgeKinds /\ Applied(y)'
      BY <2>1 DEF Effect, Positions
    <3>2. PICK s \in 1 .. Len(log') : \E j \in DOMAIN log'[s].ops : y = <<s, j>>
      BY <3>1, PositionsOf
    <3>3. PICK j \in DOMAIN log'[s].ops : y = <<s, j>>
      BY <3>2
    <3>4. s \in 1 .. Len(log) /\ j \in DOMAIN log[s].ops /\ s \in Nat
      <4>1. Len(log') = Len(log)
        BY <1>8
      <4>2. s \in 1 .. Len(log) /\ s \in Nat
        BY <3>2, <4>1
      <4>3. DOMAIN log'[s].ops = DOMAIN log[s].ops
        BY <1>8, <4>2 DEF f
      <4> QED
        BY <3>3, <4>2, <4>3
    <3>5. j \in Nat
      <4>1. log[s] \in Entry
        BY <1>1, <3>4
      <4>2. log[s].ops \in Seq(Ops \cup {Nothing})
        BY <4>1 DEF Entry
      <4> QED
        BY <3>4, <4>2
    <3>6. CASE s = c /\ j = i
      <4>1. ~Fails(op)
        BY <1>8, <3>1, <3>3, <3>6 DEF Nothing, EdgeKinds
      <4>2. op.kind \in EdgeKinds
        BY <1>8, <3>1, <3>3, <3>6, <4>1
      <4> QED
        BY <3>3, <3>6, <4>1, <4>2
    <3>7. CASE ~(s = c /\ j = i)
      <4>1. Applied(<<s, j>>)
        BY <1>9, <3>1, <3>3, <3>4, <3>5, <3>7
      <4>2. log'[s].ops[j] = log[s].ops[j]
        BY <1>8, <3>4, <3>7 DEF f
      <4>3. log[s].ops[j].kind \in EdgeKinds
        BY <3>1, <3>3, <4>2
      <4>4. <<s, j>> \in Effect
        BY <1>1, <3>4, <4>1, <4>3, EffectMember
      <4> QED
        BY <3>3, <4>4
    <3> QED
      BY <3>6, <3>7
  <2>2. ASSUME NEW s \in 1 .. Len(log), NEW j \in DOMAIN log[s].ops, j \in Nat,
               log'[s].ops[j].kind \in EdgeKinds, s = c => j <= i
        PROVE  <<s, j>> \in Effect'
    <3>1. s \in 1 .. Len(log') /\ j \in DOMAIN log'[s].ops /\ s \in Nat
      BY <1>1, <1>8, <2>2 DEF f
    <3>2. <<s, j>> \in UNION {{a} \X DOMAIN log'[a].ops : a \in 1 .. Len(log')}
      BY <3>1, PositionsOf
    <3>3. Applied(<<s, j>>)'
      BY <1>9, <2>2, <3>1
    <3> QED
      BY <2>2, <3>2, <3>3 DEF Effect, Positions
  <2>3. ASSUME NEW y \in Effect PROVE y \in Effect'
    <3>1. y = <<y[1], y[2]>> /\ y[1] \in 1 .. Len(log) /\ y[2] \in DOMAIN log[y[1]].ops
          /\ y[1] \in Nat /\ y[2] \in Nat
      BY <1>1, EffectPlaces
    <3>2. log[y[1]].ops[y[2]].kind \in EdgeKinds /\ Applied(<<y[1], y[2]>>)
      BY <3>1 DEF Effect
    <3>3. y[1] = c => y[2] < i
      BY <1>9, <3>1, <3>2
    <3>4. log'[y[1]].ops[y[2]] = log[y[1]].ops[y[2]]
      BY <1>8, <3>1, <3>3 DEF f
    <3> QED
      BY <2>2, <3>1, <3>2, <3>3, <3>4
  <2>4. ASSUME new PROVE <<c, i>> \in Effect'
    <3>1. c \in 1 .. Len(log) /\ i \in DOMAIN log[c].ops
      BY <1>1, <1>3, <1>7 DEF f
    <3>2. log'[c].ops[i].kind \in EdgeKinds
      BY <1>8, <2>4
    <3> QED
      BY <2>2, <3>1, <3>2
  <2> QED
    BY <2>1, <2>3, <2>4
<1>11. ASSUME NEW y \in Effect
       PROVE  log'[y[1]].ops[y[2]] = log[y[1]].ops[y[2]] /\ Earlier(y, <<c, i>>) /\ y # <<c, i>>
  <2>1. y = <<y[1], y[2]>> /\ y[1] \in 1 .. Len(log) /\ y[2] \in DOMAIN log[y[1]].ops
        /\ y[1] \in Nat /\ y[2] \in Nat
    BY <1>1, EffectPlaces
  <2>2. Applied(<<y[1], y[2]>>)
    BY <2>1 DEF Effect
  <2>3. y[1] = c => y[2] < i
    BY <1>9, <2>1, <2>2
  <2>4. log'[y[1]].ops[y[2]] = log[y[1]].ops[y[2]]
    BY <1>8, <2>1, <2>3 DEF f
  <2>5. y[1] < c \/ y[1] = c
    BY <1>1, <1>3, <2>1
  <2> QED
    BY <2>1, <2>3, <2>4, <2>5 DEF Earlier
<1>12. /\ ListsTyped' /\ RecordsLogged' /\ MergedFirst' /\ SplitApart' /\ ChainsOrdered'
       /\ CsrExact' /\ CsrLogged' /\ Merged' = Merged
  <2>1. CASE ~new
    <3>1. chain' = chain
      BY <1>3, <2>1 DEF apply_writes, EdgeKinds
    <3> QED
      BY <1>4, <1>10, <1>11, <2>1, <3>1, SameOperations
  <2>2. CASE new
    <3>0. PICK r : r = Record(t, op)
      OBVIOUS
    <3>1. chain' = Append(chain, r)
      BY <1>3, <2>2, <3>0 DEF apply_writes, EdgeKinds
    <3>2. /\ r.type = (IF op.kind = "INSERT_EDGE" THEN "INSERT" ELSE "DELETE") /\ r.e = op.e
          /\ r.ts = c /\ r.at = i
      BY <1>3, <3>0 DEF Record
    <3>3. op.e \in Vertices \X Vertices /\ op = [kind |-> op.kind, e |-> op.e]
      BY TxnAssumption
    <3>4. r \in RecordType
      BY <1>3, <3>0, <3>3 DEF RecordType, Record
    <3>5. PlaceOf(r) = <<c, i>>
      BY <3>2 DEF PlaceOf
    <3>6. log'[r.ts].ops[r.at] =
            [kind |-> IF r.type = "INSERT" THEN "INSERT_EDGE" ELSE "DELETE_EDGE", e |-> r.e]
      BY <1>8, <2>2, <3>2, <3>3 DEF EdgeKinds
    <3>7. Effect' = Effect \cup {PlaceOf(r)}
      BY <1>10, <2>2, <3>5
    <3>8. Logged(r)'
      BY <3>4, <3>6, <3>7 DEF Logged
    <3>9. PlaceOf(r) \notin Effect /\ PlaceOf(r) \in Nat \X Nat
          /\ \A y \in Effect : Earlier(y, PlaceOf(r))
      BY <1>3, <1>11, <3>5
    <3> QED
      BY <1>4, <1>11, <3>1, <3>7, <3>8, <3>9, RecordAdded
  <2> QED
    BY <2>1, <2>2
<1>13. ToApply'
  <2>1. \A u \in Txns : tx'[u].pc = "apply" => tx'[u] = x
    BY <1>1, <1>6
  <2>2. /\ Len(log'[c].ops) = Len(x.ops) /\ x.next <= Len(log'[c].ops) + 1
        /\ \A j \in x.next .. Len(log'[c].ops) : log'[c].ops[j] = x.ops[j]
    <3>1. Len(f) \in Nat /\ DOMAIN f = 1 .. Len(f)
      BY <1>7
    <3>2. Len(log'[c].ops) = Len(f) /\ x.next = i + 1 /\ x.ops = tx[t].ops /\ Len(f) = Len(tx[t].ops)
      BY <1>5, <1>7, <1>8
    <3>3. i <= Len(f)
      BY <1>3, <1>7
    <3>4. ASSUME NEW j \in i + 1 .. Len(f) PROVE log'[c].ops[j] = tx[t].ops[j]
      <4>1. j # i /\ j \in i .. Len(f) /\ j \in DOMAIN f
        BY <1>3, <3>1
      <4> QED
        BY <1>7, <1>8, <4>1
    <3> QED
      BY <1>3, <3>1, <3>2, <3>3, <3>4
  <2> QED
    BY <1>5, <2>1, <2>2 DEF ToApply
<1>14. Fresh'
  BY <1>5, <1>6 DEF MvccInv, Fresh
<1>15. \A u \in Txns : Undisturbed(u)' => Undisturbed(u) /\ tx'[u] = tx[u]
  BY <1>5, <1>6 DEF Undisturbed
<1>16. SnapshotApplied'
  <2>1. \A u \in Txns : tx'[u].pc = "apply" => tx[u].pc = "apply" /\ tx'[u].commit_ts = tx[u].commit_ts
    BY <1>1, <1>3, <1>5, <1>6
  <2> QED
    BY <1>15, <2>1 DEF MvccInv, SnapshotApplied
<1>17. MergedOld'
  BY <1>4, <1>12, <1>15 DEF MvccInv, MergedOld
<1> QED
  BY <1>12, <1>13, <1>14, <1>16, <1>17 DEF MvccInv

-----------------------------------------------------------------------------
(* Steps of a consolidation *)

\* A consolidation moves no transaction; it may disturb some.
LEMMA SmoFrame ==
  ASSUME MvccInv, NEW S, tx' = Tainted(tx, S), log' = log
  PROVE  /\ Effect' = Effect /\ ToApply' /\ Fresh' /\ SnapshotApplied'
         /\ \A u \in Txns : /\ Undisturbed(u)' => Undisturbed(u) /\ u \notin S
                            /\ tx'[u].read_ts = tx[u].read_ts
<1>1. tx \in [Txns -> TxType]
  BY DEF MvccInv, TxnInv, TxnTyped
<1>2. \A u \in Txns : /\ tx'[u].pc = tx[u].pc /\ tx'[u].read_ts = tx[u].read_ts
                      /\ tx'[u].ops = tx[u].ops /\ tx'[u].commit_ts = tx[u].commit_ts
                      /\ tx'[u].next = tx[u].next /\ (tx'[u].clean => tx[u].clean /\ u \notin S)
  BY <1>1, Taint
<1>3. Effect' = Effect
  <2>1. \A x : Applied(x)' = Applied(x)
    BY <1>2 DEF Applied
  <2> QED
    BY <2>1 DEF Effect, Positions
<1>4. ToApply'
  <2> SUFFICES ASSUME NEW u \in Txns, tx'[u].pc = "apply"
               PROVE  LET ops == log'[tx'[u].commit_ts].ops
                      IN /\ Len(ops) = Len(tx'[u].ops) /\ tx'[u].next <= Len(ops) + 1
                         /\ \A i \in tx'[u].next .. Len(ops) : ops[i] = tx'[u].ops[i]
    BY DEF ToApply
  <2>1. /\ tx[u].pc = "apply" /\ tx'[u].commit_ts = tx[u].commit_ts /\ tx'[u].ops = tx[u].ops
        /\ tx'[u].next = tx[u].next /\ log' = log
    BY <1>2
  <2>2. LET ops == log[tx[u].commit_ts].ops
        IN /\ Len(ops) = Len(tx[u].ops) /\ tx[u].next <= Len(ops) + 1
           /\ \A i \in tx[u].next .. Len(ops) : ops[i] = tx[u].ops[i]
    BY <2>1 DEF MvccInv, ToApply
  <2> QED
    BY <2>1, <2>2
<1>5. Fresh'
  BY <1>2 DEF MvccInv, Fresh
<1>6. \A u \in Txns : Undisturbed(u)' => Undisturbed(u) /\ u \notin S
  BY <1>2 DEF Undisturbed
<1>7. SnapshotApplied'
  BY <1>2, <1>6 DEF MvccInv, SnapshotApplied
<1> QED
  BY <1>2, <1>3, <1>4, <1>5, <1>6, <1>7

\* Moving records between the lists keeps what was merged and the base page exact.
LEMMA SameReach ==
  ASSUME MvccInv, Effect' = Effect, log' = log, Reachable' = Reachable, csr' = csr,
         crossed \subseteq crossed'
  PROVE  Merged' = Merged /\ RecordsLogged' /\ MergedFirst' /\ CsrExact' /\ CsrLogged'
<1>1. Merged' = Merged
  BY DEF Merged
<1>2. RecordsLogged'
  BY DEF MvccInv, RecordsLogged, Logged
<1>3. MergedFirst'
  BY <1>1 DEF MvccInv, MergedFirst
<1>4. CsrExact'
  <2>1. \A k, e : MergedOps(k, e)' = MergedOps(k, e)
    BY <1>1 DEF MergedOps
  <2>2. \A e : CsrHas(e)' = CsrHas(e) /\ MergedHas(e)' = MergedHas(e)
    BY <2>1 DEF CsrHas, MergedHas
  <2> QED
    BY <2>2 DEF MvccInv, CsrExact
<1>5. CsrLogged'
  BY DEF MvccInv, CsrLogged
<1> QED
  BY <1>1, <1>2, <1>3, <1>4, <1>5

LEMMA NotTainted ==
  ASSUME MvccInv, tx' = tx
  PROVE  tx' = Tainted(tx, {})
BY DEF Tainted, MvccInv, TxnInv, TxnTyped

SmoType == [pc : {"idle", "split", "drain", "restore", "reroute"}, got : Lists, queue : Lists]

LEMMA NoSmoTyped == NoSmo \in SmoType /\ Bounded(NoSmo.got)
<1> DEFINE o == <<>>
<1>1. o \in Lists /\ DOMAIN o \subseteq 1 .. 0
  <2>1. o \in [{} -> RecordType] /\ DOMAIN o = {}
    OBVIOUS
  <2>2. {} \in SUBSET (Nat \ {0})
    OBVIOUS
  <2> HIDE DEF o
  <2> QED
    BY <2>1, <2>2 DEF Lists
<1>2. NoSmo = [pc |-> "idle", got |-> o, queue |-> o]
  BY DEF NoSmo
<1> HIDE DEF o
<1> QED
  BY <1>1, <1>2 DEF SmoType, Bounded

LEMMA FetchMvcc ==
  ASSUME MvccInv, TxnInv', SmoFetch
  PROVE  MvccInv'
<1>1. /\ smo \in SmoType /\ chain \in Seq(RecordType) /\ DOMAIN smo.got = {} /\ DOMAIN smo.queue = {}
      /\ csr \in SUBSET [e : Vertices \X Vertices, ts : Nat]
  BY DEF MvccInv, ListsTyped, SmoFetch, SmoType
<1>2. /\ smo' = [smo EXCEPT !.pc = "split", !.got = chain] /\ chain' = <<>>
      /\ log' = log /\ tx' = tx /\ csr' = csr /\ crossed' = crossed
  BY DEF SmoFetch
<1>3. smo'.pc = "split" /\ smo'.got = chain /\ smo'.queue = smo.queue
  BY <1>1, <1>2 DEF SmoType
<1>4. Range(smo'.queue) = {} /\ Range(smo.queue) = {} /\ Range(smo.got) = {} /\ Range(chain') = {}
  BY <1>1, <1>2, <1>3 DEF Range
<1>5. Reachable' = Reachable /\ Left' = {}
  BY <1>3, <1>4 DEF Reachable, Left
<1>6. ListsTyped'
  <2>1. chain \in Lists /\ Bounded(chain)
    <3>1. chain \in [1 .. Len(chain) -> RecordType] /\ 1 .. Len(chain) \in SUBSET (Nat \ {0}) /\ Len(chain) \in Nat
      BY <1>1
    <3> QED
      BY <3>1 DEF Lists, Bounded
  <2>2. smo' \in SmoType
    BY <1>1, <1>2, <2>1 DEF SmoType
  <2>3. chain' \in Seq(RecordType)
    BY <1>2
  <2>4. Bounded(smo.got)'
    BY <1>3, <2>1 DEF Bounded
  <2> QED
    BY <1>1, <1>2, <1>3, <2>2, <2>3, <2>4 DEF ListsTyped, SmoType
<1>7. Effect' = Effect /\ ToApply' /\ Fresh' /\ SnapshotApplied'
      /\ \A u \in Txns : (Undisturbed(u)' => Undisturbed(u)) /\ tx'[u].read_ts = tx[u].read_ts
  BY <1>2, NotTainted, SmoFrame
<1>8. Merged' = Merged /\ RecordsLogged' /\ MergedFirst' /\ CsrExact' /\ CsrLogged'
  BY <1>2, <1>5, <1>7, SameReach
<1>9. SplitApart'
  BY <1>5 DEF SplitApart
<1>10. ChainsOrdered'
  <2>1. InOrder(chain)'
    BY <1>2 DEF InOrder
  <2>2. InOrder(smo.got)'
    BY <1>2, <1>3 DEF MvccInv, ChainsOrdered, InOrder
  <2> QED
    BY <2>1, <2>2 DEF ChainsOrdered
<1>11. MergedOld'
  BY <1>2, <1>3, <1>7, <1>8 DEF MvccInv, MergedOld
<1> QED
  BY <1>6, <1>7, <1>8, <1>9, <1>10, <1>11 DEF MvccInv

\* What is split off is below the watermark, which holds back for every registered
\* transaction; the transactions it does not hold back for are disturbed.
LEMMA SplitMvcc ==
  ASSUME MvccInv, TxnInv', SmoSplit
  PROVE  MvccInv'
<1>0. PICK wm \in Nat : wm = get_watermark
  BY Watermark DEF MvccInv
<1> DEFINE M == {i \in DOMAIN smo.got : Mergeable(smo.got[i], wm)}
           D == DOMAIN smo.got \ M
<1>1. /\ smo \in SmoType /\ smo.pc = "split" /\ DOMAIN smo.queue = {} /\ TxnTyped
      /\ chain \in Seq(RecordType) /\ Bounded(smo.got)
      /\ csr \in SUBSET [e : Vertices \X Vertices, ts : Nat]
  BY DEF MvccInv, ListsTyped, SmoSplit, SmoType, TxnInv
<1>2. /\ smo' = [pc |-> IF M = {} THEN "restore" ELSE "drain",
                 got |-> Restrict(smo.got, M), queue |-> Restrict(smo.got, D)]
      /\ chain' = chain /\ log' = log /\ csr' = csr /\ crossed' = crossed
      /\ tx' = Tainted(tx, Overlooked(wm))
  BY <1>0 DEF SmoSplit
<1>3. /\ smo'.pc \in {"drain", "restore"}
      /\ smo'.got = [i \in M |-> smo.got[i]] /\ smo'.queue = [i \in D |-> smo.got[i]]
  BY <1>2 DEF Restrict
<1>4. M \subseteq DOMAIN smo.got /\ D \subseteq DOMAIN smo.got /\ M \cup D = DOMAIN smo.got
  OBVIOUS
<1>5. PICK n \in Nat : DOMAIN smo.got \subseteq 1 .. n
  BY <1>1 DEF Bounded
<1>6. ListsTyped'
  <2>1. smo.got \in Lists
    BY <1>1 DEF SmoType
  <2>2. PICK E \in SUBSET (Nat \ {0}) : smo.got \in [E -> RecordType]
    BY <2>1 DEF Lists
  <2>3. smo'.got \in [M -> RecordType] /\ smo'.queue \in [D -> RecordType]
        /\ M \in SUBSET (Nat \ {0}) /\ D \in SUBSET (Nat \ {0})
    BY <1>3, <1>4, <2>2
  <2> HIDE DEF M, D
  <2>4. smo'.got \in Lists /\ smo'.queue \in Lists
    BY <2>3 DEF Lists
  <2>5. smo' = [pc |-> smo'.pc, got |-> smo'.got, queue |-> smo'.queue]
    BY <1>2
  <2>6. smo' \in SmoType
    BY <1>3, <2>4, <2>5 DEF SmoType
  <2>7. Bounded(smo.got)'
    BY <1>4, <1>5, <2>3 DEF Bounded
  <2> QED
    BY <1>1, <1>2, <1>3, <2>6, <2>7 DEF ListsTyped, SmoType
<1>7. /\ Range(smo'.got) = {smo.got[i] : i \in M} /\ Range(smo'.queue) = {smo.got[i] : i \in D}
      /\ Range(smo.got) = {smo.got[i] : i \in DOMAIN smo.got} /\ Range(smo.queue) = {}
  BY <1>1, <1>3 DEF Range
<1>8. Reachable' = Reachable
  BY <1>2, <1>4, <1>7 DEF Reachable
<1>9. ASSUME NEW i \in DOMAIN smo.got
      PROVE  smo.got[i].ts \in Nat /\ smo.got[i].ts # 0 /\ (i \in M <=> smo.got[i].ts < wm)
  <2>1. smo.got[i] \in Reachable
    BY DEF Reachable, Range
  <2>2. smo.got[i].ts \in 1 .. Len(log) /\ Len(log) \in Nat
    BY <1>1, <2>1, ReachableRecord, RecordPlace DEF TxnTyped
  <2> QED
    BY <2>2 DEF Mergeable, INVALID_TS
<1>10. Effect' = Effect /\ ToApply' /\ Fresh' /\ SnapshotApplied'
       /\ \A u \in Txns : /\ Undisturbed(u)' => Undisturbed(u) /\ u \notin Overlooked(wm)
                          /\ tx'[u].read_ts = tx[u].read_ts
  BY <1>2, SmoFrame
<1>11. Merged' = Merged /\ RecordsLogged' /\ MergedFirst' /\ CsrExact' /\ CsrLogged'
  BY <1>2, <1>8, <1>10, SameReach
<1>12. SplitApart'
  <2> SUFFICES ASSUME NEW r \in Range(smo'.got), NEW q \in Left' PROVE Older(r, q)
    BY DEF SplitApart
  <2>1. PICK i \in M : r = smo.got[i]
    BY <1>7
  <2>2. CASE q \in Range(chain)
    BY <1>7, <2>1, <2>2 DEF MvccInv, SplitApart, Left
  <2>3. CASE q \notin Range(chain)
    <3>1. PICK j \in D : q = smo.got[j]
      BY <1>2, <1>7, <2>3 DEF Left
    <3> QED
      BY <1>9, <2>1, <3>1 DEF Older
  <2> QED
    BY <2>2, <2>3
<1>13. ChainsOrdered'
  <2>1. InOrder(chain)'
    BY <1>2 DEF MvccInv, ChainsOrdered, InOrder
  <2>2. InOrder(smo.got)'
    BY <1>2, <1>3, <1>4 DEF MvccInv, ChainsOrdered, InOrder
  <2> QED
    BY <2>1, <2>2 DEF ChainsOrdered
<1>14. MergedOld'
  <2> SUFFICES ASSUME NEW t \in Txns, Undisturbed(t)'
               PROVE  /\ \A x \in Merged : x[1] <= tx[t].read_ts
                      /\ \A y \in csr : y.ts <= tx[t].read_ts
                      /\ \A r \in Range(smo'.got) : r.ts <= tx[t].read_ts
    BY <1>2, <1>10, <1>11 DEF MergedOld
  <2>1. Undisturbed(t) /\ t \notin Overlooked(wm) /\ tx[t].read_ts \in Nat
    BY <1>1, <1>10 DEF TxnTyped, TxType
  <2>2. wm <= tx[t].read_ts
    BY <1>0, <2>1, Watermark DEF Overlooked, Undisturbed, MvccInv
  <2>3. \A r \in Range(smo'.got) : r.ts <= tx[t].read_ts
    BY <1>7, <1>9, <2>1, <2>2
  <2> QED
    BY <2>1, <2>3 DEF MvccInv, MergedOld
<1> QED
  BY <1>6, <1>10, <1>11, <1>12, <1>13, <1>14 DEF MvccInv

LEMMA DrainMvcc ==
  ASSUME MvccInv, TxnInv', SmoDrain
  PROVE  MvccInv'
<1> DEFINE q == smo.queue
           n == Len(chain)
           f == InFront(chain, q)
<1>1. /\ smo \in SmoType /\ smo.pc = "drain" /\ chain \in Seq(RecordType) /\ Bounded(smo.got)
      /\ csr \in SUBSET [e : Vertices \X Vertices, ts : Nat]
  BY DEF MvccInv, ListsTyped, SmoDrain, SmoType
<1>2. /\ smo' = [smo EXCEPT !.pc = "reroute", !.queue = f] /\ chain' = <<>>
      /\ log' = log /\ tx' = tx /\ csr' = csr /\ crossed' = crossed
  BY <1>1 DEF SmoDrain, SmoType
<1>3. smo'.pc = "reroute" /\ smo'.got = smo.got /\ smo'.queue = f
  BY <1>1, <1>2 DEF SmoType
<1>4. PICK E \in SUBSET (Nat \ {0}) : q \in [E -> RecordType]
  BY <1>1 DEF SmoType, Lists
<1>5. n \in Nat /\ DOMAIN chain = 1 .. n /\ \A i \in 1 .. n : chain[i] \in RecordType
  BY <1>1
<1> HIDE DEF n, q
<1>6. f = [i \in DOMAIN chain \cup {n + j : j \in DOMAIN q} |->
             IF i \in DOMAIN chain THEN chain[i] ELSE q[i - n]]
  BY DEF InFront, n
<1>7. ASSUME NEW j \in DOMAIN q PROVE n + j \in DOMAIN f /\ f[n + j] = q[j] /\ n + j \in Nat \ {0}
  <2>1. j \in Nat \ {0}
    BY <1>4
  <2>2. n + j \notin DOMAIN chain /\ (n + j) - n = j /\ n + j \in Nat \ {0}
    BY <1>5, <2>1
  <2> QED
    BY <1>6, <2>2
<1>8. \A i \in DOMAIN chain : i \in DOMAIN f /\ f[i] = chain[i] /\ i \in Nat \ {0}
  BY <1>5, <1>6
<1>9. DOMAIN f = DOMAIN chain \cup {n + j : j \in DOMAIN q}
  BY <1>6
<1> HIDE DEF f
<1>10. Range(f) = Range(chain) \cup Range(q)
  BY <1>7, <1>8, <1>9 DEF Range
<1>11. f \in Lists
  <2>1. \A i \in DOMAIN f : f[i] \in RecordType /\ i \in Nat \ {0}
    BY <1>4, <1>5, <1>7, <1>8, <1>9
  <2>2. f \in [DOMAIN f -> RecordType] /\ DOMAIN f \in SUBSET (Nat \ {0})
    BY <1>6, <2>1
  <2> QED
    BY <2>2 DEF Lists
<1>12. Range(chain') = {}
  BY <1>2 DEF Range
<1>13. Reachable' = Reachable /\ Left' = Left
  BY <1>3, <1>10, <1>12 DEF Reachable, Left, q
<1>14. ListsTyped'
  <2>1. smo' \in SmoType
    BY <1>1, <1>2, <1>11 DEF SmoType
  <2>2. chain' \in Seq(RecordType)
    BY <1>2
  <2> QED
    BY <1>1, <1>2, <1>3, <2>1, <2>2 DEF ListsTyped, SmoType, Bounded
<1>15. Effect' = Effect /\ ToApply' /\ Fresh' /\ SnapshotApplied'
       /\ \A u \in Txns : (Undisturbed(u)' => Undisturbed(u)) /\ tx'[u].read_ts = tx[u].read_ts
  BY <1>2, NotTainted, SmoFrame
<1>16. Merged' = Merged /\ RecordsLogged' /\ MergedFirst' /\ CsrExact' /\ CsrLogged'
  BY <1>2, <1>13, <1>15, SameReach
<1>17. SplitApart'
  BY <1>3, <1>13 DEF MvccInv, SplitApart
<1>18. ChainsOrdered'
  BY <1>2, <1>3 DEF MvccInv, ChainsOrdered, InOrder
<1>19. MergedOld'
  BY <1>1, <1>2, <1>3, <1>15, <1>16 DEF MvccInv, MergedOld
<1> QED
  BY <1>14, <1>15, <1>16, <1>17, <1>18, <1>19 DEF MvccInv

\* A record goes back to the chain; its edge counts as crossed if a younger one is there.
LEMMA PutMvcc ==
  ASSUME MvccInv, TxnInv', SmoPut
  PROVE  MvccInv'
<1>1. /\ smo \in SmoType /\ smo.pc \in {"restore", "reroute"} /\ chain \in Seq(RecordType)
      /\ Bounded(smo.got) /\ csr \in SUBSET [e : Vertices \X Vertices, ts : Nat]
  BY DEF MvccInv, ListsTyped, SmoPut, SmoType
<1>2. PICK i \in DOMAIN smo.queue :
        /\ chain' = Append(chain, smo.queue[i])
        /\ smo' = [smo EXCEPT !.queue = Restrict(@, DOMAIN @ \ {i})]
        /\ crossed' = IF \E k \in DOMAIN chain : /\ chain[k].e = smo.queue[i].e
                                                 /\ Older(smo.queue[i], chain[k])
                      THEN crossed \cup {smo.queue[i].e} ELSE crossed
  BY DEF SmoPut
<1>3. PICK r : r = smo.queue[i]
  OBVIOUS
<1>4. log' = log /\ tx' = tx /\ csr' = csr
  BY DEF SmoPut
<1> DEFINE D == DOMAIN smo.queue \ {i}
           f == [j \in D |-> smo.queue[j]]
<1>5. smo' = [smo EXCEPT !.queue = f]
  BY <1>1, <1>2 DEF SmoType, Restrict
<1>6. smo'.pc = smo.pc /\ smo'.got = smo.got /\ smo'.queue = f
  BY <1>1, <1>5 DEF SmoType
<1>7. PICK E \in SUBSET (Nat \ {0}) : smo.queue \in [E -> RecordType]
  BY <1>1 DEF SmoType, Lists
<1>8. f \in [D -> RecordType] /\ D \in SUBSET (Nat \ {0}) /\ r \in RecordType
      /\ Range(f) \cup {r} = Range(smo.queue)
  BY <1>2, <1>3, <1>7 DEF Range
<1> HIDE DEF f, D
<1>9. f \in Lists
  BY <1>8 DEF Lists
<1>10. /\ chain' \in Seq(RecordType) /\ Len(chain') = Len(chain) + 1 /\ chain'[Len(chain) + 1] = r
       /\ \A k \in DOMAIN chain : chain'[k] = chain[k]
       /\ DOMAIN chain = 1 .. Len(chain) /\ DOMAIN chain' = 1 .. Len(chain) + 1 /\ Len(chain) \in Nat
  BY <1>1, <1>2, <1>3, <1>8
<1>11. Range(chain') = Range(chain) \cup {r}
  <2>1. DOMAIN chain' = DOMAIN chain \cup {Len(chain) + 1}
    BY <1>10
  <2> QED
    BY <1>10, <2>1 DEF Range
<1>12. Reachable' = Reachable /\ Left' = Left
  BY <1>6, <1>8, <1>11 DEF Reachable, Left
<1>13. ListsTyped'
  <2>1. smo' \in SmoType
    BY <1>1, <1>5, <1>9 DEF SmoType
  <2> QED
    BY <1>1, <1>4, <1>6, <1>10, <2>1 DEF ListsTyped, SmoType, Bounded
<1>14. crossed \subseteq crossed'
  BY <1>2
<1>15. Effect' = Effect /\ ToApply' /\ Fresh' /\ SnapshotApplied'
       /\ \A u \in Txns : (Undisturbed(u)' => Undisturbed(u)) /\ tx'[u].read_ts = tx[u].read_ts
  BY <1>4, NotTainted, SmoFrame
<1>16. Merged' = Merged /\ RecordsLogged' /\ MergedFirst' /\ CsrExact' /\ CsrLogged'
  BY <1>4, <1>12, <1>14, <1>15, SameReach
<1>17. SplitApart'
  BY <1>6, <1>12 DEF MvccInv, SplitApart
<1>18. ChainsOrdered'
  <2>1. InOrder(smo.got)'
    BY <1>6, <1>14 DEF MvccInv, ChainsOrdered, InOrder
  <2>2. InOrder(chain)'
    <3> SUFFICES ASSUME NEW k \in DOMAIN chain', NEW j \in DOMAIN chain', k < j, chain'[k].e = chain'[j].e,
                        chain'[k].e \notin crossed'
                 PROVE  ~Older(chain'[j], chain'[k])
      BY DEF InOrder
    <3>1. k \in DOMAIN chain /\ chain'[k] = chain[k]
      BY <1>10
    <3>2. CASE j \in DOMAIN chain
      BY <1>10, <1>14, <3>1, <3>2 DEF MvccInv, ChainsOrdered, InOrder
    <3>3. CASE j \notin DOMAIN chain
      <4>1. chain'[j] = r
        BY <1>10, <3>3
      <4> QED
        BY <1>2, <1>3, <3>1, <4>1
    <3> QED
      BY <3>2, <3>3
  <2> QED
    BY <2>1, <2>2 DEF ChainsOrdered
<1>19. MergedOld'
  BY <1>4, <1>6, <1>15, <1>16 DEF MvccInv, MergedOld
<1> QED
  BY <1>13, <1>15, <1>16, <1>17, <1>18, <1>19 DEF MvccInv

\* The records taken off are now merged, and the new page holds what they make of the old.
LEMMA PublishMvcc ==
  ASSUME MvccInv, TxnInv', SmoPublish
  PROVE  MvccInv'
<1> DEFINE got == smo.got
           places == {PlaceOf(got[i]) : i \in DOMAIN got}
<1>1. /\ smo \in SmoType /\ smo.pc # "split" /\ DOMAIN smo.queue = {} /\ TxnTyped /\ Bounded(got)
      /\ chain \in Seq(RecordType) /\ csr \in SUBSET [e : Vertices \X Vertices, ts : Nat]
  BY DEF MvccInv, ListsTyped, SmoPublish, SmoType, TxnInv
<1>2. /\ smo' = NoSmo /\ csr' = build_merged_graph_with_ts(csr, got)
      /\ chain' = chain /\ log' = log /\ tx' = tx /\ crossed' = crossed
  BY DEF SmoPublish
<1>3. smo'.pc = "idle" /\ DOMAIN smo'.got = {} /\ DOMAIN smo'.queue = {}
  BY <1>2 DEF NoSmo
<1>4. Range(smo'.got) = {} /\ Range(smo'.queue) = {} /\ Range(smo.queue) = {}
  BY <1>1, <1>3 DEF Range
<1>5. Reachable' = Range(chain) /\ Left' = Range(chain) /\ Left = Range(chain)
      /\ Reachable = Range(chain) \cup Range(got)
  BY <1>2, <1>4 DEF Reachable, Left
<1>6. \A i \in DOMAIN got : got[i] \in Range(got) /\ got[i] \in Reachable
  BY <1>5 DEF Range
<1>7. \A i \in DOMAIN got : Logged(got[i]) /\ \A x \in Merged : Earlier(x, PlaceOf(got[i]))
  BY <1>6, ReachableRecord
<1>8. ASSUME NEW i \in DOMAIN got
      PROVE  /\ got[i] \in RecordType /\ PlaceOf(got[i]) \in Effect
             /\ \A q \in Range(chain) : Earlier(PlaceOf(got[i]), PlaceOf(q)) /\ PlaceOf(got[i]) # PlaceOf(q)
  <2>1. got[i] \in RecordType /\ PlaceOf(got[i]) \in Effect /\ PlaceOf(got[i]) \in Nat \X Nat
    BY <1>1, <1>7, RecordPlace
  <2>2. ASSUME NEW q \in Range(chain) PROVE Earlier(PlaceOf(got[i]), PlaceOf(q)) /\ PlaceOf(got[i]) # PlaceOf(q)
    <3>1. Older(got[i], q)
      BY <1>5, <1>6 DEF MvccInv, SplitApart
    <3>2. Earlier(PlaceOf(got[i]), PlaceOf(q))
      BY <3>1, OlderEarlier
    <3> QED
      BY <2>1, <3>2, OneOrTheOther
  <2> QED
    BY <2>1, <2>2
<1>9. Effect' = Effect /\ ToApply' /\ Fresh' /\ SnapshotApplied'
      /\ \A u \in Txns : (Undisturbed(u)' => Undisturbed(u)) /\ tx'[u].read_ts = tx[u].read_ts
  BY <1>2, NotTainted, SmoFrame
<1>10. Merged' = Merged \cup places
  <2>1. Merged' = {x \in Effect : \A r \in Range(chain) : PlaceOf(r) # x}
    BY <1>5, <1>9 DEF Merged
  <2>2. Merged = {x \in Effect : \A r \in Range(chain) \cup Range(got) : PlaceOf(r) # x}
    BY <1>5 DEF Merged
  <2>3. places = {PlaceOf(r) : r \in Range(got)}
    BY DEF Range
  <2>4. \A x \in places : x \in Effect /\ \A q \in Range(chain) : PlaceOf(q) # x
    BY <1>8
  <2> HIDE DEF places
  <2> QED
    BY <2>1, <2>2, <2>3, <2>4
<1>11. ListsTyped'
  <2>1. NoSmo \in SmoType /\ Bounded(NoSmo.got)
    BY NoSmoTyped
  <2>2. csr' \in SUBSET [e : Vertices \X Vertices, ts : Nat]
    <3>1. \A i \in DOMAIN got : got[i].e \in Vertices \X Vertices /\ got[i].ts \in Nat
      BY <1>8 DEF RecordType
    <3> QED
      BY <1>1, <1>2, <3>1 DEF build_merged_graph_with_ts
  <2>3. Bounded(smo.got)'
    BY <1>2, <2>1 DEF Bounded
  <2> QED
    BY <1>1, <1>2, <1>3, <2>1, <2>2, <2>3 DEF ListsTyped, SmoType
<1>12. RecordsLogged'
  <2>1. \A r \in Range(chain) : Logged(r)
    BY <1>5, ReachableRecord
  <2> QED
    BY <1>2, <1>5, <1>9, <2>1 DEF RecordsLogged, Logged
<1>13. MergedFirst'
  <2>1. \A q \in Range(chain) : \A x \in Merged : Earlier(x, PlaceOf(q))
    BY <1>5, ReachableRecord
  <2> QED
    BY <1>5, <1>8, <1>10, <2>1 DEF MergedFirst
<1>14. SplitApart'
  BY <1>4 DEF SplitApart
<1>15. ChainsOrdered'
  BY <1>2, <1>3 DEF MvccInv, ChainsOrdered, InOrder
<1>16. CsrLogged'
  <2> SUFFICES ASSUME NEW y \in csr'
               PROVE  \/ y.ts = INVALID_TS /\ y.e \in Base
                      \/ \E x \in Effect : /\ x[1] = y.ts
                                           /\ log[x[1]].ops[x[2]] = [kind |-> "INSERT_EDGE", e |-> y.e]
    BY <1>2, <1>9 DEF CsrLogged
  <2>1. CASE y \in csr
    BY <2>1 DEF MvccInv, CsrLogged
  <2>2. CASE y \notin csr
    <3>1. PICK i \in DOMAIN got : got[i].type = "INSERT" /\ y = [e |-> got[i].e, ts |-> got[i].ts]
      BY <1>2, <2>2 DEF build_merged_graph_with_ts
    <3>2. y.e = got[i].e /\ y.ts = got[i].ts
      BY <3>1
    <3>3. /\ PlaceOf(got[i]) \in Effect /\ PlaceOf(got[i])[1] = got[i].ts /\ PlaceOf(got[i])[2] = got[i].at
          /\ log[got[i].ts].ops[got[i].at] = [kind |-> "INSERT_EDGE", e |-> got[i].e]
      BY <1>1, <1>7, <3>1, RecordPlace
    <3> QED
      BY <3>2, <3>3
  <2> QED
    BY <2>1, <2>2
<1>17. CsrExact'
  <2> SUFFICES ASSUME NEW e \in Vertices \X Vertices, e \notin crossed
               PROVE  CsrHas(e)' <=> MergedHas(e)'
    BY <1>2 DEF CsrExact
  <2>1. Mergeables(got)
    BY <1>1, <1>7 DEF Mergeables
  <2>2. InOrder(got) /\ (CsrHas(e) <=> MergedHas(e))
    BY DEF MvccInv, ChainsOrdered, CsrExact
  <2>3. CsrHas(e)' <=>
          \/ e \in Base /\ DeletesWith(got, e) = {}
          \/ \E x \in InsertsWith(got, e) : \A y \in DeletesWith(got, e) : Earlier(y, x)
    BY <1>1, <1>2, <2>1, <2>2, LastDecides DEF CsrHas
  <2>4. Merged' = MergedWith(got)
    BY <1>10 DEF MergedWith
  <2>5. \A k : MergedOps(k, e)' = {x \in MergedWith(got) : log[x[1]].ops[x[2]] = [kind |-> k, e |-> e]}
    BY <1>2, <2>4 DEF MergedOps
  <2>6. MergedOps("INSERT_EDGE", e)' = InsertsWith(got, e)
    BY <1>1, <1>7, <2>5, OpsOfList DEF InsertsWith
  <2>7. MergedOps("DELETE_EDGE", e)' = DeletesWith(got, e)
    BY <1>1, <1>7, <2>5, OpsOfList DEF DeletesWith
  <2> QED
    BY <2>3, <2>6, <2>7 DEF MergedHas
<1>18. MergedOld'
  <2> SUFFICES ASSUME NEW t \in Txns, Undisturbed(t)
               PROVE  /\ \A x \in Merged \cup places : x[1] <= tx[t].read_ts
                      /\ \A y \in csr' : y.ts <= tx[t].read_ts
    BY <1>2, <1>4, <1>9, <1>10 DEF MergedOld
  <2>1. /\ \A x \in Merged : x[1] <= tx[t].read_ts
        /\ \A y \in csr : y.ts <= tx[t].read_ts
        /\ \A i \in DOMAIN got : got[i].ts <= tx[t].read_ts
    BY <1>1, <1>6 DEF MvccInv, MergedOld
  <2>2. \A x \in places : x[1] <= tx[t].read_ts
    BY <2>1 DEF PlaceOf
  <2>3. \A y \in csr' : y.ts <= tx[t].read_ts
    <3> SUFFICES ASSUME NEW y \in csr', y \notin csr PROVE y.ts <= tx[t].read_ts
      BY <2>1
    <3>1. PICK i \in DOMAIN got : y = [e |-> got[i].e, ts |-> got[i].ts]
      BY <1>2 DEF build_merged_graph_with_ts
    <3> QED
      BY <2>1, <3>1
  <2> QED
    BY <2>1, <2>2, <2>3
<1> QED
  BY <1>9, <1>11, <1>12, <1>13, <1>14, <1>15, <1>16, <1>17, <1>18 DEF MvccInv

-----------------------------------------------------------------------------
(* All steps together *)

LEMMA MvccStart == Init => MvccInv
<1> SUFFICES ASSUME Init PROVE MvccInv
  OBVIOUS
<1>1. TxnInv
  BY TxnStart
<1>2. \A t \in Txns : tx[t].pc = "new" /\ tx[t].next = 1
  BY DEF Init, NewTx
<1>3. ToApply /\ Fresh /\ SnapshotApplied
  BY <1>2 DEF ToApply, Fresh, SnapshotApplied
<1>4. chain = <<>> /\ smo = NoSmo /\ log = <<>> /\ csr = {[e |-> e, ts |-> INVALID_TS] : e \in Base}
  BY DEF Init
<1>5. DOMAIN smo.got = {} /\ DOMAIN smo.queue = {} /\ DOMAIN chain = {} /\ smo.pc = "idle"
  BY <1>4 DEF NoSmo
<1>6. Range(chain) = {} /\ Range(smo.got) = {} /\ Range(smo.queue) = {}
  BY <1>5 DEF Range
<1>7. Reachable = {} /\ Left = {}
  BY <1>6 DEF Reachable, Left
<1>8. Effect = {} /\ Merged = {}
  <2>1. 1 .. Len(log) = {}
    BY <1>4
  <2> QED
    BY <2>1 DEF Effect, Positions, Merged
<1>9. ListsTyped
  <2>1. smo \in SmoType /\ Bounded(smo.got)
    BY <1>4, NoSmoTyped
  <2>2. chain \in Seq(RecordType)
    BY <1>4
  <2>3. csr \in SUBSET [e : Vertices \X Vertices, ts : Nat]
    BY <1>4, TxnAssumption DEF INVALID_TS
  <2> QED
    BY <1>5, <2>1, <2>2, <2>3 DEF ListsTyped, SmoType
<1>10. RecordsLogged /\ MergedFirst /\ SplitApart /\ ChainsOrdered
  BY <1>5, <1>6, <1>7 DEF RecordsLogged, MergedFirst, SplitApart, ChainsOrdered, InOrder
<1>11. CsrExact
  <2>1. \A e : MergedHas(e) <=> e \in Base
    BY <1>8 DEF MergedHas, MergedOps
  <2>2. \A e : CsrHas(e) <=> e \in Base
    <3> TAKE e
    <3>1. \A b : [e |-> b, ts |-> INVALID_TS].e = b
      OBVIOUS
    <3> QED
      BY <1>4, <3>1 DEF CsrHas
  <2> QED
    BY <2>1, <2>2 DEF CsrExact
<1>12. CsrLogged
  BY <1>4 DEF CsrLogged
<1>13. MergedOld
  BY <1>2 DEF MergedOld, Undisturbed
<1> QED
  BY <1>1, <1>3, <1>9, <1>10, <1>11, <1>12, <1>13 DEF MvccInv

LEMMA IdleMvcc ==
  ASSUME MvccInv, TxnInv', UNCHANGED vars
  PROVE  MvccInv'
<1>1. UNCHANGED <<tx, log, chain, smo, csr, crossed>>
  BY DEF vars
<1>2. Effect' = Effect /\ ToApply' /\ Fresh' /\ SnapshotApplied'
      /\ \A u \in Txns : (Undisturbed(u)' => Undisturbed(u)) /\ tx'[u].read_ts = tx[u].read_ts
  BY <1>1, NotTainted, SmoFrame
<1>3. /\ ListsTyped' /\ RecordsLogged' /\ MergedFirst' /\ SplitApart' /\ ChainsOrdered'
      /\ CsrExact' /\ CsrLogged' /\ Merged' = Merged
  BY <1>1, <1>2, SameOperations
<1>4. MergedOld'
  BY <1>1, <1>2, <1>3 DEF MvccInv, MergedOld
<1> QED
  BY <1>2, <1>3, <1>4 DEF MvccInv

LEMMA MvccStep == MvccInv /\ [Next]_vars => MvccInv'
<1> SUFFICES ASSUME MvccInv, [Next]_vars PROVE MvccInv'
  OBVIOUS
<1>0. TxnInv'
  BY TxnStep DEF MvccInv
<1>1. CASE \E t \in Txns : begin_txn(t) \/ register_reader(t) \/ Commit(t) \/ abort(t) \/ Destroy(t)
  <2>1. PICK t \in Txns : begin_txn(t) \/ register_reader(t) \/ Commit(t) \/ abort(t) \/ Destroy(t)
    BY <1>1
  <2>2. CASE begin_txn(t) \/ register_reader(t)
    BY <1>0, <2>2, BeginMvcc, MovesOneStep
  <2>3. CASE CommitEmpty(t) \/ CommitRefused(t) \/ abort(t)
    BY <1>0, <2>3, OpenMvcc, MovesOneStep
  <2>4. CASE Destroy(t)
    BY <1>0, <2>4, DestroyMvcc, MovesOneStep
  <2>5. CASE commit(t)
    BY <1>0, <2>5, CommitMvcc
  <2>6. CASE apply_writes(t)
    BY <1>0, <2>6, ApplyMvcc
  <2>7. CASE CommitDone(t)
    BY <1>0, <2>7, DoneMvcc
  <2> QED
    BY <2>1, <2>2, <2>3, <2>4, <2>5, <2>6, <2>7 DEF Commit
<1>2. CASE \E t \in Txns, v \in Vertices : get_neighbors(t, v)
  BY <1>0, <1>2, OpenMvcc, MovesOneStep
<1>3. CASE \E t \in Txns, op \in Ops : Write(t, op)
  BY <1>0, <1>3, OpenMvcc, MovesOneStep
<1>4. CASE SmoFetch \/ SmoSplit \/ SmoDrain
  BY <1>0, <1>4, FetchMvcc, SplitMvcc, DrainMvcc
<1>5. CASE SmoPut \/ SmoPublish
  BY <1>0, <1>5, PutMvcc, PublishMvcc
<1>6. CASE UNCHANGED vars
  BY <1>0, <1>6, IdleMvcc
<1> QED
  BY <1>1, <1>2, <1>3, <1>4, <1>5, <1>6 DEF Next

LEMMA MvccInvariant == Spec => []MvccInv
BY MvccStart, MvccStep, PTL DEF Spec

-----------------------------------------------------------------------------
(* Results *)

\* cleanup_old_txns keeps every write set that a registered transaction which
\* no watermark computation has overlooked may still have to be checked
\* against, and reader counts and timestamps stay within their types.
THEOREM ConflictRecords == Spec => []ConflictsKept
<1>1. ASSUME TxnInv PROVE ConflictsKept
  <2>1. readers \in [Timestamps -> 0 .. Cardinality(Txns)]
    <3>1. \A s \in Timestamps : readers[s] \in Nat /\ readers[s] <= Cardinality(Txns)
      <4> SUFFICES ASSUME NEW s \in Timestamps
                   PROVE  readers[s] \in Nat /\ readers[s] <= Cardinality(Txns)
        OBVIOUS
      <4>1. RegisteredAt(s) \in SUBSET Txns
        BY DEF RegisteredAt
      <4>2. Cardinality(RegisteredAt(s)) <= Cardinality(Txns)
        BY <4>1, CountGrows
      <4> QED
        BY <1>1, <4>2 DEF TxnInv, ReadersExact
    <3> QED
      BY <1>1, <3>1, TxnsFinite DEF TxnInv, ReadersExact
  <2>2. TypeOK
    BY <1>1, <2>1, InTimestamps DEF TypeOK, TxnInv, TxnTyped
  <2> QED
    BY <1>1, <2>2 DEF ConflictsKept, TxnInv, WriteSetsKept, Finished, OnRecord
<1> QED
  BY <1>1, TxnInvariant, PTL

\* commit lets a serializable transaction through only if no key it read was
\* written by a serializable transaction that committed after its snapshot.
THEOREM SerializableCommits == Spec => []ReadKeysUnchanged
<1>1. TxnInv => ReadKeysUnchanged
  BY DEF TxnInv
<1> QED
  BY <1>1, TxnInvariant, PTL

\* At every moment of every commit and consolidation a reader sees only edges that
\* were loaded or that a commit of its snapshot inserted.
THEOREM NoDirtyReads == Spec => []NoDirtyRead
BY MvccInvariant, ReadsClean, PTL

\* read_neighbor_clone_txn returns exactly the snapshot of a transaction that no
\* commit or watermark computation disturbed at its beginning, edges deleted and
\* inserted again and edges with overtaken records excepted.
THEOREM SnapshotReads == Spec => []SnapshotExact
BY MvccInvariant, ReadsExact, PTL

\* After any number of commits and consolidations, base page and chain together
\* give the committed graph, edges with overtaken records excepted.
THEOREM MergesExact == Spec => []MergeExact
BY MvccInvariant, MergesExactly, PTL
=============================================================================
