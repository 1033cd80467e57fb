--------------------------------- MODULE Txn ---------------------------------
(***************************************************************************)
(* Transactions: txn_manager_t (timestamps, reader watermark, record of    *)
(* committed write sets), txn_t (buffered writes, commit under one lock),  *)
(* the multi-version read read_neighbor_clone_txn, and the part of         *)
(* consolidation that decides by the watermark which delta records may be  *)
(* merged into the base pages.                                             *)
(*                                                                         *)
(* One page holds all vertices; its delta chain is a sequence in insertion *)
(* order.  How chains, pages and locations are switched is Consolidation's *)
(* subject; here a reader sees a page before or after the switch.  The     *)
(* lists a consolidation works on are functions from some of the positions *)
(* of the fetched chain, so that splitting one keeps the order.            *)
(***************************************************************************)
EXTENDS Integers, Sequences, FiniteSets, FiniteSetsExt, Functions

CONSTANTS
  Txns,          \* transactions; each is begun at most once
  Serializable,  \* the transactions begun with serializable = true
  Vertices,      \* vertex numbers
  Missing,       \* those beyond the vertex index, further than any insertion reaches
  Zero,          \* the vertex with number 0
  Base,          \* edges <<src, dst>> loaded at the start
  Ops,           \* write operations [kind, e]; a vertex operation is on the source of e
  NoTxn,         \* the commit lock is free
  MaxOps,        \* bound: write operations of a transaction
  MaxReads,      \* bound: vertices a serializable transaction reads
  MaxMerges      \* bound: consolidations

ASSUME TxnAssumption ==
  /\ Serializable \subseteq Txns /\ NoTxn \notin Txns /\ IsFiniteSet(Txns)
  /\ Missing \subseteq Vertices
  /\ Base \subseteq (Vertices \ Missing) \X (Vertices \ Missing)
  /\ Ops \subseteq [kind : {"INSERT_EDGE", "DELETE_EDGE", "INSERT_VERTEX", "DELETE_VERTEX"},
                     e : Vertices \X Vertices]
  /\ MaxOps \in Nat /\ MaxReads \in Nat /\ MaxMerges \in Nat

VARIABLES
  current_ts,     \* timestamp of the latest commit
  readers,        \* water_mark_t::readers_: timestamp -> registered transactions
  commit_lock,    \* holder of commit_lock_
  committed_txns, \* write sets kept for conflict checks: a set of <<commit_ts, key hash>>
  is_delete,      \* vertices marked deleted
  chain,          \* delta chain of the page, in insertion order
  csr,            \* base page: set of [e, ts]
  smo,            \* local state of the consolidation
  tx,             \* local state of the transactions
  log,            \* history: commit_ts -> write operations that took effect, and key hashes
  merges,         \* consolidations so far
  crossed         \* history: edges with records that were put back behind younger ones

vars == <<current_ts, readers, commit_lock, committed_txns, is_delete, chain, csr, smo, tx, log,
          merges, crossed>>

INVALID_TS == 0
Timestamps == 0 .. Cardinality(Txns)
NoSmo == [pc |-> "idle", got |-> <<>>, queue |-> <<>>]
Older(x, y) == x.ts < y.ts \/ (x.ts = y.ts /\ x.at < y.at)
NewTx == [pc |-> "new", read_ts |-> 0, ops |-> <<>>, reads |-> {}, next |-> 1, commit_ts |-> 0,
          clean |-> TRUE]

Init ==
  /\ current_ts = 0
  /\ readers = [s \in Timestamps |-> 0]
  /\ commit_lock = NoTxn
  /\ committed_txns = {}
  /\ is_delete = {}
  /\ chain = <<>>
  /\ csr = {[e |-> e, ts |-> INVALID_TS] : e \in Base}
  /\ smo = NoSmo
  /\ tx = [t \in Txns |-> NewTx]
  /\ log = <<>>
  /\ merges = 0
  /\ crossed = {}

\* compute_key_hash: an edge to vertex 0 has the key of its source.
compute_key_hash(src, dst) == IF dst = Zero THEN <<src>> ELSE <<src, dst>>
WriteHash(op) == IF op.kind \in {"INSERT_EDGE", "DELETE_EDGE"}
                 THEN compute_key_hash(op.e[1], op.e[2]) ELSE <<op.e[1]>>

\* get_watermark: the oldest registered snapshot, or the latest timestamp.
WatermarkAlwaysLatest == current_ts
get_watermark ==
  LET active == {s \in Timestamps : readers[s] > 0} IN IF active = {} THEN current_ts ELSE Min(active)

\* Transactions that have read their timestamp but are not registered when the
\* watermark wm is computed.
Overlooked(wm) == {t \in Txns : tx[t].pc = "loaded" /\ tx[t].read_ts < wm}
Tainted(f, S) == [t \in Txns |-> IF t \in S THEN [f[t] EXCEPT !.clean = FALSE] ELSE f[t]]

-----------------------------------------------------------------------------
(* Transactions *)

\* begin_txn reads the latest timestamp ...
begin_txn(t) ==
  /\ tx[t].pc = "new"
  /\ tx' = [tx EXCEPT ![t].pc = "loaded", ![t].read_ts = current_ts,
                      ![t].clean = \A u \in Txns : tx[u].pc # "apply"]
  /\ UNCHANGED <<current_ts, readers, commit_lock, committed_txns, is_delete, chain, csr, smo, log,
                 merges, crossed>>

\* ... and the constructor registers it.
register_reader(t) ==
  /\ tx[t].pc = "loaded"
  /\ readers' = [readers EXCEPT ![tx[t].read_ts] = @ + 1]
  /\ tx' = [tx EXCEPT ![t].pc = "open"]
  /\ UNCHANGED <<current_ts, commit_lock, committed_txns, is_delete, chain, csr, smo, log, merges,
                 crossed>>

\* get_neighbors of a serializable transaction notes the vertex, one of the index.
get_neighbors(t, v) ==
  /\ tx[t].pc = "open" /\ t \in Serializable /\ v \notin Missing /\ Cardinality(tx[t].reads) < MaxReads
  /\ tx' = [tx EXCEPT ![t].reads = @ \cup {compute_key_hash(v, Zero)}]
  /\ UNCHANGED <<current_ts, readers, commit_lock, committed_txns, is_delete, chain, csr, smo, log,
                 merges, crossed>>

\* insert_edge, delete_edge, insert_vertex, delete_vertex only fill the buffer.
Write(t, op) ==
  /\ tx[t].pc = "open" /\ Len(tx[t].ops) < MaxOps
  /\ tx' = [tx EXCEPT ![t].ops = Append(@, op)]
  /\ UNCHANGED <<current_ts, readers, commit_lock, committed_txns, is_delete, chain, csr, smo, log,
                 merges, crossed>>

Hashes(t) == {WriteHash(tx[t].ops[i]) : i \in DOMAIN tx[t].ops}

\* check_serializable_conflict
ConflictSkipsNext(t) == \E c \in committed_txns : c[1] > tx[t].read_ts + 1 /\ c[2] \in tx[t].reads
check_serializable_conflict(t) == \E c \in committed_txns : c[1] > tx[t].read_ts /\ c[2] \in tx[t].reads

\* commit: nothing to write, a conflict, or a new timestamp that every later
\* begin_txn sees at once.
CommitEmpty(t) ==
  /\ tx[t].pc = "open" /\ tx[t].ops = <<>>
  /\ tx' = [tx EXCEPT ![t].pc = "done"]
  /\ UNCHANGED <<current_ts, readers, commit_lock, committed_txns, is_delete, chain, csr, smo, log,
                 merges, crossed>>

CommitRefused(t) ==
  /\ tx[t].pc = "open" /\ tx[t].ops # <<>> /\ commit_lock = NoTxn
  /\ t \in Serializable /\ check_serializable_conflict(t)
  /\ tx' = [tx EXCEPT ![t].pc = "done"]
  /\ UNCHANGED <<current_ts, readers, commit_lock, committed_txns, is_delete, chain, csr, smo, log,
                 merges, crossed>>

commit(t) ==
  /\ tx[t].pc = "open" /\ tx[t].ops # <<>> /\ commit_lock = NoTxn
  /\ t \in Serializable => ~check_serializable_conflict(t)
  /\ commit_lock' = t
  /\ current_ts' = current_ts + 1
  /\ tx' = [tx EXCEPT ![t].pc = "apply", ![t].commit_ts = current_ts + 1]
  /\ log' = Append(log, [ops |-> tx[t].ops, hashes |-> IF t \in Serializable THEN Hashes(t) ELSE {}])
  /\ UNCHANGED <<readers, committed_txns, is_delete, chain, csr, smo, merges, crossed>>

\* insert_edge_txn and delete_edge_txn stamp the record with the commit timestamp;
\* at is history: which operation of the commit it comes from.
Record(t, op) ==
  [type |-> IF op.kind = "INSERT_EDGE" THEN "INSERT" ELSE "DELETE", e |-> op.e,
   ts |-> tx[t].commit_ts, at |-> tx[t].next]

\* A write that fails is skipped with a warning.  The insertion of a missing
\* vertex succeeds: it makes the index longer by one item.
Fails(op) ==
  CASE op.kind = "INSERT_EDGE"   -> Range(op.e) \cap (is_delete \cup Missing) # {}
    [] op.kind = "DELETE_EDGE"   -> Range(op.e) \cap Missing # {}
    [] op.kind = "INSERT_VERTEX" -> op.e[1] \notin is_delete \cup Missing
    [] op.kind = "DELETE_VERTEX" -> op.e[1] \in is_delete \cup Missing

Nothing == [kind |-> "NONE", e |-> <<>>]

\* apply_writes, one operation.
apply_writes(t) ==
  LET i  == tx[t].next
      op == tx[t].ops[i]
  IN /\ tx[t].pc = "apply" /\ i <= Len(tx[t].ops)
     /\ tx' = [tx EXCEPT ![t].next = i + 1]
     /\ chain' = IF op.kind \in {"INSERT_EDGE", "DELETE_EDGE"} /\ ~Fails(op)
                 THEN Append(chain, Record(t, op)) ELSE chain
     /\ is_delete' = CASE op.kind = "INSERT_VERTEX" -> is_delete \ {op.e[1]}
                       [] op.kind = "DELETE_VERTEX" /\ ~Fails(op) -> is_delete \cup {op.e[1]}
                       [] OTHER -> is_delete
     /\ log' = IF Fails(op) THEN [log EXCEPT ![tx[t].commit_ts].ops[i] = Nothing] ELSE log
     /\ UNCHANGED <<current_ts, readers, commit_lock, committed_txns, csr, smo, merges, crossed>>

\* add_committed_txn and cleanup_old_txns, then the commit lock is released.
CommitDone(t) ==
  LET wm    == get_watermark
      added == committed_txns \cup {<<tx[t].commit_ts, h>> : h \in Hashes(t)}
  IN /\ tx[t].pc = "apply" /\ tx[t].next > Len(tx[t].ops)
     /\ committed_txns' = IF t \in Serializable THEN {c \in added : c[1] >= wm} ELSE committed_txns
     /\ tx' = [Tainted(tx, IF t \in Serializable THEN Overlooked(wm) ELSE {}) EXCEPT ![t].pc = "done"]
     /\ commit_lock' = NoTxn
     /\ UNCHANGED <<current_ts, readers, is_delete, chain, csr, smo, log, merges, crossed>>

abort(t) ==
  /\ tx[t].pc = "open"
  /\ tx' = [tx EXCEPT ![t].pc = "done", ![t].ops = <<>>]
  /\ UNCHANGED <<current_ts, readers, commit_lock, committed_txns, is_delete, chain, csr, smo, log,
                 merges, crossed>>

\* remove_reader, called by the destructor.
RemoveAllReaders(s) == [readers EXCEPT ![s] = 0]
remove_reader(s) == [readers EXCEPT ![s] = @ - 1]

Destroy(t) ==
  /\ tx[t].pc = "done"
  /\ readers' = remove_reader(tx[t].read_ts)
  /\ tx' = [tx EXCEPT ![t] = [NewTx EXCEPT !.pc = "gone"]]
  /\ UNCHANGED <<current_ts, commit_lock, committed_txns, is_delete, chain, csr, smo, log, merges,
                 crossed>>

-----------------------------------------------------------------------------
(* Consolidation under a watermark *)

\* fetch_deltas_with_mark takes the chain off the page; readers still reach
\* the records through the vertices' delta heads.
SmoFetch ==
  /\ smo.pc = "idle" /\ chain # <<>> /\ merges < MaxMerges
  /\ smo' = [smo EXCEPT !.pc = "split", !.got = chain]
  /\ chain' = <<>>
  /\ merges' = merges + 1
  /\ UNCHANGED <<current_ts, readers, commit_lock, committed_txns, is_delete, csr, tx, log, crossed>>

Mergeable(r, wm) == r.ts # INVALID_TS /\ r.ts < wm

\* Records below the watermark are merged, the others deferred; with nothing to
\* merge they are put back.
SmoSplit ==
  LET wm == get_watermark
      mergeable == {i \in DOMAIN smo.got : Mergeable(smo.got[i], wm)}
  IN /\ smo.pc = "split"
     /\ smo' = [pc |-> IF mergeable = {} THEN "restore" ELSE "drain",
                got |-> Restrict(smo.got, mergeable),
                queue |-> Restrict(smo.got, DOMAIN smo.got \ mergeable)]
     /\ tx' = Tainted(tx, Overlooked(wm))
     /\ UNCHANGED <<current_ts, readers, commit_lock, committed_txns, is_delete, chain, csr, log,
                    merges, crossed>>

\* The records that arrived meanwhile go in front of the deferred ones.
InFront(list, q) ==
  [i \in DOMAIN list \cup {Len(list) + j : j \in DOMAIN q} |->
     IF i \in DOMAIN list THEN list[i] ELSE q[i - Len(list)]]
SmoDrainDropsDeferred ==
  /\ smo.pc = "drain"
  /\ smo' = [smo EXCEPT !.pc = "reroute", !.queue = chain]
  /\ chain' = <<>>
  /\ UNCHANGED <<current_ts, readers, commit_lock, committed_txns, is_delete, csr, tx, log, merges,
                 crossed>>
SmoDrain ==
  /\ smo.pc = "drain"
  /\ smo' = [smo EXCEPT !.pc = "reroute", !.queue = InFront(chain, @)]
  /\ chain' = <<>>
  /\ UNCHANGED <<current_ts, readers, commit_lock, committed_txns, is_delete, csr, tx, log, merges,
                 crossed>>

\* One record is put on the (new) page's chain, among the commits that reach it.
SmoPut ==
  /\ smo.pc \in {"restore", "reroute"}
  /\ \E i \in DOMAIN smo.queue :
       LET r == smo.queue[i] IN
       /\ \A j \in DOMAIN smo.queue : i <= j
       /\ chain' = Append(chain, r)
       /\ smo' = [smo EXCEPT !.queue = Restrict(@, DOMAIN @ \ {i})]
       /\ crossed' = IF \E k \in DOMAIN chain : chain[k].e = r.e /\ Older(r, chain[k])
                     THEN crossed \cup {r.e} ELSE crossed
  /\ UNCHANGED <<current_ts, readers, commit_lock, committed_txns, is_delete, csr, tx, log, merges>>

\* The last record of an edge decides: an insert carries its timestamp, a delete
\* removes edge and timestamp.
LastOfEdge(list, i) == \A j \in DOMAIN list : list[j].e = list[i].e => j <= i
build_merged_graph_with_ts(page, list) ==
  {x \in page : \A i \in DOMAIN list : list[i].e # x.e}
    \cup {[e |-> list[i].e, ts |-> list[i].ts] :
            i \in {j \in DOMAIN list : list[j].type = "INSERT" /\ LastOfEdge(list, j)}}

\* The new page takes the place of the old one.
SmoPublish ==
  /\ smo.pc \in {"restore", "reroute"} /\ DOMAIN smo.queue = {}
  /\ csr' = build_merged_graph_with_ts(csr, smo.got)
  /\ smo' = NoSmo
  /\ UNCHANGED <<current_ts, readers, commit_lock, committed_txns, is_delete, chain, tx, log, merges,
                 crossed>>

-----------------------------------------------------------------------------
Commit(t) == CommitEmpty(t) \/ CommitRefused(t) \/ commit(t) \/ apply_writes(t) \/ CommitDone(t)

Next ==
  \/ \E t \in Txns : begin_txn(t) \/ register_reader(t) \/ Commit(t) \/ abort(t) \/ Destroy(t)
  \/ \E t \in Txns, v \in Vertices : get_neighbors(t, v)
  \/ \E t \in Txns, op \in Ops : Write(t, op)
  \/ SmoFetch \/ SmoSplit \/ SmoDrain \/ SmoPut \/ SmoPublish

Spec == Init /\ [][Next]_vars

-----------------------------------------------------------------------------
(* Reads and what they should return *)

\* Delta records a reader can reach.
Reachable == Range(chain) \cup Range(smo.got) \cup Range(smo.queue)

\* "MVCC visibility: only include records committed at or before read_ts."
InsertsAlwaysVisible(r, read_ts) == r.ts # INVALID_TS /\ (r.type = "INSERT" \/ r.ts <= read_ts)
Visible(r, read_ts) == r.ts # INVALID_TS /\ r.ts <= read_ts

read_neighbor_clone_txn(v, read_ts) ==
  LET seen == {r \in Reachable : r.e[1] = v /\ Visible(r, read_ts)}
      ins  == {r.e[2] : r \in {s \in seen : s.type = "INSERT"}}
      del  == {r.e[2] : r \in {s \in seen : s.type = "DELETE"}}
      base == {x.e[2] : x \in {y \in csr : y.e[1] = v /\ (y.ts = INVALID_TS \/ y.ts <= read_ts)}}
  IN (base \cup ins) \ del

\* The operations of the commits up to n, as <<commit_ts, index>>, in their order.
Positions(n) == UNION {{s} \X DOMAIN log[s].ops : s \in 1 .. n}
Earlier(x, y) == x[1] < y[1] \/ (x[1] = y[1] /\ x[2] < y[2])
EdgeOps(kind, e, n) == {x \in Positions(n) : log[x[1]].ops[x[2]] = [kind |-> kind, e |-> e]}

\* The edge e is in the snapshot n: the last of the commits' operations on it
\* inserts it, or it was there from the start and none deletes it.
InSnapshot(e, n) ==
  \/ e \in Base /\ EdgeOps("DELETE_EDGE", e, n) = {}
  \/ \E x \in EdgeOps("INSERT_EDGE", e, n) : \A y \in EdgeOps("DELETE_EDGE", e, n) : Earlier(y, x)

\* Edges that were deleted and inserted again.
Reinserted(e) ==
  \E x \in EdgeOps("DELETE_EDGE", e, Len(log)), y \in EdgeOps("INSERT_EDGE", e, Len(log)) : Earlier(x, y)

-----------------------------------------------------------------------------
(* Properties *)

\* Types of the shared state.
TypeOK ==
  /\ current_ts \in Timestamps /\ readers \in [Timestamps -> 0 .. Cardinality(Txns)]
  /\ commit_lock \in Txns \cup {NoTxn}
  /\ is_delete \subseteq Vertices

\* No reader sees an edge that its snapshot does not owe to the initial graph
\* or to a commit: buffered, refused, aborted and later writes stay invisible
\* through every stage of a consolidation ("concurrent readers cannot see an
\* uncommitted edge").
NoDirtyRead ==
  \A t \in Txns, v \in Vertices : tx[t].pc = "open" =>
    \A w \in read_neighbor_clone_txn(v, tx[t].read_ts) :
      \/ <<v, w>> \in Base
      \/ \E s \in 1 .. tx[t].read_ts : \E i \in DOMAIN log[s].ops :
           log[s].ops[i] = [kind |-> "INSERT_EDGE", e |-> <<v, w>>]

\* A transaction that began while no commit was being applied, and that was
\* registered before any watermark was computed, reads exactly its snapshot
\* through every commit and consolidation; edges deleted and inserted again, and
\* edges whose records were put back behind younger ones, are excepted.
SnapshotExact ==
  \A t \in Txns, v \in Vertices : (tx[t].pc = "open" /\ tx[t].clean) =>
    LET read == read_neighbor_clone_txn(v, tx[t].read_ts)
    IN \A w \in Vertices : \/ w \in read <=> InSnapshot(<<v, w>>, tx[t].read_ts)
                           \/ Reinserted(<<v, w>>) \/ <<v, w>> \in crossed

\* cleanup_old_txns keeps every write set that a registered transaction may
\* still have to be checked against, one that a watermark overlooked excepted;
\* and the reader counts it goes by stay within their types.
ConflictsKept ==
  TypeOK /\ \A t \in Txns : (tx[t].pc = "open" /\ tx[t].clean) =>
    \A s \in tx[t].read_ts + 1 .. current_ts :
      (\A u \in Txns : tx[u].pc = "apply" => tx[u].commit_ts # s) =>
        \A h \in log[s].hashes : <<s, h>> \in committed_txns

\* A serializable transaction commits only if no key it read was written by a
\* serializable transaction that committed after its snapshot; one that a
\* watermark overlooked, or that began while a commit was being applied (not
\* clean), is excepted: write sets it has to be checked against may be gone.
ReadKeysUnchanged ==
  \A t \in Txns : (tx[t].pc = "apply" /\ tx[t].clean /\ t \in Serializable) =>
    \A s \in tx[t].read_ts + 1 .. tx[t].commit_ts - 1 : log[s].hashes \cap tx[t].reads = {}

\* What is left for the next consolidation leads to the committed graph: base
\* page and chain together give the latest snapshot, unless younger records of
\* the same edge were overtaken by records that were put back.
MergeExact ==
  (smo.pc = "idle" /\ commit_lock = NoTxn) =>
    LET merged == {x.e : x \in build_merged_graph_with_ts(csr, chain)}
    IN \A e \in Vertices \X Vertices : (e \in merged <=> InSnapshot(e, current_ts)) \/ e \in crossed

\* "new reader sees the committed edge": a transaction that began while no
\* commit was being applied sees every edge of its snapshot.
CommittedEdgesSeen ==
  \A t \in Txns, v, w \in Vertices :
    (tx[t].pc = "open" /\ tx[t].clean /\ InSnapshot(<<v, w>>, tx[t].read_ts)) =>
      w \in read_neighbor_clone_txn(v, tx[t].read_ts)
==============================================================================
