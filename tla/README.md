# Bw-Graph in TLA+

Bw-Graph is a graph store: neighbour lists live in fixed-size CSR pages, updates are appended to
delta chains, and a background *structure modification* (SMO) folds a chain into replacement pages
while readers and writers continue. This directory holds TLA+ models of its concurrent parts and of
the algorithms and page structures around them, translated from the source, TLC configurations that check them on small instances, and TLAPS
proofs of the results that hold for every instance. `PROJECT.json` lists components, runs, mutants
(a wrong variant of a mapped definition that must break the property it is listed with), findings,
hazards, theorems, and the source lines every definition stands for.

Source paths below are relative to the repository root.

## 1. The system

| Component | State | Operations | Interaction |
|---|---|---|---|
| Reader-writer latch (`include/bw_graph/common/latch.h`) | one word: write flag, reader count | `w_lock`, `r_lock`, their `try_` forms, unlocks, `w_to_r_convert(_safe)` | used by pages, page map entries, vertices, pool lists |
| Vertex index (`src/vertex_index.cc`) | per vertex: latch, atomic pointer to an immutable version (page, offset), newest delta record; queue of retired versions | allocate, prepare, publish by compare-exchange, retire, reclaim through hazard pointers | read by every operation, published by the SMO; the reclaim callback gives old pages back |
| Page map (`src/page_map.cc`) | per CSR page: chain of delta pages, entry latch, forwarder, `consolidating_` flag | insert delta, insert through forwarder, fetch and truncate, install/clear forwarder | written by updates, drained by the SMO |
| SMO controller (`src/smo.cc`) | jobs in a task arena, staged versions | `consolidate_pages`: claim, fetch, merge, build, install forwarder, drain, publish, finalize | consumes chains, creates pages, retires pages |
| Updates and reads (`src/db_dyn.cc`, `src/db.cc`) | none of their own | `insert_edge`, `delete_edge`, `read_neighbor_clone`, vertex operations | vertex latch, then page map; a long chain starts a job |
| Buffer pool (`src/buf_pool.cc`) | frames, page map, LRU and free list, clock hand, set of pages being loaded | read, read for slot write, copy, new page, evict, write back, retire | one pool for CSR pages, one for delta pages |
| Prefetch queue (`src/buf_pool.cc`) | queue, duplicate set, active counter, workers | prefetch, worker loop, wait for idle, stop | loads through the pool |
| Flushers (`src/csr_flusher.cc`, `src/delta_flusher.cc`) | stop, wake and running flags, thread | start, stop, trigger, loop, scan | write dirty pages of a pool; SMO triggers |
| Transactions (`src/txn.cc`, `src/db.cc`) | latest timestamp, reader watermark, committed write sets, buffered operations | begin, read, write, commit, abort | commit applies through the update path; SMO merges below the watermark |
| Delta pages (`src/io_delta.cc`, `src/page_map.cc`) | records in a page, pages linked by raw pointers, dirty flag | insert record, new page, fetch, clear a link, flush | frames of the delta pool; the flusher writes them without the chain's latch |
| Disk manager (`src/disk_manager.cc`) | page file, free slots, capacity, two page counters | allocate, delete, read, write, reopen | under the pools, the SMO and the builders |
| Construction (`src/db_build.cc`, `src/builder.cc`) | partition, pages per thread, vertex locations | four builds | partitioner, builder, disk manager, giant store |
| Closing (`src/db_build.cc`, `src/vertex_index.cc`, `src/smo.cc`) | task group, staged versions, retired versions, flusher pointer | `close` | stops everything that still runs |
| Index pages (`src/io_index.cc`, `src/db_build.cc`, `src/smo.cc`) | block adjacency, parents, root | build the tree, rename and split after consolidation, save, load | over the CSR pages |
| CSR pages (`src/io_csr.cc`) | words of a page, parsed members | build, parse, insert in a slot, apply deltas, header setters | content of the pool's frames |
| Giant vertices (`src/external.cc`) | RocksDB, cache, delta records | insert, read, add and remove, append delta, merge | instead of pages for high degrees |
| Algorithms (`src/db_algorithm.cc`, `include/bw_graph/algo`) | frontier, per-vertex arrays, worker threads | BFS, components, PageRank, label propagation, block search, walk | read the pages in parallel |
| Partitioning (`include/bw_graph/part/partition.h`) | block of each vertex | k-way partition, refinement, sparsification | before a build |
| Properties, codec, sketch, in-memory graphs, reordering, tools | sequential containers, counters | | not modelled (section 6) |

What is hard: (a) a job replaces a page while writers append to its chain and readers walk it,
with four different latches and one atomic pointer involved; (b) pins, latches and the page map of
the pool are read and rechecked in separate steps; (c) snapshots are protected by a watermark that
is computed from a registration made after the snapshot is chosen; (d) condition variables are
notified outside their mutex; (e) shutdown runs against threads still at work; (f) delta pages are
written without their page latch while the pool evicts and the flusher writes them; (g) algorithm
workers share arrays through compare-exchange loops of their own.

Per component the properties that make it correct:

* latch: exclusion, exact word, no overflow, safe conversion, progress;
* consolidation: transparent to readers in every phase, one job per page, no acknowledged update
  lost, a page number freed once and only when unreachable, claims released, pages recycled;
* pool: a held page stays, one copy per page, exact lists, content survives eviction, calls end;
* transactions: committed data only, stable and exact snapshots, conflicts kept and found, merging
  follows the commit order;
* flushers, prefetch: nothing lost between test and sleep, stop is final and complete;
* delta pages, disk manager, giant store: what was acknowledged is read back after eviction, flush,
  merge and restart, and a page number has one owner;
* closing: nothing is used after it was destroyed, everything replaced is reclaimed once, it returns;
* algorithms: the result of the sequential definition, in every interleaving, and an end;
* build, pages, index tree, partition: every vertex is where its location says, exactly once.

## 2. Modules

| Module | Models | Checked by |
|---|---|---|
| `RWLock` | what the latch promises | refinement target of `RWLatch` |
| `RWLatch` | `rw_latch_t`, one atomic access per action | `MCThreads` (run `threads`), `ThreadsProof` |
| `Flusher` | both flushers | `MCThreads`, `ThreadsProof` |
| `Prefetch` | prefetch queue | `MCThreads`, `ThreadsProof` |
| `Consolidation` | updates, chain walks, page map entries, vertex versions, SMO jobs, staged publication, reclamation | `MCModes` (run `consolidation_modes`), `MCConsolidation` (run `consolidation_lost`), `MCProgress`, `ConsolidationProof`, `EdgesProof` |
| `BufPool` | the CSR buffer pool, its callers' pins, retirement and the flusher's effect on a frame | `MCBufPool` (runs `pool_core`, `pool_live`, `pool_stale`), `BufPoolProof` |
| `Txn` | transactions, multi-version reads, merging by the watermark | `MCTxn` (runs `txn_core`, `txn_reinsert`), `TxnProof` |
| `DeltaPages` | delta pages in the frames of their pool | `MCUnits` (run `units`), `DeltaPagesProof` |
| `DiskManager` | allocation, writes, counters, reopening | `MCUnits`, `DiskManagerProof` |
| `Closing` | reclamation threads, hazard pointers, `close()` | `MCProgress` (run `progress`), `MCClosing` (run `close`), `ClosingProof` |
| `EdgeMap` | BFS, components and label propagation over edge maps and scans | `MCUnits`, `MCProgress`, `MCEdgeMap` (run `wcc_map`) |
| `RoundMap` | PageRank and label propagation by rounds | `MCUnits` |
| `Traverse` | sequential and block traversals, sampling walk, histogram | `MCUnits` |
| `Partition` | partitioning, refinement, sparsification | `MCUnits` |
| `Build` | the four builds | `MCUnits` |
| `Tat` | the tree of index pages | `MCUnits` |
| `CsrPage` | the words of a CSR page | `MCUnits` |
| `GiantStore` | neighbour lists of giant vertices | `MCUnits` |

`Consolidation`, `BufPool`, `Txn` and `DeltaPages` look at the same pages from four sides: the
protocol of replacing a page, the frames it is cached in, the timestamps of its records, and the
frames of its delta pages. Each keeps of the others what its properties need (`Consolidation` has
the chain and not its frames, `DeltaPages` the frames and not the merge). `Closing` composes the
SMO's task group, staged publication, the vertex index and its reclamation threads, flushers and
pools. `MCThreads`, `MCUnits` and `MCProgress` put modules that share no state side by side: a
behaviour moves one of them.

Otherwise the `MC` modules only add the symmetry sets, small graphs and small sets of operations
that configurations name.

### Correspondence

**RWLatch.** `word` is `lock_state_`, with the write flag at `WRITE_LOCK_FLAG` (2^31 in the code,
small in the runs so that the reader limit is reached). `exp` is the value a thread loaded, so the
load and the weak compare-exchange of `try_r_lock` are two steps with a spurious failure in
between; `w_to_r_convert_safe` is load, test, store. `block` distinguishes the spinning calls from
the `try_` forms.

**Consolidation.** A step is one critical section. `recs` is the append-only list of all delta
records, and a location (delta page, index) is a position in it; `chain[p]` is the page map entry
of CSR page `p`; `head[v]` is the vertex's newest record, `cur[v]` its version. A writer runs
`WriterLock` (vertex latch), probe of the forwarder, append (direct or through the forwarder),
the length check and `try_begin_consolidation`. A job runs begin, fetch, merge, build (placing the
vertices of the page on one page, or on two: a split), install, drain, strays, and then either publishes and
finalizes per vertex or, with `ManualSwitch`, stages its versions for `PublishPending`, which waits for the
jobs in the task group (one whose arena lambda has not run is not among them). `Reclaim`
is the hazard-pointer callback that recycles the old page. `Failures` says which calls may throw: the
read of the page a job is to replace, after the claim (`"read"`); a delta page for a writer or for a
stray, which leaves the vertex latch held for ever (`"delta"`, latch `"abandoned"`); the preparation of
the new versions, because every frame is pinned, a scan has cached a number that was free, a vertex does
not fit or a giant cannot be stored (`"prepare"`); the update of the index pages after the switch
(`"index"`). `hist` is history: the graph that the
acknowledged updates describe, the races that happened, rerouted and overtaken edges.

**BufPool.** `frame` is the frame array, `map` the concurrent page map, `lru`, `free` and `hand`
the lists, `loading` the pages whose cold load somebody started. A page's content is the set of
updates it carries, `truth` what the database acknowledged. A `"read"`, `"slot"` or `"job"` call names a page that vertices
are on; a `"scan"` is `buf_page_read` of any number, freed ones too, as dense edge maps, edge scans,
`warm_up`, `init_edge_count` and prefetch workers make it; a `"cp"` is the SMO's copy to a number it allocated. A call is a sequence of steps: lookup,
pin, latch, second lookup; on a miss register the load, claim a frame (both list latches: one
step), write the victim back, fill, publish. `RetireFind`/`RetireLocked` are `retire_page`.

**Txn.** `Missing` are vertex numbers beyond the vertex index, for which an operation of a commit fails
or does nothing; `readers` is `water_mark_t`, `committed_txns` the conflict record, `chain`/`csr` a page
with timestamped records; `SmoFetch`, `SmoSplit`, `SmoDrain`, `SmoPut`, `SmoPublish` are the part
of `consolidate_pages` that looks at timestamps. The lists of the job (`smo.got`, `smo.queue`) are
functions from positions of the fetched chain, so that the split by the watermark keeps the order.
`log` is history: what each commit did; `at` of a record is the operation of the commit it comes from.

**Flusher, Prefetch.** A section under the mutex is one step, an access to `running_` or a notification outside it another
(`Start`/`StartThread`, `Trigger`/`TriggerSet`/`TriggerNotify`);
sleepers are explicit, so that a notification that comes too early is lost, as with a real
condition variable. Timed waits may time out but need not (in the fairness), so progress never
rests on a timeout.

**DeltaPages.** `head[c]` is the chain's first frame and `frame[f].next` the raw pointer to the
older one; the writer's `Store` and `Mark` (record, then dirty flag) take no page latch. `op[o]` is
the call of a chain's writer or of the reader that loads a page by number, clears a link
(`truncate_chain_at`) or only reads. `Flush*` is `flush_to_disk`, with the write and the clearing of
the flag as separate steps. The replacement policy is open: any unlatched frame may be claimed.

**DiskManager.** A build in which threads write pages they number themselves, then allocations,
deletions and writes, then closing and opening. `write_page` is the section that extends the
capacity, the transfer, and one compare-exchange per turn for each of the two counters; a transfer
that fails or is short (`WriteFails`) ends the call there, as the code only logs it. `Reopen` is shutdown and the constructor's backward scan over the file.

**Closing.** A task goes from the arena's queue to the group, ends early (a return or a throw before it
publishes) or merges, publishes its versions one by one, may throw in the update of the index pages,
tests the flusher pointer and calls it. Retired versions go through `queue` to the hazard
pointer library (external), whose cleanup runs the callbacks that count a batch down, free the page
and lower the pending count, each in a step. The closer follows `bw_graph_db_t::close` line by line;
`misused` records a step that touches something already destroyed.

**EdgeMap, RoundMap, Traverse.** A round hands vertices (or pages) to workers in any order; every
load and exchange of a shared array element is a step. `prog` names the function that runs: a
record of its functor, direction and bounds, so that the engine's functions and their benchmark
twins are one description each. `RoundMap` computes with fixed-point numbers exactly, so equality
with the reference is meant literally.

**Partition, Build, Tat, CsrPage, GiantStore.** Sequential code with a reference: the library
KaMinPar may answer anything; a page is the sequence of its vertices (`Build`), its 4-byte words
(`CsrPage`), or the adjacency of its blocks (`Tat`); a stored list is its encoded bytes
(`GiantStore`).

## 3. Runs

Passing runs:

| Run | Instance | Shows |
|---|---|---|
| `threads` | latch: three threads, counter full at two readers; flusher: a triggering thread, two pages, two uses, two starts; prefetch: two callers, two workers, a waiter, three pages, a queue of two | exclusion, exact word, refinement of `RWLock`, progress; no scan after stop, quiet pages clean, every trigger that comes between start and stop, and every stop, answered; duplicate set and counter exact, stop final, requests and waiters settled |
| `consolidation_modes` | two writers, two jobs; two vertices on a page, one destination, three updates and the manual switch; or one vertex, two destinations, four updates and immediate publication; or either way of publishing with a reader that walks record by record, one vertex and two updates; or either way with one vertex, one destination and three updates and every call of `Failures` throwing or not | reads exact in every phase of a job both ways, also when a page splits; a walking read returns, per edge, a value of its interval; claims exclusive, a job throws only where it runs short of something and leaves its vertices all switched or none, freed pages unreachable, a forwarder stays with its job |
| `pool_core` | two threads, four calls (slot writes, jobs' pins, copies, scans of any number), two frames, three page numbers, one retirement | a held page stays, one copy, content survives, outside the races below; exact lists whatever happens |
| `pool_live` | one frame, two threads, three calls of all kinds, one retirement: a load can find the only frame held and throw | every call ends, every replaced page gives its frame and number back |
| `txn_core` | three transactions (two serializable), three vertices of which one is beyond the index, edge and vertex operations on them, one merge | no dirty read, exact snapshots, merging loses nothing, conflict records are kept long enough and stop commits |
| `units` | one of eleven instances per behaviour, listed in `MCUnits` | `ResultExact`, `ArraysSound`: BFS and component functions; `RoundExact`: ranks and votes; `TraversalExact`; `PartitionSound`; `BuildReadable`; `IndexTree`; `PageExact`; `GiantReadExact`; `DeltaExact`; `DiskSound` |
| `progress` | edge map with two workers on three vertices; two writers, a reader that walks record by record and two jobs that may throw, with either way of publishing; `close()` with a consolidation of two versions, two reclamation threads and a reader | every function ends, claims are released (also by jobs that throw), replaced pages are freed, `close()` returns; nothing is used after it was destroyed and every version is reclaimed once |

Runs that must fail. Each states what a comment, test or header of the repository promises and is
refuted by the code as modelled; `PROJECT.json` quotes the promise.

| Run | Counterexample |
|---|---|
| `consolidation_lost` | a writer probes no forwarder, the job installs one and drains, the writer appends to the drained chain: finalize drops the record |
| `pool_stale` | a load overtakes the write-back of the same page and publishes the old content |
| `txn_reinsert` | delete then insert of an edge hides it from every reader until a merge |
| `wcc_map` | the dense edge map leaves a vertex's list at the first label it can lower, misses the smaller label of a later neighbour, and two ends of an edge keep different labels |
| `close` | a job whose arena lambda has not run is not in the task group, so `wait_all_consolidations` returns while it is pending |

### Deviations the passing runs except

The safety properties of `Consolidation`, `BufPool`, `Txn` and `DeltaPages` are stated outside races that the
code admits. Each is recorded by a history variable, which guards no action, so the passing runs
show that within the bounds these are the *only* ways in which the promise fails:

| Recorded as | What the code admits |
|---|---|
| `Healthy` (`"late append"`) | the race of `consolidation_lost` |
| `Healthy` (`"early build"`) | a second job, on a replacement page, prepares a version of a vertex the first job has not moved yet |
| `Healthy` (`"halted"`) | a job throws between two strays because no delta page can be had: the vertex stays latched, the forwarder installed and the remaining strays are on no chain |
| `Lossless` (`"dropped"`, and the three above) | a job throws while it prepares its versions: the records it fetched are on no page's chain any more, so the next job does not merge them and its finalize drops them. Readers still find them until then; claims, forwarders and page numbers are not affected, so only `EdgesExact` and `ReadsRegular` except it |
| `hist.overtaken` | the drain puts an old stray record in front of a newer rerouted one |
| `Replaying` | while a job copies several strays of one edge, oldest first, a read sees the older ones before the newest is copied |
| `torn` | a walking reader has the old page but the chain that finalize cut |
| `raced` (`"overtook write-back"`) | the race of `pool_stale`; also a copy to a page number that retirement freed while an eviction was still writing its last content, which then lands over the new page |
| `raced` (`"dropped"`, `"late mark"`) | a slot update leaves its page clean, or a copied page is evicted before it is marked dirty: eviction drops the change |
| `raced` (`"crossed"`) | a scan's load of a page number crosses `buf_page_cp` to the same number, which looks the number up but registers nowhere: the page is in two frames, and the eviction of one copy erases by number the mapping of the other, which somebody may hold (`buf_pool.cc:138`) |
| `raced` (`"refused"`) | a copy finds its number cached by a scan and the consolidation throws; no property excepts it, and it is one reason of `"prepare"` in `Consolidation` |
| `clean` | a transaction that begins while a commit is being applied sees the commit arrive; one overlooked by a watermark computed between reading its snapshot and registering may lose records it needs |
| `Reinserted` | the case of `txn_reinsert` |
| `crossed` | deferred records are put back behind younger records of the same edge, those of a later operation of the same commit included: a merge that applies them in that order makes the older one win, so a deleted edge can come back |
| `asked` | only triggers whose flag is set while the thread will still test it are claims of `FlusherAnswers`: one between the exchange of `running_` and the reset in `start()` is erased, one that read `running_` before `stop()` and sets the flag after the join is answered by nobody |
| `touched` | the final flush of a flusher skips a latched page |
| `taken` | the pool hands a frame to another page while a chain still links it: the two chains share records, and a chain that loses its own head to itself runs in a circle |
| `doubtful.pages` | a flush clears the dirty flag of a record stored and marked after its write (one that its writer has yet to mark is not lost: the mark makes the page dirty again), or a load overtakes the write-back of the same delta page |
| `QueuedAtClose` | `progress` assumes that no job is queued when `close()` is called: with one, the case of `close` lets it run over destroyed objects |
| `lost` (`CsrPage`) | a rebuild throws after the page was cleared, a reloaded page does not parse, or a ninth neighbour page was added, whose number overwrites the first vertex |
| `Dangling` (`Tat`) | an update of the index tree has replaced the root's page object: the pointer through which `close()` reads the root's number is dangling, and what the file says is anything |
| `phase = "threw"` (`Build`) | a build that meets a block, or a single vertex, that does not fit a page throws; `BuildReadable` says that it throws only then |
| `missed` (`DiskManager`) | a first write of a page fails, which is only logged: the page is not in the file, neither counter covers it, and its number may be handed out again, by a parallel build's end or after a restart |

One more shows in the models without an exemption: keys of vertex reads and of edge writes differ,
so `ReadKeysUnchanged` speaks of keys and not of the graph.

### Bounds

Every bound is a constant named in the module. They are chosen so that each mechanism is exercised
at least twice: two jobs (a job on a page made by another job), more records than fit a delta page
(`RecsPerPage = 1`, so chain length equals record count, and `ChainThreshold = 1`, so every update
may start a job), five page numbers so that a freed number is used again, fewer frames than pages,
a queue smaller than the number of pages, a reader limit below the number of threads
(`WRITE_LOCK_FLAG = 3`), three transactions so that one can begin, one commit and one merge in any
order. Symmetry is used in safety runs only: writers, the two vertices that share a page, pool threads
and frames, the serializable transactions. `CHECK_DEADLOCK FALSE` stands where the bounds on calls let the system come to rest;
the `threads` run checks deadlock.

In `units`: graphs of four or five vertices with a path that runs against the vertex numbers, a
giant, a second component and an isolated vertex; two workers; two rounds; a page that holds two or
three vertices, with and without free slots, a partition with a block that does not fit, and a page too
small for one vertex; a first segment that does not fit one page; eight neighbour pages added to a CSR
page, alone and on top of others; an index tree of two levels with two splits or renames, whose fresh
CSR page numbers are those the builder gives, so that they coincide with numbers of index pages; lists whose differences need one, two and three bytes
and fill a group of four; two chains that compete for one frame, with two records a page and two
loads, and one chain of up to three pages in two frames; a file of four pages with two builder threads, one failed write and one restart.

### Fairness

Liveness runs assume weak fairness of each thread inside a call (a running thread keeps running):
in `threads` of the latch users, the flusher loop and the prefetch workers; in `pool_live` of each
pool thread and retirement; in `progress` of each edge map worker and the loop that joins them, of
writers, readers, jobs in the arena and the reclaimer, and of the tasks, reclamation threads and the
closer, with readers that end their read. In `progress` the jobs throw where
they can, except for want of a delta page: that leaves a vertex latched for good, and no update of the
vertex, hence no job that waits for its latch, ends. New calls,
triggers, timeouts and the manual switch are never fair. The one strong fairness is `ReadEnter` of
the latch: a compare-exchange that is tried again and again with the right value does not fail
spuriously for ever. Liveness of the latch is stated as system-wide progress, since the code has
no queue and an individual thread may starve; it assumes that a holder unlocks, as every caller
does.

### Defects the models follow

Not every departure from what a caller would expect contradicts a sentence of the repository. These
the models contain as they are; no property speaks about them, or one excepts them as said above.

* Search and ranks: `bfs_block_parallel` never ends with two or more workers (the last two wait for
  each other's active count); `bfs_block` may list the entry vertex of a block twice and keeps its
  page latches; the scanning PageRank returns degree-normalised ranks when it converges early; dense
  and output-free edge maps visit every page number, freed ones included.
* Build and tree: `build_standard_db` throws when a block of the partition does not fit a page, the
  other builds when a vertex does not fit one of its own;
  refinement never ends if one vertex outweighs the limit; `build_reorder_tat_db` saves its index
  pages before the tree is built and does not give the SMO its map; isolated blocks drop out of the
  next level; the global tree has no edges; parents are stale after an index split, and a parent
  over its capacity throws; the first page number after a build is that of an index page, so CSR pages
  and index pages share numbers; an update under the root deletes the object the root pointer names; loading leaves index pages empty because `self_parse` returns at once.
* Pages: header setters of a CSR page use the offsets of an older layout; an insert that reaches the
  giant bound makes the page read empty; `apply_deltas` clears the page before a rebuild that may
  throw; `add_neighbor_page_no` admits sixteen
  entries where the header has room for eight; `allocate_page` may shrink the capacity (never below a
  counted page: `DiskSound`); a failed disk write is only logged.
* Giants: the neighbour cache is not invalidated; records of one microsecond overwrite each other; a
  record added while a merge runs is deleted by it; time stamps start again with the machine.
* Updates: an update that gets no delta page leaves its vertex latched; a preparation that throws keeps
  the page numbers it allocated; `delete_edge` appends a record also for an edge that is not there; a vertex inserted with
  neighbours gets offset 0; with the manual switch a page is freed before its forwarder is detached;
  `retire_page` reports success for a page that moved; a fetch lowers the pin count a second time.
* Closing: `retire_version` against the end of `shutdown_version_gc` leaves a version in the queue, if a task
  was still queued when close() was called (otherwise `ClosingSafety` excludes it). An index update
  that throws inside close()'s own call of `publish_pending_versions` leaves close() half done; the model
  has that throw in tasks and not in the closer.

## 4. Proofs

All proofs are checked by TLAPS and hold for every value of the constants allowed by the named
assumptions (`LatchAssumption`: a finite set of threads, a flag value above 1;
`ConsolidationAssumption` and `DiskAssumption`: types of the constants; `TxnAssumption`: a finite set
of transactions and types; `BufPoolAssumption`: finite sets of threads and frames and types;
`ClosingAssumption`: a consolidation replaces finitely many versions, at least one, and no version is
replaced by two) and by the hypotheses a theorem states (no task queued at close();
`DeltaParameters`: the reader is no chain and the bounds are numbers, which TLC evaluates for both
instances of `MCUnits` as `DeltaInstances`).

`ThreadsProof`, latch: the inductive invariant `IInv` is `TypeOK`, `MutualExclusion`, `WordExact`,
`LoadsExact` (a thread about to exchange loaded a word that admits a reader) and
`ConversionNeverThrows`. `MutualExclusion` alone is not inductive: a word that disagrees with the
threads inside would admit a second writer, so the exact meaning of the word is carried along,
with the cardinality of the set of readers. Theorems: `LatchTypeOK`, `LatchMutualExclusion`,
`LatchWordExact`, `LatchConversionNeverThrows`, and `LatchRefinesLock` (every step of the word
implementation is a step or a stutter of `RWLock`).

`ConsolidationProof`: `CInv` is `TypeOK` (with `LocsValid`: every link leads to an older record, so
chains are acyclic and never dangle) strengthened by `JobsInOrder` (jobs are numbered in starting
order and those not started are blank), `LocsInPhase` and `RoutesResolve` (a forwarder names a job
that has placed every vertex the page can receive records of), `SwitchesInOrder` and
`ListedStarted` (staged jobs were started), and `ClaimExclusive`. Theorems:
`ConsolidationTypeOK`, `ConsolidationClaimExclusive`.

`ProtocolInv`, in the same module, says how jobs, versions, forwarders, writers and free pages fit
together while none of the events of `Healthy` (section 3) is on record. `JobsSucceed` alone is far
from inductive. That the exchange of a version wins rests on nobody else moving the vertex
(`VersionsExpected`, `VersionsPlaced`, `VersionsMoved`: a vertex in transit is on the page of the one
job that moves it, or where that job put it). That rests on jobs working on different pages and on
no job moving vertices to a page another one is emptying (`PagesApart`, `TargetsApart`), which the
claim guarantees only until a manual switch drops it; from then on the page has a drained chain that
the forwarder keeps empty, so a second job ends at the threshold check (`ChainsDrained`,
`ForwardersKept`, `LingeringAlone`). That a stray finds its vertex rests on the chain of a page
holding records of vertices of that page only (`ChainsStored`, `PagesCovered`, `StraysCovered`),
and this on what a writer may still carry from before it waited for the latch
(`WritersKnown`). Last, `SlotsDistinct` and `FreeUnused`: a page number the disk manager can hand out,
on its list or past the end of the file, is in nobody's hands. Theorems, for any writers, readers,
vertices, pages and jobs and both ways of publishing: `ConsolidationProtocol`,
`ConsolidationJobsSucceed`, `ConsolidationForwarderOwned`, `ConsolidationFreePages`. The throws for
want of frames or room are steps like the others here: `ConsolidationJobsSucceed` says where a job may
throw and in what state it then leaves its vertices, not that it does not.

`EdgesProof`: consolidation is transparent. `EdgesExact` says that page and chain of a vertex, as
`View` walks them, are what the acknowledged updates left. `Walk`, `View` and the merge follow links
and lists; the first part of the module shows that on a chain described as a *set* of records they
compute the newest record of each edge, by arguments on the least record for which they would not
(naturals are well-founded, so no induction over the list is needed). `EdgesInv` then says that there
is a floor per vertex, which finalize raises, such that the records above it are exactly the ones on
the vertex's chain and linked in the order of their appends (`ChainsLinked`), those of a vertex
that no job moves wait on the chain of its page or with the job that fetched it (`Settled`), those of
a vertex in transit are merged on the new page, still to be carried there by the one job that moves
it, already there, or hidden by one that is (`Carried`), strays come after what was merged (`StraysLast`), and chain over page
describes the graph (`Exact`). `EdgesExact` alone is not inductive: between build and finalize a record is on
the new page and still on the vertex's chain, and whether dropping it from the chain is invisible
depends on which records the merge saw. `ReadersInv` is about the reader that walks: whatever
its next record, what it has found so far and what the rest of its walk will say (`Left`, `WillSay`)
is, per edge, a value the edge had since the read began (`WalkSound`). Theorems, both under
`Lossless` and outside `hist.overtaken`, `Replaying` and `torn` (section 3), for any writers, readers, vertices,
pages and jobs and both ways of publishing: `ConsolidationEdgesExact`, `ConsolidationReadsRegular`.

`ThreadsProof`, flushers: `FInv` adds to the two properties the ownership of the thread (`ThreadOwned`: it
exists exactly between start and join, and only its scan phase has pages in hand), `UsersTouch` and
`FinalScanCovers` (during the final flush a dirty page is touched or still in the snapshot), without
which the end of the scan says nothing about the pages it skipped. Theorems:
`FlusherNoScanAfterStop`, `FlusherStopFlushesQuietPages`. Only types of the pool's pages are assumed
(`FlusherAssumption`); the number of pages and triggering threads is arbitrary.

`ThreadsProof`, prefetch queue: `PInv` adds to the two properties `InHandOnce` (a page is at one place of the queue
or with one worker; the count of the duplicate set alone does not say which page a settled request
removes) and `StopFlagged` (a worker leaves only an empty queue, after the flag that keeps it
empty). Theorems: `PrefetchQueueExact`, `PrefetchStopIsFinal`, from `PrefetchAssumption` (finitely
many workers, at least one).

`DiskManagerProof`: `DiskInv` is `DiskTypeOK`, `FileCovers`, `FreeApart` (free numbers are distinct,
not in use and below the counter), `OwnedCounted` (a page in use is below the counter or is the
builder's and its writer has yet to raise it), `WritesSound` (a write in progress is within the
capacity, and the counter it loaded has not fallen), `WrittenKept` and `FailedKept` (a page whose last
write failed is in the file from an earlier one); it holds as long as `missed` is false. `DiskSound` alone is not
inductive: that an allocation at the end of the file is new rests on the counter covering every page
in use, which the builder's unlatched compare-exchange loops only establish when they end
(`RaiseCovers`), and after a restart on the backward scan stopping at the greatest page of the file
(`LastPage`, from the well-foundedness of the naturals). Theorem: `DiskSoundness`, for any number of
threads, pages, failed writes and restarts.

`TxnProof`: `TxnInv` is the types, `LockHeld` (the transaction applying its writes holds the commit
lock), `ReadersExact` (the reader count of a timestamp is the number of transactions registered
there), `CommitsCounted`, `ApplyingLatest` (the commit under way is the latest, its hashes logged),
`WriteSetsKept` and `ReadKeysUnchanged`. The check of a serializable commit is sound only if every
later write set is still on record: exact reader counts bound the watermark by every registered
snapshot, so `cleanup_old_txns` keeps them, and the lock means every earlier commit has finished
recording when the check runs. Transactions that a watermark computed between reading the snapshot
and registering has overlooked are outside the claim (`clean`, section 3). Theorems:
`ConflictRecords`, `SerializableCommits`.

`MvccInv`, in the same module, adds what the reads and merges rest on. Every delta record has the
place of its operation in the log (`RecordsLogged`), and an operation that took effect is either
still reachable as a record or merged (`Merged`). `MergedFirst`: the merged operations come before
every reachable record; `SplitApart`: what the watermark split off comes before what is left;
`ChainsOrdered`: within a list the records of an edge are in commit order, edges in `crossed`
excepted. From these `CsrExact`: the base page is what the merged operations make of the initial
graph. `MergeExact` alone is not inductive, because a merge applies a list to a page and is right
only if nothing merged is younger than the list (`LastDecides`: the last record of an edge in the
list then decides). For `SnapshotExact` the watermark matters: `MergedOld` says that nothing younger
than the snapshot of an undisturbed transaction is merged or about to be, which holds because exact
reader counts hold the watermark back; `SnapshotApplied` that no commit of its snapshot is still
being applied. Theorems: `NoDirtyReads`, `SnapshotReads`, `MergesExact`, for any number of
transactions, operations and consolidations. (The attempt to prove them found that the exception
`crossed` had been too narrow: two operations of one commit on the same edge, and merges of crossed
records that a fourth transaction still reads, lie outside the bounds of `txn_core`.)

`BufPoolProof`: `PoolInv` has the types and four groups of facts. `PinsExact`, `LatchExact` and
`OneWriter`: a frame's pin count and latch word are exactly the calls that pinned and latched it.
`ListsApart`: every frame is on one of the two lists, once, and the hand is on the LRU list.
`MapExact`, `Resident`, `OwnersApart`: a frame is free, being refilled by one call, or mapped under
the number it carries. `LoadersApart`, `CopiesApart`, `SearchesServed`, `ScansApart`, `Retiring` and `PlacesKnown`:
a page has one loader or one copier, lookups other than scans are of pages in service, a scan's load and
a copy are not of one number, and what a call found before it waited for a latch still holds when it
goes on. The facts that tie a number to one frame hold until a load has crossed a copy (`Apart`); pins,
latches and lists are exact also afterwards. `PageStays` alone is not inductive: a frame can be
evicted only when its counts are zero, which says that nobody uses it only if the counts are exact,
and eviction erases a mapping by page number, which unmaps the victim and nothing else only if no
second frame carries the number. `ContentInv` is about contents, as long as no race is recorded: a
cached page and a frame about to be mapped have the acknowledged content (`CachedCurrent`,
`FilledCurrent`), a page in service that is not cached is on disk or carried there by the one thread
that evicted it (`SavedCurrent`, `CarriedCurrent`), nobody writes back a page that was just read in
or copied (`NotOvertaken`), and a frame is clean from its write-back until the copy in it is marked
(`ClaimedClean`, `CopiedClean`). Theorems, for any number of threads, frames, pages, calls and
retirements and scans of any page number: `PoolPageStays`, `PoolOneCopy`, `PoolListsExact`,
`PoolReadsCurrent`. (`NotOvertaken` is not preserved by a copy to a re-used number whose last
content is still being written: the history `raced` did not have that race, and TLC confirms with
six calls, two more than `pool_core` makes, that a read then returns the old page.)

`ClosingProof`: `ClosingInv` follows a replaced version through the hands it passes. `VersionsApart`:
it is current, in the hand of its publisher, in the queue, with one reclamation thread, with the
hazard pointer library or deleted, and in one place only; a deleted one is in at most one callback.
`CountsExact`: the pending count is the number of versions replaced whose callback has not counted
them (`Outstanding`), the remaining count of a batch the number of its versions not yet taken from it
(`Unbatched`), and the page is freed, or about to be, by the one callback that emptied the batch.
`Orderly`: what close() relies on at each point. `CloseSafe` alone is not inductive: that the pool is
not used by a callback after its destruction rests on the threads being gone, that no callback
starts later on the pending count being zero, and that zero means nothing is left on the count being
exact and on publication being over, which the wait for the task group establishes because a task
is in the group, has ended early or is done. The last fails when a task may still be queued (run `close`), so the theorem
assumes that none is. Theorem: `ClosingSafety`, for any consolidations, reclamation threads and
readers.

`DeltaPagesProof`: `DeltaInv` has the types, `CallsSound` (where a call can be and the frame and
record it then has), `OneHolder` (a latch has one holder), `MapExact` (the page map has exactly the
pages in frames that no call is replacing), `NumbersFresh` (the number of a page being made is
nobody else's), `FramesApart` (a chain that lost no frame shares none with another), `OnePlace` (a record has
one place of one page, in every frame and in the file) and `RecordsKept`: a record of an insert that
returned is in the frame of its page, dirty unless the file has it too, or in the frame that a claim
is about to write back, or in the file (`KeptAt`). `RecordsReadable` alone is not inductive: a record
only in a clean frame is readable and lost at the next eviction, and one that the next claim moves
out is found in the file only if that claim's frame was the record's page. Theorem:
`DeltaRecordsReadable`, for any chains, frames, pages and records. (The attempt to prove it found
two faults in the history variables. `doubtful` exempted too little: with two records a page, a
flush can clear the flag of one returned record while another writer is between its store and its
mark, which the one-record pages of the run did not reach; it now asks for the marked
records the file lacks, `Unsaved`. And `taken` has to count the frame a call has in hand but not yet
linked, `InHand`.)

Only model-checked: all liveness (it needs fairness, which the prover cannot handle); the results
of the algorithms, builds and codecs of run `units`, which are defined by recursion over lists, rounds
or trees (induction over data); `FetchExact` of `DeltaPages`, for the same reason (it compares a
recursive walk of the chain with the sequence of its records).

## 5. Reading the project

`PROJECT.json` names for every definition the lines it stands for, and for every property of a
passing run a mutant: a variant of one mapped definition, kept beside it (`TakePinned` beside
`Evictable`, `CutClean` beside `Cut`), under which TLC finds the property violated. `hazards` lists
what is hard to test here, with the properties that would catch it going wrong.

## 6. Not modelled

* Never called by the engine: the `process_page_*`, `process_vertex_*` and `process_giant_*` helpers
  and `graph_sample_page` of `src/db_algorithm.cc`, `bw_paged_edge_scan`, the log file of the disk
  manager.
* Builds with `BWGRAPH_NEIGHBOR_COMPRESS` (the prefix varint codec of CSR pages, where slots are
  refused) and the timestamp array that transaction builds add to a page; the models follow the
  default build.
* Sequential containers and glue: in-memory graphs and edge lists, `small_graph`, the property store
  (one RocksDB call each), the orderings of `reorder.h` (any permutation is correct), file parsing,
  random sampling, configuration, logging, command line programs.
* The access sketch: relaxed counters and a floating-point ratio; what it decides is a
  nondeterministic choice in `Consolidation`. PageRank in floating point: `RoundMap` is exact.
* Single I/O operations are atomic per page; a torn page after a machine crash is not modelled, since
  the code has no recovery from one. Memory is sequentially consistent: the code uses acquire/release
  on the variables that carry a protocol.
