---------------------------- MODULE Consolidation ----------------------------
(***************************************************************************)
(* The copy-on-write consolidation protocol of Bw-Graph: writers prepend   *)
(* delta records to per-vertex chains, readers merge a CSR page with a     *)
(* chain, and SMO jobs fold the chain of a CSR page into replacement pages *)
(* while both keep running.                                                *)
(*                                                                         *)
(* Every action is one critical section of the code (vertex latch, entry   *)
(* latch or a single atomic); a writer keeps the vertex latch over several *)
(* actions, every other vertex-latch section is one action.  Delta record  *)
(* locations (delta page, index) are positions in the append-only sequence *)
(* recs; 0 is the invalid location.                                        *)
(***************************************************************************)
EXTENDS Naturals, Sequences, FiniteSets, FiniteSetsExt

CONSTANTS
  Writers,         \* threads calling insert_edge / delete_edge
  Readers,         \* threads calling read_neighbor_clone
  Vertices,        \* source vertices, all on CSR page 1 at the start
  Dsts,            \* neighbour ids
  BaseGraph,       \* adjacency stored in CSR page 1 at the start
  Ops,             \* the update calls the writers make
  NoWriter,        \* "vertex latch is free"
  ChainThreshold,  \* delta pages in a chain before a writer starts an SMO
  RecsPerPage,     \* delta records that fit in one delta page
  ManualSwitch,    \* smo_ctl_t::manual_version_switch_
  Failures,        \* what may throw for want of frames or room: the "read" of the page a
                   \* job is to replace, a new "delta" page, what a job does to "prepare"
                   \* its versions, the update of the "index" pages
  MaxPage,         \* bound: CSR page numbers
  MaxOps,          \* bound: update calls started
  MaxReads,        \* bound: read calls started
  MaxJob           \* bound: SMO jobs started

ASSUME ConsolidationAssumption ==
  /\ NoWriter \notin Writers
  /\ Ops \subseteq {"INSERT", "DELETE"}
  /\ BaseGraph \in [Vertices -> SUBSET Dsts]
  /\ ChainThreshold \in Nat \ {0}
  /\ RecsPerPage \in Nat \ {0}
  /\ ManualSwitch \in BOOLEAN
  /\ Failures \subseteq {"read", "delta", "prepare", "index"}
  /\ MaxPage \in Nat \ {0}
  /\ MaxOps \in Nat
  /\ MaxReads \in Nat
  /\ MaxJob \in Nat

ASSUME AbandonedAssumption == "abandoned" \notin Writers \cup {NoWriter}

Pages == 1 .. MaxPage
Jobs  == 1 .. MaxJob

VARIABLES
  csr,       \* CSR page -> adjacency of the vertices stored on it
  cur,       \* vertex -> current version: its page and the job that made it (0: load time)
  head,      \* vertex -> newest delta record (delta_heads_)
  vlatch,    \* vertex -> writer inside its latched section, or "abandoned" by a throw
  recs,      \* every delta record ever inserted
  chain,     \* CSR page -> record locations of its page_map entry, oldest first
  fwd,       \* CSR page -> job whose forwarder is installed on the entry, or 0
  claimed,   \* CSR page -> consolidating_ flag of the entry
  freeSlots, \* disk_manager_t::free_slots_
  nextPage,  \* disk_manager_t::global_page_count_
  job,       \* consolidate_pages invocations, in the order they were started
  njobs,     \* how many were started
  wr,        \* local state of the writers
  rd,        \* local state of the readers
  nops,      \* update calls started so far
  nreads,    \* read calls started so far
  pending,   \* pending_version_switches_: jobs built but not published
  switching, \* the list publish_pending_versions is working through
  hist       \* history: the abstract graph and the races that have happened

vars == <<csr, cur, head, vlatch, recs, chain, fwd, claimed, freeSlots,
          nextPage, job, njobs, wr, rd, nops, nreads, pending, switching, hist>>

wvars == <<wr, nops, vlatch>>
rvars == <<rd, nreads>>
pvars == <<csr, freeSlots, nextPage>>
svars == <<pending, switching, njobs>>

-----------------------------------------------------------------------------
(* Data helpers *)

Record(v, typ, d, nxt) == [src |-> v, typ |-> typ, dst |-> d, next |-> nxt]

\* Delta pages in a chain of n records (page_map_entry_t::delta_page_count).
PageCount(n) == (n + RecsPerPage - 1) \div RecsPerPage

get_delta_chain_length(p) == PageCount(Len(chain[p]))

\* Neighbours of v after the records ds, oldest first, on top of base: the
\* last record of a destination decides.
MergeOne(base, ds, v) ==
  {d \in Dsts :
     LET hits == {i \in DOMAIN ds : recs[ds[i]].src = v /\ recs[ds[i]].dst = d}
     IN  IF hits = {} THEN v \in DOMAIN base /\ d \in base[v]
         ELSE recs[ds[Max(hits)]].typ = "INSERT"}

\* smo_ctl_t::build_merged_graph: vertices of the page plus every vertex an
\* INSERT record names; a DELETE of an unknown vertex adds nothing.
build_merged_graph(base, ds) ==
  [v \in DOMAIN base \cup {recs[ds[i]].src : i \in {j \in DOMAIN ds : recs[ds[j]].typ = "INSERT"}}
     |-> MergeOne(base, ds, v)]

\* Locations on the chain that starts at record n, newest first.
Walk[n \in 0 .. Len(recs)] ==
  IF n = 0 THEN <<>> ELSE <<n>> \o Walk[recs[n].next]

\* page_delta_t::note_rerouted_tail: only the first record of a vertex counts.
NoteLastTail(tail, v, loc) == [tail EXCEPT ![v] = loc]
note_rerouted_tail(tail, v, loc) == IF tail[v] = 0 THEN [tail EXCEPT ![v] = loc] ELSE tail

\* What read_neighbor_clone would return for v if nothing else ran: the first
\* record of a destination decides, otherwise the CSR page does.
View(v) ==
  LET c    == Walk[head[v]]
      base == csr[cur[v].page]
  IN {d \in Dsts :
        LET hits == {i \in DOMAIN c : recs[c[i]].dst = d}
        IN  IF hits = {} THEN v \in DOMAIN base /\ d \in base[v]
            ELSE recs[c[Min(hits)]].typ = "INSERT"}

\* A map from vertices that holds nothing yet.
Nothing == [v \in {} |-> {}]

IdleWriter == [pc |-> "idle"]
IdleReader == [pc |-> "idle"]

NewJob(p) == [page |-> p, pc |-> "start", held |-> TRUE, ds |-> <<>>, graph |-> Nothing,
              loc |-> Nothing, expect |-> Nothing, stray |-> <<>>,
              tail |-> [v \in Vertices |-> 0], published |-> {}, freed |-> FALSE]

Live(k) == job[k].pc \notin {"none", "done", "threw", "failed"}

\* A CSR frame is pinned by the readers that latched it and by the jobs still
\* inside consolidate_pages.
Pinned(p) ==
  \/ \E r \in Readers : rd[r].pc # "idle" /\ rd[r].page = p
  \/ \E k \in Jobs : job[k].held /\ job[k].page = p

-----------------------------------------------------------------------------
Init ==
  /\ csr = [p \in Pages |-> IF p = 1 THEN BaseGraph ELSE Nothing]
  /\ cur = [v \in Vertices |-> [page |-> 1, by |-> 0]]
  /\ head = [v \in Vertices |-> 0]
  /\ vlatch = [v \in Vertices |-> NoWriter]
  /\ recs = <<>>
  /\ chain = [p \in Pages |-> <<>>]
  /\ fwd = [p \in Pages |-> 0]
  /\ claimed = [p \in Pages |-> FALSE]
  /\ freeSlots = <<>>
  /\ nextPage = 2
  /\ job = [k \in Jobs |-> [NewJob(1) EXCEPT !.pc = "none", !.held = FALSE]]
  /\ njobs = 0
  /\ wr = [w \in Writers |-> IdleWriter]
  /\ rd = [r \in Readers |-> IdleReader]
  /\ nops = 0
  /\ nreads = 0
  /\ pending = <<>>
  /\ switching = <<>>
  /\ hist = [graph |-> BaseGraph, races |-> {}, rerouted |-> {}, overtaken |-> {}]

-----------------------------------------------------------------------------
(* Writers: insert_edge and delete_edge *)

\* v_w_lock(src), then the protected version and the current head are read.
WriterLock(w, v, typ, d) ==
  /\ wr[w].pc = "idle" /\ nops < MaxOps
  /\ vlatch[v] = NoWriter
  /\ vlatch' = [vlatch EXCEPT ![v] = w]
  /\ wr' = [wr EXCEPT ![w] = [pc |-> "probe", v |-> v, typ |-> typ, d |-> d,
                              ver |-> cur[v], fwd |-> 0, rerouted |-> FALSE]]
  /\ nops' = nops + 1
  /\ UNCHANGED <<pvars, svars, rvars, cur, head, recs, chain, fwd, claimed, job, hist>>

\* insert_delta_with_forward, first half: one probe of the page's entry loads
\* the forwarder and looks the source vertex up in it.
WriterProbe(w) ==
  LET k == fwd[wr[w].ver.page]
  IN /\ wr[w].pc = "probe"
     /\ wr' = [wr EXCEPT ![w].pc = "append", ![w].fwd = k,
                         ![w].rerouted = k # 0 /\ wr[w].v \in DOMAIN job[k].loc]
     /\ UNCHANGED <<pvars, svars, rvars, cur, head, vlatch, recs, chain, fwd, claimed,
                    job, nops, hist>>

\* insert_delta_with_forward, second half: append to the chain of the chosen
\* page under its entry latch, note the boundary record of a rerouted vertex,
\* publish the new head and release the vertex latch.
WriterAppend(w) ==
  LET v   == wr[w].v
      k   == wr[w].fwd
      p   == IF wr[w].rerouted THEN job[k].loc[v] ELSE wr[w].ver.page
      loc == Len(recs) + 1
  IN /\ wr[w].pc = "append"
     /\ recs' = Append(recs, Record(v, wr[w].typ, wr[w].d, head[v]))
     /\ chain' = [chain EXCEPT ![p] = Append(@, loc)]
     /\ job' = IF wr[w].rerouted
               THEN [job EXCEPT ![k].tail = note_rerouted_tail(@, v, loc)] ELSE job
     /\ head' = [head EXCEPT ![v] = loc]
     /\ vlatch' = [vlatch EXCEPT ![v] = NoWriter]
     /\ wr' = [wr EXCEPT ![w].pc = IF wr[w].typ = "INSERT" THEN "check" ELSE "return"]
     /\ hist' = [hist EXCEPT !.graph[v] = IF wr[w].typ = "INSERT" THEN @ \cup {wr[w].d}
                                          ELSE @ \ {wr[w].d},
                             !.races = IF fwd[p] # 0 THEN @ \cup {"late append"} ELSE @,
                             !.rerouted = IF wr[w].rerouted THEN @ \cup {<<k, v, wr[w].d>>} ELSE @]
     /\ rd' = [r \in Readers |->
                 IF rd[r].pc # "idle" /\ rd[r].v = v
                 THEN [rd[r] EXCEPT !.in  = @ \cup hist'.graph[v],
                                    !.out = @ \cup (Dsts \ hist'.graph[v])]
                 ELSE rd[r]]
     /\ UNCHANGED <<pvars, svars, cur, fwd, claimed, nops, nreads>>

\* A new delta page is needed and its pool has no frame to give: the exception
\* leaves insert_delta_with_forward before anything is stored, and insert_edge or
\* delete_edge with the vertex latched for good.
WriterThrows(w) ==
  /\ wr[w].pc = "append" /\ "delta" \in Failures
  /\ vlatch' = [vlatch EXCEPT ![wr[w].v] = "abandoned"]
  /\ wr' = [wr EXCEPT ![w] = IdleWriter]
  /\ UNCHANGED <<pvars, svars, rvars, cur, head, recs, chain, fwd, claimed, job, nops, hist>>

\* insert_edge: below the threshold or rerouted, no consolidation is started.
WriterCheck(w) ==
  /\ wr[w].pc = "check"
  /\ wr' = [wr EXCEPT ![w].pc =
              IF get_delta_chain_length(wr[w].ver.page) < ChainThreshold \/ wr[w].rerouted
              THEN "return" ELSE "claim"]
  /\ UNCHANGED <<pvars, svars, rvars, cur, head, vlatch, recs, chain, fwd, claimed, job,
                 nops, hist>>

\* page_map_entry_t::try_begin_consolidation: the compare-exchange succeeds.
TryBeginUnguarded(p) == TRUE
try_begin_consolidation(p) == ~claimed[p]

\* The winner pins the old page and hands the job to the SMO arena: a job that
\* has not begun, since the writer protects the page's version all along.  When
\* buf_page_read throws after the exchange, the claim is taken back; the writer,
\* and any other that lost the exchange meanwhile, starts no job.
WriterClaim(w) ==
  LET p == wr[w].ver.page
  IN /\ wr[w].pc = "claim"
     /\ \/ /\ try_begin_consolidation(p) /\ njobs < MaxJob
           /\ claimed' = [claimed EXCEPT ![p] = TRUE]
           /\ job' = [job EXCEPT ![njobs + 1] = NewJob(p)]
           /\ njobs' = njobs + 1
        \/ /\ ~try_begin_consolidation(p) \/ njobs = MaxJob \/ "read" \in Failures
           /\ UNCHANGED <<claimed, job, njobs>>
     /\ wr' = [wr EXCEPT ![w].pc = "return"]
     /\ UNCHANGED <<pvars, rvars, cur, head, vlatch, recs, chain, fwd, nops, pending,
                    switching, hist>>

\* The call returns; only now is the hazard pointer to the version dropped.
WriterReturn(w) ==
  /\ wr[w].pc = "return"
  /\ wr' = [wr EXCEPT ![w] = IdleWriter]
  /\ UNCHANGED <<pvars, svars, rvars, cur, head, vlatch, recs, chain, fwd, claimed, job,
                 nops, hist>>

-----------------------------------------------------------------------------
(* Readers: read_neighbor_clone of a vertex that is not giant *)

\* Some strays of the edge were copied in front of newer ones that still wait
\* in the drained list.
Replaying(v, d) ==
  \E k \in Jobs :
    /\ job[k].pc = "strays" /\ job[k].tail[v] # 0
    /\ \E i \in DOMAIN job[k].stray :
         recs[job[k].stray[i]].src = v /\ recs[job[k].stray[i]].dst = d

\* read_neighbor_with_delta: under v_r_lock the page is latched (and pinned)
\* and the head is copied.
ReaderSnapshot(r, v) ==
  /\ rd[r].pc = "idle" /\ nreads < MaxReads
  /\ vlatch[v] = NoWriter
  /\ rd' = [rd EXCEPT ![r] = [pc |-> "walk", v |-> v, page |-> cur[v].page, at |-> head[v],
                              ins |-> {}, del |-> {}, in |-> hist.graph[v],
                              out |-> Dsts \ hist.graph[v],
                              torn |-> \E d \in Dsts : Replaying(v, d)]]
  /\ nreads' = nreads + 1
  /\ UNCHANGED <<pvars, svars, wvars, cur, head, recs, chain, fwd, claimed, job, hist>>

\* delta_seen: only the newest record of a destination counts.
SeenIgnored(r, d) == TRUE
FirstSeen(r, d) == d \notin rd[r].ins \cup rd[r].del

\* One record of the chain; the next link is followed as it is now.
ReaderStep(r) ==
  LET rec == recs[rd[r].at]
      new == FirstSeen(r, rec.dst)
  IN /\ rd[r].pc = "walk" /\ rd[r].at # 0
     /\ rd' = [rd EXCEPT ![r].at = rec.next,
                         ![r].ins = IF new /\ rec.typ = "INSERT" THEN @ \cup {rec.dst} ELSE @,
                         ![r].del = IF new /\ rec.typ = "DELETE" THEN @ \cup {rec.dst} ELSE @]
     /\ UNCHANGED <<pvars, svars, wvars, cur, head, recs, chain, fwd, claimed, job, nreads, hist>>

\* The list the caller gets: page neighbours not deleted, plus the inserts.
ReadResult(r) ==
  LET base == csr[rd[r].page]
      nbrs == IF rd[r].v \in DOMAIN base THEN base[rd[r].v] ELSE {}
  IN (nbrs \cup rd[r].ins) \ rd[r].del

ReaderFinish(r) ==
  /\ rd[r].pc = "walk" /\ rd[r].at = 0
  /\ rd' = [rd EXCEPT ![r] = IdleReader]
  /\ UNCHANGED <<pvars, svars, wvars, cur, head, recs, chain, fwd, claimed, job, nreads, hist>>

-----------------------------------------------------------------------------
(* SMO jobs: consolidate_pages *)

\* The exit guard of consolidate_pages releases the claim and the pin; it runs
\* on every return and on every exception.
EndJobKeepClaim(k, pc) ==
  /\ job' = [job EXCEPT ![k].pc = pc, ![k].held = FALSE]
  /\ UNCHANGED claimed
EndJob(k, pc) ==
  /\ job' = [job EXCEPT ![k].pc = pc, ![k].held = FALSE]
  /\ claimed' = IF job[k].held THEN [claimed EXCEPT ![job[k].page] = FALSE] ELSE claimed

\* fetch_deltas_with_mark resets the entry's chain (and hands out its records).
FetchWithoutReset(p) == chain
fetch_deltas_with_mark(p) == [chain EXCEPT ![p] = <<>>]

\* Threshold check and first fetch_deltas_with_mark.
SmoFetch(k) ==
  LET p == job[k].page
  IN /\ job[k].pc = "start"
     /\ IF get_delta_chain_length(p) < ChainThreshold
        THEN EndJob(k, "done") /\ UNCHANGED chain
        ELSE /\ job' = [job EXCEPT ![k].pc = "merge", ![k].ds = chain[p]]
             /\ chain' = fetch_deltas_with_mark(p)
             /\ UNCHANGED claimed
     /\ UNCHANGED <<pvars, svars, wvars, rvars, cur, head, recs, fwd, hist>>

\* build_merged_graph: the page is copied under its read latch and the fetched
\* records are applied; nothing to store ends the job.
SmoMerge(k) ==
  LET g == build_merged_graph(csr[job[k].page], job[k].ds)
  IN /\ job[k].pc = "merge"
     /\ IF DOMAIN g = {}
        THEN EndJob(k, "done")
        ELSE /\ job' = [job EXCEPT ![k].pc = "build", ![k].graph = g]
             /\ UNCHANGED claimed
     /\ UNCHANGED <<pvars, svars, wvars, rvars, cur, head, recs, chain, fwd, hist>>

\* disk_manager_t::allocate_page for n pages: freed slots first, last freed
\* first, then fresh page numbers.
allocate_page(n) ==
  LET f == Len(freeSlots)
      r == IF n <= f THEN n ELSE f
  IN [i \in 1 .. n |-> IF i <= r THEN freeSlots[f + 1 - i] ELSE nextPage + (i - r) - 1]

Allocated(n) ==
  LET f == Len(freeSlots)
  IN IF n <= f THEN freeSlots' = SubSeq(freeSlots, 1, f - n) /\ UNCHANGED nextPage
     ELSE freeSlots' = <<>> /\ nextPage' = nextPage + (n - f)

\* Vertices live on the page or are about to, or its frame is pinned.
InUse(p) ==
  \/ \E v \in DOMAIN cur : cur[v].page = p
  \/ \E k \in Jobs : Live(k) /\ \E v \in DOMAIN job[k].loc \ job[k].published :
                                        job[k].loc[v] = p
  \/ Pinned(p)

\* do_no_split / do_split: place the merged vertices on fresh pages and
\* prepare one version per vertex against the version that is current now.
\* buf_page_cp refuses a page number that is still resident, which only a page
\* that is in use can be.
SmoBuild(k, place) ==
  LET g   == job[k].graph
      n   == Cardinality({place[v] : v \in DOMAIN g})
      new == allocate_page(n)
      pgs == {new[i] : i \in 1 .. n}
  IN /\ job[k].pc = "build"
     /\ {place[v] : v \in DOMAIN g} = 1 .. n
     /\ pgs \subseteq Pages
     /\ Allocated(n)
     /\ \/ /\ csr' = [p \in Pages |->
                        IF p \in pgs
                        THEN [v \in {u \in DOMAIN g : new[place[u]] = p} |-> g[v]]
                        ELSE csr[p]]
           /\ job' = [job EXCEPT ![k].pc = "install",
                                 ![k].loc = [v \in DOMAIN g |-> new[place[v]]],
                                 ![k].expect = [v \in DOMAIN g |-> cur[v]]]
           /\ hist' = IF \A v \in DOMAIN g : cur[v].page = job[k].page THEN hist
                      ELSE [hist EXCEPT !.races = @ \cup {"early build"}]
           /\ UNCHANGED claimed
        \/ /\ \E p \in pgs : InUse(p)
           /\ EndJob(k, "failed")
           /\ UNCHANGED <<csr, hist>>
     /\ UNCHANGED <<svars, wvars, rvars, cur, head, recs, chain, fwd>>

\* The preparation throws after n pages: every frame is pinned or latched, a scan
\* has cached a page number that was free, a vertex does not fit an empty page or
\* a giant list cannot be stored.  The page numbers stay allocated, and the
\* fetched records are on no page's chain any more: a later job does not merge
\* them.
SmoThrow(k, n) ==
  /\ job[k].pc = "build" /\ "prepare" \in Failures
  /\ n <= Cardinality(DOMAIN job[k].graph)
  /\ \A i \in 1 .. n : allocate_page(n)[i] \in Pages
  /\ Allocated(n)
  /\ EndJob(k, "threw")
  /\ hist' = [hist EXCEPT !.races = @ \cup {"dropped"}]
  /\ UNCHANGED <<csr, svars, wvars, rvars, cur, head, recs, chain, fwd>>

SmoInstall(k) ==
  /\ job[k].pc = "install"
  /\ fwd' = [fwd EXCEPT ![job[k].page] = k]
  /\ job' = [job EXCEPT ![k].pc = "drain"]
  /\ UNCHANGED <<pvars, svars, wvars, rvars, cur, head, recs, chain, claimed, hist>>

\* Second fetch_deltas_with_mark: the records that reached the old chain since
\* the first one.
SmoDrain(k) ==
  LET p == job[k].page
  IN /\ job[k].pc = "drain"
     /\ job' = [job EXCEPT ![k].pc = "strays", ![k].stray = chain[p]]
     /\ chain' = fetch_deltas_with_mark(p)
     /\ UNCHANGED <<pvars, svars, wvars, rvars, cur, head, recs, fwd, claimed, hist>>

\* One stray record is copied to the chain of the vertex's new page and becomes
\* the new head; the first one of a vertex is noted as its boundary.  A stray
\* whose vertex has no new location makes the job throw; so does a delta page
\* that cannot be had, with the vertex latched and the forwarder left behind.
SmoStray(k) ==
  LET rec == recs[Head(job[k].stray)]
      v   == rec.src
      loc == Len(recs) + 1
  IN /\ job[k].pc = "strays" /\ job[k].stray # <<>>
     /\ \/ /\ v \notin DOMAIN job[k].loc
           /\ EndJob(k, "failed")
           /\ UNCHANGED <<vlatch, recs, chain, head, hist>>
        \/ /\ v \in DOMAIN job[k].loc /\ vlatch[v] = NoWriter
           /\ "delta" \in Failures
           /\ vlatch' = [vlatch EXCEPT ![v] = "abandoned"]
           /\ EndJob(k, "failed")
           /\ hist' = [hist EXCEPT !.races = @ \cup {"halted"}]
           /\ UNCHANGED <<recs, chain, head>>
        \/ /\ v \in DOMAIN job[k].loc /\ vlatch[v] = NoWriter
           /\ recs' = Append(recs, Record(v, rec.typ, rec.dst, head[v]))
           /\ chain' = [chain EXCEPT ![job[k].loc[v]] = Append(@, loc)]
           /\ head' = [head EXCEPT ![v] = loc]
           /\ job' = [job EXCEPT ![k].stray = Tail(@),
                                 ![k].tail = note_rerouted_tail(@, v, loc)]
           /\ hist' = IF <<k, v, rec.dst>> \in hist.rerouted
                      THEN [hist EXCEPT !.overtaken = @ \cup {<<v, rec.dst>>}] ELSE hist
           /\ UNCHANGED <<claimed, vlatch>>
     /\ UNCHANGED <<pvars, svars, wr, nops, rvars, cur, fwd>>

\* All strays rerouted: publish at once, or stage the switch and return.
SmoStage(k) ==
  /\ job[k].pc = "strays" /\ job[k].stray = <<>>
  /\ IF ManualSwitch
     THEN EndJob(k, "pending") /\ pending' = Append(pending, k)
     ELSE job' = [job EXCEPT ![k].pc = "final"] /\ UNCHANGED <<claimed, pending>>
  /\ UNCHANGED <<pvars, wvars, rvars, cur, head, recs, chain, fwd, switching, njobs, hist>>

\* publish_pending_versions: wait for the running jobs, except those whose arena
\* lambda has not put them into the task group yet, then take the list ...
PublishPending ==
  /\ pending # <<>> /\ switching = <<>>
  /\ \A k \in Jobs : Live(k) => job[k].pc \in {"pending", "start"}
  /\ switching' = pending
  /\ pending' = <<>>
  /\ UNCHANGED <<pvars, wvars, rvars, njobs, cur, head, recs, chain, fwd, claimed, job, hist>>

\* ... and publish the jobs on it one after the other.
PublishNext(k) ==
  /\ switching # <<>> /\ Head(switching) = k /\ job[k].pc = "pending"
  /\ job' = [job EXCEPT ![k].pc = "final"]
  /\ UNCHANGED <<pvars, svars, wvars, rvars, cur, head, recs, chain, fwd, claimed, hist>>

\* The reader's remaining walk loses its tail when record t is cut.
CutBy(r, t) ==
  /\ rd[r].pc # "idle" /\ recs[t].next # 0
  /\ t \in {Walk[rd[r].at][i] : i \in DOMAIN Walk[rd[r].at]}

truncate_chain_at(t) == [recs EXCEPT ![t].next = 0]

\* The head finalize leaves: the chain down to the boundary, or nothing when no
\* record was rerouted.
HeadDropped(k, v) == 0
FinalHead(k, v) == IF job[k].tail[v] # 0 THEN head[v] ELSE 0

\* finalize_consolidation for one vertex, under its write latch: cut the chain
\* at the boundary record (or drop the whole chain), then switch the version
\* with a compare-exchange against the one seen at build time.  A lost
\* exchange makes the job throw with the chain already dropped.
SmoFinalize(k, v) ==
  LET t == job[k].tail[v]
  IN /\ job[k].pc = "final" /\ v \in DOMAIN job[k].loc \ job[k].published
     /\ vlatch[v] = NoWriter
     /\ recs' = IF t # 0 THEN truncate_chain_at(t) ELSE recs
     /\ head' = [head EXCEPT ![v] = FinalHead(k, v)]
     /\ rd' = IF t # 0 THEN [r \in Readers |-> IF CutBy(r, t) THEN [rd[r] EXCEPT !.torn = TRUE]
                                               ELSE rd[r]]
              ELSE rd
     /\ IF cur[v] = job[k].expect[v]
        THEN /\ cur' = [cur EXCEPT ![v] = [page |-> job[k].loc[v], by |-> k]]
             /\ job' = [job EXCEPT ![k].published = @ \cup {v}]
             /\ UNCHANGED <<claimed, switching>>
        ELSE /\ EndJob(k, "failed")
             /\ switching' = <<>>
             /\ UNCHANGED cur
     /\ UNCHANGED <<pvars, wvars, nreads, njobs, chain, fwd, pending, hist>>

\* Every version is switched: detach the forwarder, update the index pages and
\* finish the job.  The update may throw; with a manual switch the jobs behind
\* this one on the list are then never published.
SmoDetach(k, pc) ==
  /\ job[k].pc = "final" /\ job[k].published = DOMAIN job[k].loc
  /\ pc = "threw" => "index" \in Failures
  /\ fwd' = [fwd EXCEPT ![job[k].page] = 0]
  /\ EndJob(k, pc)
  /\ switching' = IF ~ManualSwitch THEN switching
                  ELSE IF pc = "done" THEN Tail(switching) ELSE <<>>
  /\ UNCHANGED <<pvars, wvars, rvars, cur, head, recs, chain, njobs, pending, hist>>

\* The last replaced version of the job is reclaimed: no call still protects
\* one of them with a hazard pointer; retire_page succeeds once the frame is
\* unpinned, and the page number returns to the free slots.
ProtectsNothing(w, k) == FALSE
Protects(w, k) ==
  /\ wr[w].pc # "idle"
  /\ wr[w].v \in DOMAIN job[k].expect /\ wr[w].ver = job[k].expect[wr[w].v]

Reclaim(k) ==
  /\ job[k].published # {} /\ job[k].published = DOMAIN job[k].loc /\ ~job[k].freed
  /\ \A w \in Writers : ~Protects(w, k)
  /\ ~Pinned(job[k].page)
  /\ freeSlots' = Append(freeSlots, job[k].page)
  /\ job' = [job EXCEPT ![k].freed = TRUE]
  /\ UNCHANGED <<svars, wvars, rvars, csr, nextPage, cur, head, recs, chain, fwd, claimed, hist>>

-----------------------------------------------------------------------------
WriterStep(w) ==
  \/ WriterProbe(w) \/ WriterAppend(w) \/ WriterCheck(w) \/ WriterClaim(w)
  \/ WriterThrows(w) \/ WriterReturn(w)

\* bound: a job fills at most two pages
MaxParts == 2
Placements == [Vertices -> 1 .. MaxParts]

JobStep(k) ==
  \/ SmoFetch(k) \/ SmoMerge(k) \/ SmoInstall(k) \/ SmoDrain(k)
  \/ SmoStray(k) \/ SmoStage(k) \/ PublishNext(k)
  \/ \E pc \in {"done", "threw"} : SmoDetach(k, pc)
  \/ \E n \in 0 .. MaxParts : SmoThrow(k, n)
  \/ \E place \in Placements : SmoBuild(k, place)
  \/ \E v \in Vertices : SmoFinalize(k, v)

Next ==
  \/ \E w \in Writers, v \in Vertices, typ \in Ops, d \in Dsts : WriterLock(w, v, typ, d)
  \/ \E w \in Writers : WriterStep(w)
  \/ \E r \in Readers, v \in Vertices : ReaderSnapshot(r, v)
  \/ \E r \in Readers : ReaderStep(r) \/ ReaderFinish(r)
  \/ \E k \in Jobs : JobStep(k)
  \/ PublishPending
  \/ \E k \in Jobs : Reclaim(k)

Spec == Init /\ [][Next]_vars

-----------------------------------------------------------------------------
(* Properties *)

\* Functions from some of the vertices to S.
PartialTo(S) == UNION {[D -> S] : D \in SUBSET Vertices}

Versions == [page : Pages, by : 0 .. MaxJob]
Records == [src : Vertices, typ : {"INSERT", "DELETE"}, dst : Dsts, next : Nat]
JobType ==
  [page : Pages, held : BOOLEAN, freed : BOOLEAN,
   pc : {"none", "start", "merge", "build", "install", "drain", "strays", "pending", "final",
         "done", "threw", "failed"},
   ds : Seq(Nat), stray : Seq(Nat), graph : PartialTo(SUBSET Dsts), loc : PartialTo(Pages),
   expect : PartialTo(Versions), tail : [Vertices -> Nat], published : SUBSET Vertices]
Updating ==
  [pc : {"probe", "append", "check", "claim", "return"}, v : Vertices, typ : Ops, d : Dsts,
   ver : Versions, fwd : 0 .. MaxJob, rerouted : BOOLEAN]
Walking ==
  [pc : {"walk"}, v : Vertices, page : Pages, at : Nat, ins : SUBSET Dsts, del : SUBSET Dsts,
   in : SUBSET Dsts, out : SUBSET Dsts, torn : BOOLEAN]

Histories ==
  [graph : [Vertices -> SUBSET Dsts],
   races : SUBSET {"late append", "early build", "halted", "dropped"},
   rerouted : SUBSET (Jobs \X Vertices \X Dsts), overtaken : SUBSET (Vertices \X Dsts)]

PagesTyped ==
  /\ csr \in [Pages -> PartialTo(SUBSET Dsts)]
  /\ chain \in [Pages -> Seq(Nat)]
  /\ fwd \in [Pages -> 0 .. MaxJob]
  /\ claimed \in [Pages -> BOOLEAN]
  /\ freeSlots \in Seq(Pages)
  /\ nextPage \in Nat

VerticesTyped ==
  /\ cur \in [Vertices -> Versions]
  /\ head \in [Vertices -> Nat]
  /\ vlatch \in [Vertices -> Writers \cup {NoWriter, "abandoned"}]
  /\ recs \in Seq(Records)

JobsTyped ==
  /\ job \in [Jobs -> JobType]
  /\ njobs \in 0 .. MaxJob
  /\ pending \in Seq(Jobs)
  /\ switching \in Seq(Jobs)

CallsTyped ==
  /\ wr \in [Writers -> Updating \cup {IdleWriter}]
  /\ rd \in [Readers -> Walking \cup {IdleReader}]
  /\ nops \in Nat /\ nreads \in Nat
  /\ hist \in Histories

\* Heads, chains, boundaries and readers name records that exist, and a record
\* links to an older one.
LocsValid ==
  LET n == Len(recs)
  IN /\ \A i \in 1 .. n : recs[i].next < i
     /\ \A v \in Vertices : head[v] <= n
     /\ \A p \in Pages : \A i \in 1 .. Len(chain[p]) : chain[p][i] \in 1 .. n
     /\ \A k \in Jobs :
          /\ \A i \in 1 .. Len(job[k].ds) : job[k].ds[i] \in 1 .. n
          /\ \A i \in 1 .. Len(job[k].stray) : job[k].stray[i] \in 1 .. n
          /\ \A v \in Vertices : job[k].tail[v] <= n
     /\ \A r \in Readers : rd[r].pc = "walk" => rd[r].at <= n

\* Types of every variable.  The last part makes every delta chain acyclic and
\* free of dangling links, through appends, reroutes, strays and truncations.
TypeOK == PagesTyped /\ VerticesTyped /\ JobsTyped /\ CallsTyped /\ LocsValid

\* None of the events that upset the protocol has happened: a writer that probed
\* no forwarder appends to a chain that has been drained for good ("late
\* append"); a job prepares a version of a vertex that the previous job has not
\* moved to the page yet ("early build"); a job throws between two strays.
Healthy == hist.races \subseteq {"dropped"}

\* And no job has thrown away the records it had fetched.
Lossless == hist.races = {}

\* Consolidation is transparent: in every state, through every phase of every
\* job, a read of v sees exactly the effect of the acknowledged updates, for
\* each edge that no stray has overtaken and whose strays are not just being
\* copied (insert_edge, delete_edge, finalize_consolidation together with the
\* stray drain).  Writers that throw for want of a delta page and jobs that throw
\* after the switch change nothing in this; a preparation that throws does.
EdgesExact ==
  Lossless => \A v \in DOMAIN cur, d \in Dsts :
               \/ <<v, d>> \in hist.overtaken
               \/ Replaying(v, d)
               \/ d \in View(v) <=> d \in hist.graph[v]

\* A read that is about to return reports, for each edge, a state the edge had
\* at some moment of the call, unless finalize cut the chain it was walking
\* (read_neighbor_clone against concurrent jobs).
ReadsRegular ==
  \A r \in Readers :
    (Lossless /\ rd[r].pc = "walk" /\ rd[r].at = 0 /\ ~rd[r].torn) =>
      \A d \in Dsts :
        \/ <<rd[r].v, d>> \in hist.overtaken
        \/ IF d \in ReadResult(r) THEN d \in rd[r].in ELSE d \in rd[r].out

\* A consolidation throws where it runs short of something and nowhere else: every
\* version exchange wins, every stray finds its vertex, no page number that is
\* handed out is in use.  And a throw leaves nothing half done: all vertices of
\* the job are switched or none, and its forwarder is gone (consolidate_pages,
\* publish_version_switch, allocate_page).
JobsSucceed ==
  Healthy => \A k \in Jobs :
               /\ job[k].pc # "failed"
               /\ job[k].pc = "threw" => /\ job[k].published = DOMAIN job[k].loc
                                        /\ \A p \in Pages : fwd[p] # k

\* The consolidating_ flag of an entry is up exactly while one job, and only
\* one, is inside consolidate_pages for that page.
ClaimExclusive ==
  /\ \A k \in Jobs : job[k].held => claimed[job[k].page]
  /\ \A j, k \in Jobs : (job[j].held /\ job[k].held /\ job[j].page = job[k].page) => j = k
  /\ \A p \in Pages : claimed[p] => \E k \in Jobs : job[k].held /\ job[k].page = p

\* From installation to detachment a page's forwarder belongs to the job that
\* consolidates it: no other job replaces or detaches it.
ForwarderOwned ==
  Healthy => \A k \in Jobs : job[k].pc \in {"drain", "strays", "pending", "final"} =>
                                     fwd[job[k].page] = k

\* A page number goes back to the disk manager once, and only when nothing can
\* reach it: no vertex version, job, reader or leftover delta, and no forwarder
\* but that of a job that has switched all its versions and dropped its pin (a
\* manual switch detaches it later).
FreePagesUnreachable ==
  Healthy => /\ \A i, j \in DOMAIN freeSlots : freeSlots[i] = freeSlots[j] => i = j
             /\ \A i \in DOMAIN freeSlots :
                  LET p == freeSlots[i]
                  IN /\ ~InUse(p) /\ chain[p] = <<>>
                     /\ fwd[p] # 0 => /\ job[fwd[p]].published = DOMAIN job[fwd[p]].loc
                                      /\ ~job[fwd[p]].held

\* What must come to an end: a claim, and a replaced page that its finished job
\* has not handed back to the disk manager.
Claimed(p) == claimed[p]
Recyclable(k) == job[k].pc \in {"done", "threw"} /\ job[k].published # {} /\ ~job[k].freed

\* What the stress test asserts: an inserted edge that no one deleted is seen
\* by every later read, whatever consolidations run.
InsertsNeverLost == \A v \in Vertices : hist.graph[v] \subseteq View(v)
==============================================================================
