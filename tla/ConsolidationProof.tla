------------------------- MODULE ConsolidationProof -------------------------
(***************************************************************************)
(* Proofs about the consolidation protocol for every set of writers,       *)
(* readers, vertices and destinations and every bound, with the versions   *)
(* switched at once or by hand.  CInv carries the type invariant (with the *)
(* acyclicity of the delta chains) and the exclusivity of the              *)
(* consolidation claim.  ProtocolInv says how jobs, versions, forwarders,  *)
(* writers and free pages fit together as long as no recorded event but a  *)
(* thrown preparation has happened; from it follow that no job fails half  *)
(* way, the ownership of the forwarders and the safety of page reuse.      *)
(***************************************************************************)
EXTENDS Consolidation, SequenceTheorems, FiniteSetTheorems, TLAPS

\* Jobs that were not started are blank.
JobsInOrder ==
  \A k \in Jobs : k > njobs => job[k].pc = "none" /\ ~job[k].held

\* Vertices get their new location in the build phase, not before.
LocsInPhase ==
  \A k \in Jobs :
    /\ job[k].pc \in {"none", "start", "merge", "build"} => DOMAIN job[k].loc = {}
    /\ DOMAIN job[k].expect = DOMAIN job[k].loc

\* A rerouted writer still finds its vertex in the forwarder it probed.
RoutesResolve ==
  \A w \in Writers :
    (wr[w].pc # "idle" /\ wr[w].rerouted) =>
       wr[w].fwd \in Jobs /\ wr[w].v \in DOMAIN job[wr[w].fwd].loc

\* With a manual switch the job being published is the first of the list.
SwitchesInOrder ==
  ManualSwitch => \A k \in Jobs :
                    job[k].pc = "final" => switching # <<>> /\ Head(switching) = k

\* Only jobs that were started wait for their switch.
ListedStarted ==
  /\ \A i \in 1 .. Len(pending) : job[pending[i]].pc # "none"
  /\ \A i \in 1 .. Len(switching) : job[switching[i]].pc # "none"

\* The inductive invariant.
CInv ==
  /\ TypeOK
  /\ JobsInOrder
  /\ LocsInPhase
  /\ RoutesResolve
  /\ SwitchesInOrder
  /\ ListedStarted
  /\ ClaimExclusive

-----------------------------------------------------------------------------
(* Lemmas about the data types *)

JobPCs == {"none", "start", "merge", "build", "install", "drain", "strays", "pending", "final",
           "done", "threw", "failed"}

\* A partial function of the vertices, and back.
LEMMA PartialIntro ==
  ASSUME NEW S, NEW D \in SUBSET Vertices, NEW f \in [D -> S]
  PROVE  f \in PartialTo(S)
  BY DEF PartialTo

LEMMA PartialElim ==
  ASSUME NEW S, NEW f \in PartialTo(S)
  PROVE  /\ DOMAIN f \subseteq Vertices /\ f \in [DOMAIN f -> S]
         /\ \A v \in DOMAIN f : f[v] \in S
  BY DEF PartialTo

\* Setting one field of a job keeps it a job.
LEMMA SetPc ==
  ASSUME NEW j \in JobType, NEW x \in JobPCs
  PROVE  [j EXCEPT !.pc = x] \in JobType
  BY DEF JobType, JobPCs
LEMMA SetHeld ==
  ASSUME NEW j \in JobType, NEW x \in BOOLEAN
  PROVE  [j EXCEPT !.held = x] \in JobType
  BY DEF JobType
LEMMA SetLoc ==
  ASSUME NEW j \in JobType, NEW x \in PartialTo(Pages)
  PROVE  [j EXCEPT !.loc = x] \in JobType
  BY DEF JobType
LEMMA SetExpect ==
  ASSUME NEW j \in JobType, NEW x \in PartialTo(Versions)
  PROVE  [j EXCEPT !.expect = x] \in JobType
  BY DEF JobType
LEMMA SetGraph ==
  ASSUME NEW j \in JobType, NEW x \in PartialTo(SUBSET Dsts)
  PROVE  [j EXCEPT !.graph = x] \in JobType
  BY DEF JobType
LEMMA SetDs ==
  ASSUME NEW j \in JobType, NEW x \in Seq(Nat)
  PROVE  [j EXCEPT !.ds = x] \in JobType
  BY DEF JobType
LEMMA SetStray ==
  ASSUME NEW j \in JobType, NEW x \in Seq(Nat)
  PROVE  [j EXCEPT !.stray = x] \in JobType
  BY DEF JobType
LEMMA SetTail ==
  ASSUME NEW j \in JobType, NEW x \in [Vertices -> Nat]
  PROVE  [j EXCEPT !.tail = x] \in JobType
  BY DEF JobType
LEMMA SetPublished ==
  ASSUME NEW j \in JobType, NEW x \in SUBSET Vertices
  PROVE  [j EXCEPT !.published = x] \in JobType
  BY DEF JobType
LEMMA SetFreed ==
  ASSUME NEW j \in JobType, NEW x \in BOOLEAN
  PROVE  [j EXCEPT !.freed = x] \in JobType
  BY DEF JobType

\* A fresh job is a job.
LEMMA NewJobTyped ==
  ASSUME NEW p \in Pages
  PROVE  /\ NewJob(p) \in JobType
         /\ NewJob(p).page = p /\ NewJob(p).held /\ NewJob(p).pc = "start"
         /\ DOMAIN NewJob(p).loc = {} /\ DOMAIN NewJob(p).expect = {}
         /\ NewJob(p).ds = <<>> /\ NewJob(p).stray = <<>>
         /\ NewJob(p).tail = [v \in Vertices |-> 0]
<1>1. Nothing \in PartialTo(SUBSET Dsts) /\ Nothing \in PartialTo(Pages)
        /\ Nothing \in PartialTo(Versions)
  <2>1. Nothing \in [{} -> SUBSET Dsts] /\ Nothing \in [{} -> Pages] /\ Nothing \in [{} -> Versions]
    BY DEF Nothing
  <2>2. {} \in SUBSET Vertices
    OBVIOUS
  <2>3. QED
    BY <2>1, <2>2, PartialIntro
<1>2. [v \in Vertices |-> 0] \in [Vertices -> Nat] /\ {} \in SUBSET Vertices
  OBVIOUS
<1>3. NewJob(p) \in JobType
  BY <1>1, <1>2 DEF NewJob, JobType
<1>4. NewJob(p).loc = Nothing /\ NewJob(p).expect = Nothing /\ DOMAIN Nothing = {}
  BY DEF NewJob, Nothing
<1>5. QED
  BY <1>3, <1>4 DEF NewJob

-----------------------------------------------------------------------------
(* One job changes *)

\* The record locations a job holds name one of n records.
JobLocs(j, n) ==
  /\ \A i \in 1 .. Len(j.ds) : j.ds[i] \in 1 .. n
  /\ \A i \in 1 .. Len(j.stray) : j.stray[i] \in 1 .. n
  /\ \A v \in Vertices : j.tail[v] <= n

LEMMA JobLocsNow ==
  ASSUME CInv, NEW k \in Jobs
  PROVE  JobLocs(job[k], Len(recs))
  BY DEF CInv, TypeOK, LocsValid, JobLocs

LEMMA JobLocsGrow ==
  ASSUME NEW j \in JobType, NEW n \in Nat, NEW m \in Nat, n <= m, JobLocs(j, n)
  PROVE  JobLocs(j, m)
  BY DEF JobLocs, JobType

\* Job k becomes j, inside consolidate_pages or leaving it.
JobMove(k, j) ==
  /\ job' = [job EXCEPT ![k] = j]
  /\ j \in JobType
  /\ j.page = job[k].page
  /\ \/ j.held = job[k].held /\ UNCHANGED claimed
     \/ /\ ~j.held
        /\ claimed' = IF job[k].held THEN [claimed EXCEPT ![job[k].page] = FALSE] ELSE claimed
  /\ job[k].pc # "none" /\ j.pc # "none"
  /\ j.pc \in {"none", "start", "merge", "build"} => DOMAIN j.loc = {}
  /\ DOMAIN j.expect = DOMAIN j.loc
  /\ DOMAIN job[k].loc \subseteq DOMAIN j.loc
  /\ UNCHANGED njobs

LEMMA JobMoveClaims ==
  ASSUME CInv, NEW k \in Jobs, NEW j, JobMove(k, j)
  PROVE  claimed' \in [Pages -> BOOLEAN] /\ ClaimExclusive'
<1>1. job \in [Jobs -> JobType] /\ claimed \in [Pages -> BOOLEAN]
  BY DEF CInv, TypeOK, JobsTyped, PagesTyped
<1>2. \A i \in Jobs : job[i].page \in Pages /\ job[i].held \in BOOLEAN
  BY <1>1 DEF JobType
<1>3. job'[k] = j /\ \A i \in Jobs \ {k} : job'[i] = job[i]
  BY <1>1 DEF JobMove
<1>4. \A i \in Jobs : job'[i].page = job[i].page
  BY <1>3 DEF JobMove
<1>5. CASE j.held = job[k].held /\ UNCHANGED claimed
  <2>1. \A i \in Jobs : job'[i].held = job[i].held
    BY <1>3, <1>5
  <2>2. QED
    BY <1>1, <1>4, <1>5, <2>1 DEF CInv, ClaimExclusive
<1>6. CASE ~j.held /\ ~job[k].held /\ claimed' = claimed
  <2>1. \A i \in Jobs : job'[i].held <=> job[i].held
    BY <1>3, <1>6
  <2>2. QED
    BY <1>1, <1>4, <1>6, <2>1 DEF CInv, ClaimExclusive
<1>7. CASE /\ ~j.held /\ job[k].held
           /\ claimed' = [claimed EXCEPT ![job[k].page] = FALSE]
  <2>1. \A i \in Jobs : job'[i].held <=> i # k /\ job[i].held
    BY <1>3, <1>7
  <2>2. \A i \in Jobs : i # k /\ job[i].held => job[i].page # job[k].page
    BY <1>7 DEF CInv, ClaimExclusive
  <2>3. \A q \in Pages : claimed'[q] <=> q # job[k].page /\ claimed[q]
    BY <1>1, <1>2, <1>7
  <2>4. claimed' \in [Pages -> BOOLEAN]
    BY <1>1, <1>7
  <2>5. \A i \in Jobs : job'[i].held => claimed'[job'[i].page]
    BY <1>2, <1>4, <2>1, <2>2, <2>3 DEF CInv, ClaimExclusive
  <2>6. \A i, l \in Jobs : (job'[i].held /\ job'[l].held /\ job'[i].page = job'[l].page) => i = l
    BY <1>4, <2>1 DEF CInv, ClaimExclusive
  <2>7. \A q \in Pages : claimed'[q] => \E i \in Jobs : job'[i].held /\ job'[i].page = q
    <3> SUFFICES ASSUME NEW q \in Pages, claimed'[q]
                 PROVE  \E i \in Jobs : job'[i].held /\ job'[i].page = q
      OBVIOUS
    <3>1. PICK i \in Jobs : job[i].held /\ job[i].page = q
      BY <2>3 DEF CInv, ClaimExclusive
    <3>2. QED
      BY <1>4, <2>1, <2>3, <3>1
  <2>8. QED
    BY <2>4, <2>5, <2>6, <2>7 DEF ClaimExclusive
<1>8. QED
  BY <1>2, <1>5, <1>6, <1>7 DEF JobMove

LEMMA JobMoveKeeps ==
  ASSUME CInv, NEW k \in Jobs, NEW j, JobMove(k, j)
  PROVE  /\ job' \in [Jobs -> JobType] /\ njobs' \in 0 .. MaxJob
         /\ JobsInOrder' /\ LocsInPhase'
         /\ \A i \in Jobs : DOMAIN job[i].loc \subseteq DOMAIN job'[i].loc
         /\ \A i \in Jobs : job'[i] = IF i = k THEN j ELSE job[i]
<1>1. job \in [Jobs -> JobType] /\ njobs \in 0 .. MaxJob
  BY DEF CInv, TypeOK, JobsTyped
<1>2. \A i \in Jobs : job'[i] = IF i = k THEN j ELSE job[i]
  BY <1>1 DEF JobMove
<1>3. job' \in [Jobs -> JobType] /\ njobs' \in 0 .. MaxJob
  BY <1>1 DEF JobMove
<1>4. JobsInOrder'
  BY <1>2 DEF CInv, JobsInOrder, JobMove
<1>5. LocsInPhase'
  BY <1>2 DEF CInv, LocsInPhase, JobMove
<1>6. \A i \in Jobs : DOMAIN job[i].loc \subseteq DOMAIN job'[i].loc
  BY <1>2 DEF JobMove
<1>7. QED
  BY <1>2, <1>3, <1>4, <1>5, <1>6, Zenon

\* The locations of all jobs stay valid when the moved one's are.
LEMMA JobMoveLocs ==
  ASSUME CInv, NEW k \in Jobs, NEW j, JobMove(k, j), NEW n \in Nat, Len(recs) <= n,
         JobLocs(j, n)
  PROVE  \A i \in Jobs : JobLocs(job'[i], n)
<1>1. \A i \in Jobs : job[i] \in JobType /\ Len(recs) \in Nat
  BY DEF CInv, TypeOK, JobsTyped, VerticesTyped
<1>2. \A i \in Jobs : JobLocs(job[i], n)
  BY <1>1, JobLocsNow, JobLocsGrow
<1>3. QED
  BY <1>2, JobMoveKeeps

\* A switch list that stays keeps its order unless a job enters "final".
LEMMA SwitchesKept ==
  ASSUME CInv, NEW k \in Jobs, NEW j, JobMove(k, j), UNCHANGED switching,
         j.pc = "final" => job[k].pc = "final" \/ ~ManualSwitch
  PROVE  SwitchesInOrder'
  BY JobMoveKeeps DEF CInv, SwitchesInOrder

\* Started jobs stay started.
LEMMA ListedKept ==
  ASSUME CInv, NEW k \in Jobs, NEW j, JobMove(k, j),
         pending' \in {pending, Append(pending, k)}, switching' \in {switching, <<>>}
  PROVE  ListedStarted'
<1>1. \A i \in Jobs : job[i].pc # "none" => job'[i].pc # "none"
  BY JobMoveKeeps DEF JobMove
<1>2. pending \in Seq(Jobs) /\ switching \in Seq(Jobs)
  BY DEF CInv, TypeOK, JobsTyped
<1>3. job[k].pc # "none"
  BY DEF JobMove
<1>4. \A i \in 1 .. Len(pending') : job'[pending'[i]].pc # "none"
  <2>1. CASE pending' = pending
    BY <1>1, <1>2, <2>1 DEF CInv, ListedStarted
  <2>2. CASE pending' = Append(pending, k)
    <3> SUFFICES ASSUME NEW i \in 1 .. Len(pending') PROVE job'[pending'[i]].pc # "none"
      OBVIOUS
    <3>1. CASE i = Len(pending) + 1
      BY <1>1, <1>2, <1>3, <2>2, <3>1
    <3>2. CASE i \in 1 .. Len(pending)
      <4>1. pending'[i] = pending[i] /\ pending[i] \in Jobs
        BY <1>2, <2>2, <3>2
      <4>2. QED
        BY <1>1, <3>2, <4>1 DEF CInv, ListedStarted
    <3>3. QED
      BY <1>2, <2>2, <3>1, <3>2
  <2>3. QED
    BY <2>1, <2>2
<1>5. \A i \in 1 .. Len(switching') : job'[switching'[i]].pc # "none"
  BY <1>1, <1>2 DEF CInv, ListedStarted
<1>6. QED
  BY <1>4, <1>5 DEF ListedStarted

\* Writers that stay keep their routes.
LEMMA RoutesStay ==
  ASSUME CInv, NEW k \in Jobs, NEW j, JobMove(k, j), UNCHANGED wr
  PROVE  RoutesResolve'
  BY JobMoveKeeps DEF CInv, RoutesResolve

-----------------------------------------------------------------------------
(* One record is appended *)

LEMMA AppendRecord ==
  ASSUME CInv, NEW v \in Vertices, NEW typ \in {"INSERT", "DELETE"}, NEW d \in Dsts,
         NEW p \in Pages,
         recs' = Append(recs, Record(v, typ, d, head[v])),
         chain' = [chain EXCEPT ![p] = Append(@, Len(recs) + 1)],
         head' = [head EXCEPT ![v] = Len(recs) + 1]
  PROVE  /\ recs' \in Seq(Records) /\ Len(recs) \in Nat /\ Len(recs') = Len(recs) + 1
         /\ chain' \in [Pages -> Seq(Nat)] /\ head' \in [Vertices -> Nat]
         /\ \A i \in 1 .. Len(recs') : recs'[i].next < i
         /\ \A u \in Vertices : head'[u] <= Len(recs')
         /\ \A q \in Pages : \A i \in 1 .. Len(chain'[q]) : chain'[q][i] \in 1 .. Len(recs')
<1> DEFINE rec == Record(v, typ, d, head[v])
           n == Len(recs)
<1>1. recs \in Seq(Records) /\ n \in Nat /\ head \in [Vertices -> Nat] /\ chain \in [Pages -> Seq(Nat)]
  BY DEF CInv, TypeOK, VerticesTyped, PagesTyped
<1>2. rec \in Records /\ rec.next = head[v] /\ head[v] <= n
  BY <1>1 DEF CInv, TypeOK, LocsValid, Record, Records
<1> HIDE DEF rec
<1>3. recs' = Append(recs, rec)
  BY DEF rec
<1>4. recs' \in Seq(Records) /\ Len(recs') = n + 1
  BY <1>1, <1>2, <1>3
<1>5. \A i \in 1 .. Len(recs') : recs'[i].next < i
  <2> SUFFICES ASSUME NEW i \in 1 .. Len(recs') PROVE recs'[i].next < i
    OBVIOUS
  <2>1. CASE i = n + 1
    BY <1>1, <1>2, <1>3, <2>1
  <2>2. CASE i \in 1 .. n
    <3>1. recs'[i] = recs[i]
      BY <1>1, <1>3, <2>2
    <3>2. QED
      BY <2>2, <3>1 DEF CInv, TypeOK, LocsValid
  <2>3. QED
    BY <1>1, <1>4, <2>1, <2>2
<1>6. head' \in [Vertices -> Nat] /\ \A u \in Vertices : head'[u] <= Len(recs')
  BY <1>1, <1>4 DEF CInv, TypeOK, LocsValid
<1>7. chain' \in [Pages -> Seq(Nat)]
  BY <1>1
<1>8. \A q \in Pages : \A i \in 1 .. Len(chain'[q]) : chain'[q][i] \in 1 .. Len(recs')
  <2> SUFFICES ASSUME NEW q \in Pages, NEW i \in 1 .. Len(chain'[q])
               PROVE  chain'[q][i] \in 1 .. Len(recs')
    OBVIOUS
  <2>1. chain[q] \in Seq(Nat) /\ \A m \in 1 .. Len(chain[q]) : chain[q][m] \in 1 .. n
    BY <1>1 DEF CInv, TypeOK, LocsValid
  <2>2. CASE q = p
    <3>1. chain'[q] = Append(chain[q], n + 1)
      BY <1>1, <2>2
    <3>2. CASE i \in 1 .. Len(chain[q])
      BY <1>1, <1>4, <2>1, <3>1, <3>2
    <3>3. CASE i = Len(chain[q]) + 1
      BY <1>1, <1>4, <2>1, <3>1, <3>3
    <3>4. QED
      BY <2>1, <3>1, <3>2, <3>3
  <2>3. CASE q # p
    BY <1>1, <1>4, <2>1, <2>3
  <2>4. QED
    BY <2>2, <2>3
<1>9. QED
  BY <1>1, <1>4, <1>5, <1>6, <1>7, <1>8

\* Noting the boundary of a vertex in the forwarder of job k.
LEMMA NoteTailMove ==
  ASSUME CInv, NEW k \in Jobs, NEW v \in DOMAIN job[k].loc, v \in Vertices, NEW loc \in Nat,
         Len(recs) <= loc, job' = [job EXCEPT ![k].tail = note_rerouted_tail(@, v, loc)],
         UNCHANGED <<claimed, njobs>>
  PROVE  LET j == [job[k] EXCEPT !.tail = note_rerouted_tail(job[k].tail, v, loc)]
         IN  JobMove(k, j) /\ JobLocs(j, loc) /\ j.pc = job[k].pc
<1> DEFINE t == note_rerouted_tail(job[k].tail, v, loc)
           j == [job[k] EXCEPT !.tail = t]
<1>1. job[k] \in JobType
  BY DEF CInv, TypeOK, JobsTyped
<1>2. job[k].tail \in [Vertices -> Nat] /\ Len(recs) \in Nat
  BY <1>1 DEF CInv, TypeOK, VerticesTyped, JobType
<1>3. JobLocs(job[k], loc)
  BY <1>1, <1>2, JobLocsNow, JobLocsGrow
<1>4. t \in [Vertices -> Nat] /\ \A u \in Vertices : t[u] <= loc
  <2>1. \A u \in Vertices : job[k].tail[u] <= loc
    BY <1>3 DEF JobLocs
  <2>2. QED
    BY <1>2, <2>1 DEF note_rerouted_tail
<1>5. job' = [job EXCEPT ![k] = j]
  OBVIOUS
<1> HIDE DEF t
<1>6. j \in JobType
  BY <1>1, <1>4, SetTail
<1>7. /\ j.page = job[k].page /\ j.held = job[k].held /\ j.pc = job[k].pc /\ j.loc = job[k].loc
      /\ j.expect = job[k].expect /\ j.ds = job[k].ds /\ j.stray = job[k].stray /\ j.tail = t
  BY <1>1 DEF JobType
<1> HIDE DEF j
<1>8. job[k].pc # "none" /\ DOMAIN job[k].expect = DOMAIN job[k].loc
  BY DEF CInv, LocsInPhase
<1>9. JobMove(k, j)
  BY <1>5, <1>6, <1>7, <1>8 DEF JobMove, CInv, LocsInPhase
<1>10. JobLocs(j, loc)
  BY <1>3, <1>4, <1>7 DEF JobLocs
<1>11. QED
  BY <1>7, <1>9, <1>10 DEF j, t

-----------------------------------------------------------------------------
(* Readers *)

\* A reader inside a call, and one outside.
LEMMA ReaderCases ==
  ASSUME CallsTyped, NEW r \in Readers
  PROVE  /\ rd[r].pc = "walk" <=> rd[r] \in Walking
         /\ rd[r].pc = "idle" <=> rd[r] = IdleReader
         /\ rd[r].pc \in {"idle", "walk"}
<1>1. rd[r] \in Walking \cup {IdleReader}
  BY DEF CallsTyped
<1>2. rd[r] \in Walking => rd[r].pc = "walk"
  BY DEF Walking
<1>3. IdleReader.pc = "idle"
  BY DEF IdleReader
<1>4. QED
  BY <1>1, <1>2, <1>3

\* One reader moves, to a record of the chain or out of the call.
LEMMA ReaderMoves ==
  ASSUME CInv, NEW r \in Readers, NEW x \in Walking \cup {IdleReader},
         rd' = [rd EXCEPT ![r] = x], x \in Walking => x.at <= Len(recs), nreads' \in Nat,
         UNCHANGED <<pvars, svars, wvars, cur, head, recs, chain, fwd, claimed, job, hist>>
  PROVE  CInv'
<1>1. PagesTyped' /\ VerticesTyped' /\ JobsTyped'
  BY DEF CInv, TypeOK, PagesTyped, VerticesTyped, JobsTyped, pvars, svars, wvars
<1>2. CallsTyped'
  BY DEF CInv, TypeOK, CallsTyped, wvars
<1>3. \A q \in Readers : rd'[q].pc = "walk" => rd'[q].at <= Len(recs)
  <2>1. x.pc = "walk" => x \in Walking
    BY DEF IdleReader
  <2>2. QED
    BY <2>1 DEF CInv, TypeOK, LocsValid, CallsTyped
<1>4. LocsValid'
  BY <1>3 DEF CInv, TypeOK, LocsValid
<1>5. /\ JobsInOrder' /\ LocsInPhase' /\ RoutesResolve' /\ SwitchesInOrder' /\ ListedStarted'
      /\ ClaimExclusive'
  BY DEF CInv, JobsInOrder, LocsInPhase, RoutesResolve, SwitchesInOrder, ListedStarted,
     ClaimExclusive, svars, wvars
<1>6. QED
  BY <1>1, <1>2, <1>4, <1>5 DEF CInv, TypeOK

LEMMA ReaderSnapshotCInv ==
  ASSUME CInv, NEW r \in Readers, NEW v \in Vertices, ReaderSnapshot(r, v)
  PROVE  CInv'
<1> DEFINE x == [pc |-> "walk", v |-> v, page |-> cur[v].page, at |-> head[v],
                 ins |-> {}, del |-> {}, in |-> hist.graph[v], out |-> Dsts \ hist.graph[v],
                 torn |-> \E d \in Dsts : Replaying(v, d)]
<1>1. x \in Walking /\ x.at <= Len(recs)
  BY DEF CInv, TypeOK, VerticesTyped, CallsTyped, LocsValid, Walking, Versions, Histories
<1>2. rd' = [rd EXCEPT ![r] = x]
  BY DEF ReaderSnapshot
<1>3. nreads' \in Nat
  <2>1. nreads \in Nat
    BY DEF CInv, TypeOK, CallsTyped
  <2>2. nreads' = nreads + 1
    BY DEF ReaderSnapshot
  <2>3. QED
    BY <2>1, <2>2
<1>4. QED
  BY <1>1, <1>2, <1>3, ReaderMoves DEF ReaderSnapshot

LEMMA ReaderStepCInv ==
  ASSUME CInv, NEW r \in Readers, ReaderStep(r)
  PROVE  CInv'
<1> DEFINE rec == recs[rd[r].at]
           new == FirstSeen(r, rec.dst)
           ins == IF new /\ rec.typ = "INSERT" THEN rd[r].ins \cup {rec.dst} ELSE rd[r].ins
           del == IF new /\ rec.typ = "DELETE" THEN rd[r].del \cup {rec.dst} ELSE rd[r].del
           x == [rd[r] EXCEPT !.at = rec.next, !.ins = ins, !.del = del]
<1>1. rd[r] \in Walking /\ rd[r].at \in 1 .. Len(recs)
  BY ReaderCases DEF CInv, TypeOK, LocsValid, ReaderStep, Walking
<1>2. rec \in Records /\ rec.next < rd[r].at
  BY <1>1 DEF CInv, TypeOK, VerticesTyped, LocsValid
<1>3. rec.next \in Nat /\ rec.dst \in Dsts
  BY <1>2 DEF Records
<1>4. ins \in SUBSET Dsts /\ del \in SUBSET Dsts
  BY <1>1, <1>3 DEF Walking
<1> HIDE DEF ins, del
<1>5. x \in Walking /\ x.at = rec.next
  BY <1>1, <1>3, <1>4 DEF Walking
<1>6. rd' = [rd EXCEPT ![r] = x]
  BY DEF ReaderStep, ins, del
<1>7. x.at <= Len(recs) /\ nreads' \in Nat
  <2>1. Len(recs) \in Nat
    BY DEF CInv, TypeOK, VerticesTyped
  <2>2. nreads' \in Nat
    BY DEF CInv, TypeOK, CallsTyped, ReaderStep
  <2> HIDE DEF rec, x
  <2>3. QED
    BY <1>1, <1>2, <1>3, <1>5, <2>1, <2>2
<1>8. QED
  BY <1>5, <1>6, <1>7, ReaderMoves DEF ReaderStep

LEMMA ReaderFinishCInv ==
  ASSUME CInv, NEW r \in Readers, ReaderFinish(r)
  PROVE  CInv'
<1>1. IdleReader \notin Walking
  BY DEF IdleReader, Walking
<1>2. QED
  BY <1>1, ReaderMoves DEF ReaderFinish, CInv, TypeOK, CallsTyped

-----------------------------------------------------------------------------
(* Writers *)

\* A writer inside a call, and one outside.
LEMMA WriterCases ==
  ASSUME CallsTyped, NEW w \in Writers
  PROVE  /\ wr[w].pc # "idle" <=> wr[w] \in Updating
         /\ wr[w].pc = "idle" <=> wr[w] = IdleWriter
<1>1. wr[w] \in Updating \cup {IdleWriter}
  BY DEF CallsTyped
<1>2. wr[w] \in Updating => wr[w].pc # "idle"
  BY DEF Updating
<1>3. IdleWriter.pc = "idle"
  BY DEF IdleWriter
<1>4. QED
  BY <1>1, <1>2, <1>3

\* What a writer inside a call carries.
LEMMA WriterFields ==
  ASSUME CInv, NEW w \in Writers, wr[w].pc # "idle"
  PROVE  /\ wr[w] \in Updating
         /\ wr[w].v \in Vertices /\ wr[w].d \in Dsts /\ wr[w].typ \in {"INSERT", "DELETE"}
         /\ wr[w].ver.page \in Pages /\ wr[w].fwd \in 0 .. MaxJob
         /\ wr[w].rerouted \in BOOLEAN
<1>1. wr[w] \in Updating
  BY WriterCases DEF CInv, TypeOK
<1>2. QED
  BY <1>1, ConsolidationAssumption DEF Updating, Versions

\* Advancing the program counter of a writer changes nothing else of it.
LEMMA WriterPc ==
  ASSUME NEW c \in Updating, NEW q \in {"probe", "append", "check", "claim", "return"}
  PROVE  /\ [c EXCEPT !.pc = q] \in Updating
         /\ [c EXCEPT !.pc = q].v = c.v /\ [c EXCEPT !.pc = q].fwd = c.fwd
         /\ [c EXCEPT !.pc = q].rerouted = c.rerouted
  BY DEF Updating

\* The routes of the other writers stay resolved when one writer moves.
LEMMA RoutesKept ==
  ASSUME CInv, NEW w \in Writers, NEW x \in Updating \cup {IdleWriter},
         wr' = [wr EXCEPT ![w] = x],
         (x \in Updating /\ x.rerouted) => x.fwd \in Jobs /\ x.v \in DOMAIN job[x.fwd].loc,
         \A k \in Jobs : DOMAIN job[k].loc \subseteq DOMAIN job'[k].loc
  PROVE  RoutesResolve'
<1>1. x.pc # "idle" => x \in Updating
  BY DEF IdleWriter
<1>2. \A u \in Writers : wr'[u] = IF u = w THEN x ELSE wr[u]
  BY DEF CInv, TypeOK, CallsTyped
<1>3. SUFFICES ASSUME NEW u \in Writers, wr'[u].pc # "idle" /\ wr'[u].rerouted
               PROVE  wr'[u].fwd \in Jobs /\ wr'[u].v \in DOMAIN job'[wr'[u].fwd].loc
  BY DEF RoutesResolve
<1>4. CASE u = w
  BY <1>1, <1>2, <1>3, <1>4
<1>5. CASE u # w
  BY <1>2, <1>3, <1>5 DEF CInv, RoutesResolve
<1>6. QED
  BY <1>4, <1>5

\* A writer moves without touching the shared structures.
LEMMA WriterMoves ==
  ASSUME CInv, NEW w \in Writers, NEW x \in Updating \cup {IdleWriter},
         wr' = [wr EXCEPT ![w] = x],
         (x \in Updating /\ x.rerouted) => x.fwd \in Jobs /\ x.v \in DOMAIN job[x.fwd].loc,
         vlatch' \in [Vertices -> Writers \cup {NoWriter, "abandoned"}], nops' \in Nat,
         UNCHANGED <<pvars, svars, rvars, cur, head, recs, chain, fwd, claimed, job, hist>>
  PROVE  CInv'
<1>1. PagesTyped' /\ VerticesTyped' /\ JobsTyped'
  BY DEF CInv, TypeOK, PagesTyped, VerticesTyped, JobsTyped, pvars, svars, rvars
<1>2. CallsTyped'
  BY DEF CInv, TypeOK, CallsTyped, rvars
<1>3. LocsValid'
  BY DEF CInv, TypeOK, LocsValid, rvars
<1>4. RoutesResolve'
  BY RoutesKept
<1>5. JobsInOrder' /\ LocsInPhase' /\ SwitchesInOrder' /\ ListedStarted' /\ ClaimExclusive'
  BY DEF CInv, JobsInOrder, LocsInPhase, SwitchesInOrder, ListedStarted, ClaimExclusive, svars
<1>6. QED
  BY <1>1, <1>2, <1>3, <1>4, <1>5 DEF CInv, TypeOK

LEMMA WriterLockCInv ==
  ASSUME CInv, NEW w \in Writers, NEW v \in Vertices, NEW typ \in Ops, NEW d \in Dsts,
         WriterLock(w, v, typ, d)
  PROVE  CInv'
<1> DEFINE x == [pc |-> "probe", v |-> v, typ |-> typ, d |-> d, ver |-> cur[v], fwd |-> 0,
                 rerouted |-> FALSE]
<1>1. cur[v] \in Versions /\ 0 \in 0 .. MaxJob
  BY ConsolidationAssumption DEF CInv, TypeOK, VerticesTyped
<1>2. x \in Updating /\ ~x.rerouted
  BY <1>1 DEF Updating
<1>3. wr' = [wr EXCEPT ![w] = x]
  BY DEF WriterLock
<1>4. vlatch' \in [Vertices -> Writers \cup {NoWriter, "abandoned"}]
  BY DEF CInv, TypeOK, VerticesTyped, WriterLock
<1>5. nops' \in Nat
  <2>1. nops \in Nat
    BY DEF CInv, TypeOK, CallsTyped
  <2>2. nops' = nops + 1
    BY DEF WriterLock
  <2>3. QED
    BY <2>1, <2>2
<1> HIDE DEF x
<1>6. QED
  BY <1>2, <1>3, <1>4, <1>5, WriterMoves DEF WriterLock

LEMMA WriterProbeCInv ==
  ASSUME CInv, NEW w \in Writers, WriterProbe(w)
  PROVE  CInv'
<1> DEFINE k == fwd[wr[w].ver.page]
           b == k # 0 /\ wr[w].v \in DOMAIN job[k].loc
           x == [wr[w] EXCEPT !.pc = "append", !.fwd = k, !.rerouted = b]
<1>1. wr[w] \in Updating /\ wr[w].ver.page \in Pages
  BY WriterFields DEF WriterProbe
<1>2. k \in 0 .. MaxJob
  BY <1>1 DEF CInv, TypeOK, PagesTyped
<1>3. b \in BOOLEAN
  OBVIOUS
<1>4. b => k \in Jobs /\ wr[w].v \in DOMAIN job[k].loc
  BY <1>2, ConsolidationAssumption DEF Jobs
<1>5. wr' = [wr EXCEPT ![w] = x]
  BY DEF WriterProbe
<1> HIDE DEF k, b
<1>6. x \in Updating /\ x.fwd = k /\ x.rerouted = b /\ x.v = wr[w].v
  BY <1>1, <1>2, <1>3 DEF Updating
<1> HIDE DEF x
<1>7. vlatch' \in [Vertices -> Writers \cup {NoWriter, "abandoned"}] /\ nops' \in Nat
  BY DEF CInv, TypeOK, VerticesTyped, CallsTyped, WriterProbe
<1>8. QED
  BY <1>4, <1>5, <1>6, <1>7, WriterMoves DEF WriterProbe

LEMMA WriterCheckCInv ==
  ASSUME CInv, NEW w \in Writers, WriterCheck(w)
  PROVE  CInv'
<1>1. PICK q \in {"return", "claim"} : wr' = [wr EXCEPT ![w] = [wr[w] EXCEPT !.pc = q]]
  BY DEF WriterCheck
<1>2. wr[w] \in Updating
  BY WriterFields DEF WriterCheck
<1> DEFINE x == [wr[w] EXCEPT !.pc = q]
<1>3. x \in Updating /\ x.v = wr[w].v /\ x.fwd = wr[w].fwd /\ x.rerouted = wr[w].rerouted
  BY <1>2, WriterPc, ZenonT(40)
<1>4. x.rerouted => x.fwd \in Jobs /\ x.v \in DOMAIN job[x.fwd].loc
  BY <1>3 DEF CInv, RoutesResolve, WriterCheck
<1>5. wr' = [wr EXCEPT ![w] = x]
  BY <1>1
<1> HIDE DEF x
<1>6. vlatch' \in [Vertices -> Writers \cup {NoWriter, "abandoned"}] /\ nops' \in Nat
  BY DEF CInv, TypeOK, VerticesTyped, CallsTyped, WriterCheck
<1>7. QED
  BY <1>3, <1>4, <1>5, <1>6, WriterMoves DEF WriterCheck

LEMMA WriterReturnCInv ==
  ASSUME CInv, NEW w \in Writers, WriterReturn(w)
  PROVE  CInv'
<1>1. IdleWriter \notin Updating
  BY DEF IdleWriter, Updating
<1>2. vlatch' \in [Vertices -> Writers \cup {NoWriter, "abandoned"}] /\ nops' \in Nat
  BY DEF CInv, TypeOK, VerticesTyped, CallsTyped, WriterReturn
<1>3. QED
  BY <1>1, <1>2, WriterMoves DEF WriterReturn

\* Starting a job on a page whose claim was free.
LEMMA StartJob ==
  ASSUME CInv, NEW p \in Pages, ~claimed[p], njobs < MaxJob,
         claimed' = [claimed EXCEPT ![p] = TRUE],
         job' = [job EXCEPT ![njobs + 1] = NewJob(p)], njobs' = njobs + 1
  PROVE  /\ njobs' \in 0 .. MaxJob /\ claimed' \in [Pages -> BOOLEAN]
         /\ job' \in [Jobs -> JobType]
         /\ JobsInOrder' /\ LocsInPhase' /\ ClaimExclusive'
         /\ \A k \in Jobs : DOMAIN job[k].loc \subseteq DOMAIN job'[k].loc
         /\ \A k \in Jobs : job'[k].pc = "final" => job[k].pc = "final"
         /\ \A k \in Jobs : k # njobs + 1 => job'[k] = job[k]
         /\ njobs + 1 \in Jobs /\ job'[njobs + 1] = NewJob(p)
<1> DEFINE n == njobs + 1
<1>1. n \in Jobs /\ njobs' \in 0 .. MaxJob /\ njobs \in Nat
  BY ConsolidationAssumption DEF CInv, TypeOK, JobsTyped, Jobs
<1>2. claimed' \in [Pages -> BOOLEAN] /\ claimed \in [Pages -> BOOLEAN]
  BY DEF CInv, TypeOK, PagesTyped
<1>3. job \in [Jobs -> JobType]
  BY DEF CInv, TypeOK, JobsTyped
<1>4. job' \in [Jobs -> JobType] /\ job'[n] = NewJob(p) /\ \A k \in Jobs \ {n} : job'[k] = job[k]
  BY <1>1, <1>3, NewJobTyped
<1>5. job[n].pc = "none" /\ ~job[n].held /\ DOMAIN job[n].loc = {}
  BY <1>1 DEF CInv, JobsInOrder, LocsInPhase
<1>6. JobsInOrder'
  BY <1>1, <1>4 DEF CInv, JobsInOrder, Jobs
<1>7. LocsInPhase'
  BY <1>1, <1>4, NewJobTyped DEF CInv, LocsInPhase
<1>8. ClaimExclusive'
  <2>1. \A k \in Jobs : job'[k].held => claimed'[job'[k].page]
    <3> SUFFICES ASSUME NEW k \in Jobs, job'[k].held PROVE claimed'[job'[k].page]
      OBVIOUS
    <3>1. CASE k = n
      BY <1>2, <1>4, <3>1, NewJobTyped
    <3>2. CASE k # n
      <4>1. job'[k] = job[k] /\ claimed[job[k].page]
        BY <1>4, <3>2 DEF CInv, ClaimExclusive
      <4>2. job[k].page \in Pages
        BY <1>3 DEF JobType
      <4>3. QED
        BY <1>2, <4>1, <4>2
    <3>3. QED
      BY <3>1, <3>2
  <2>2. \A i, k \in Jobs : (job'[i].held /\ job'[k].held /\ job'[i].page = job'[k].page) => i = k
    <3>1. \A k \in Jobs \ {n} : job'[k].held => job'[k].page # p
      BY <1>4 DEF CInv, ClaimExclusive
    <3>2. job'[n].page = p
      BY <1>4, NewJobTyped
    <3>3. QED
      BY <1>4, <3>1, <3>2 DEF CInv, ClaimExclusive
  <2>3. \A q \in Pages : claimed'[q] => \E k \in Jobs : job'[k].held /\ job'[k].page = q
    <3> SUFFICES ASSUME NEW q \in Pages, claimed'[q]
                 PROVE  \E k \in Jobs : job'[k].held /\ job'[k].page = q
      OBVIOUS
    <3>1. CASE q = p
      BY <1>1, <1>4, <3>1, NewJobTyped
    <3>2. CASE q # p
      <4>1. claimed[q]
        BY <1>2, <3>2
      <4>2. PICK k \in Jobs : job[k].held /\ job[k].page = q
        BY <4>1 DEF CInv, ClaimExclusive
      <4>3. k # n
        BY <1>5, <4>2
      <4>4. QED
        BY <1>4, <4>2, <4>3
    <3>3. QED
      BY <3>1, <3>2
  <2>4. QED
    BY <2>1, <2>2, <2>3 DEF ClaimExclusive
<1>9. /\ \A k \in Jobs : DOMAIN job[k].loc \subseteq DOMAIN job'[k].loc
      /\ \A k \in Jobs : job'[k].pc = "final" => job[k].pc = "final"
  BY <1>4, <1>5, NewJobTyped
<1>10. /\ \A k \in Jobs : k # njobs + 1 => job'[k] = job[k]
       /\ njobs + 1 \in Jobs /\ job'[njobs + 1] = NewJob(p)
  BY <1>1, <1>4
<1>11. job' \in [Jobs -> JobType] /\ njobs' \in 0 .. MaxJob /\ claimed' \in [Pages -> BOOLEAN]
  BY <1>1, <1>2, <1>4
<1>12. QED
  BY <1>6, <1>7, <1>8, <1>9, <1>10, <1>11, Zenon

LEMMA WriterClaimCInv ==
  ASSUME CInv, NEW w \in Writers, WriterClaim(w)
  PROVE  CInv'
<1> DEFINE p == wr[w].ver.page
           x == [wr[w] EXCEPT !.pc = "return"]
<1>1. wr[w] \in Updating /\ p \in Pages
  BY WriterFields DEF WriterClaim
<1>2. x \in Updating /\ x.v = wr[w].v /\ x.fwd = wr[w].fwd /\ x.rerouted = wr[w].rerouted
  BY <1>1, WriterPc
<1>3. x.rerouted => x.fwd \in Jobs /\ x.v \in DOMAIN job[x.fwd].loc
  BY <1>2 DEF CInv, RoutesResolve, WriterClaim
<1>4. wr' = [wr EXCEPT ![w] = x]
  BY DEF WriterClaim
<1> HIDE DEF x
<1>5. CASE /\ try_begin_consolidation(p) /\ njobs < MaxJob
           /\ claimed' = [claimed EXCEPT ![p] = TRUE]
           /\ job' = [job EXCEPT ![njobs + 1] = NewJob(p)]
           /\ njobs' = njobs + 1
  <2>1. /\ njobs' \in 0 .. MaxJob /\ claimed' \in [Pages -> BOOLEAN]
        /\ job' \in [Jobs -> JobType]
        /\ JobsInOrder' /\ LocsInPhase' /\ ClaimExclusive'
        /\ \A k \in Jobs : DOMAIN job[k].loc \subseteq DOMAIN job'[k].loc
        /\ \A k \in Jobs : job'[k].pc = "final" => job[k].pc = "final"
        /\ \A k \in Jobs : k # njobs + 1 => job'[k] = job[k]
        /\ njobs + 1 \in Jobs /\ job'[njobs + 1] = NewJob(p)
    <3>1. /\ ~claimed[p] /\ njobs < MaxJob /\ claimed' = [claimed EXCEPT ![p] = TRUE]
          /\ job' = [job EXCEPT ![njobs + 1] = NewJob(p)] /\ njobs' = njobs + 1
      BY <1>5 DEF try_begin_consolidation
    <3> HIDE DEF p
    <3>2. QED
      BY <1>1, <3>1, StartJob
  <2>2. PagesTyped' /\ VerticesTyped' /\ JobsTyped'
    BY <2>1 DEF CInv, TypeOK, PagesTyped, VerticesTyped, JobsTyped, WriterClaim, pvars, rvars
  <2>3. CallsTyped'
    BY <1>2, <1>4 DEF CInv, TypeOK, CallsTyped, WriterClaim, rvars
  <2>4. LocsValid'
    <3> HIDE DEF p
    <3>1. NewJob(p).ds = <<>> /\ NewJob(p).stray = <<>> /\ NewJob(p).tail = [v \in Vertices |-> 0]
      BY <1>1, NewJobTyped
    <3>2. Len(recs) \in Nat
      BY DEF CInv, TypeOK, VerticesTyped
    <3>3. \A k \in Jobs :
            /\ \A i \in 1 .. Len(job'[k].ds) : job'[k].ds[i] \in 1 .. Len(recs)
            /\ \A i \in 1 .. Len(job'[k].stray) : job'[k].stray[i] \in 1 .. Len(recs)
            /\ \A v \in Vertices : job'[k].tail[v] <= Len(recs)
      <4> SUFFICES ASSUME NEW k \in Jobs
                   PROVE  /\ \A i \in 1 .. Len(job'[k].ds) : job'[k].ds[i] \in 1 .. Len(recs)
                          /\ \A i \in 1 .. Len(job'[k].stray) : job'[k].stray[i] \in 1 .. Len(recs)
                          /\ \A v \in Vertices : job'[k].tail[v] <= Len(recs)
        OBVIOUS
      <4>1. CASE k = njobs + 1
        BY <2>1, <3>1, <3>2, <4>1
      <4>2. CASE k # njobs + 1
        BY <2>1, <4>2 DEF CInv, TypeOK, LocsValid
      <4>3. QED
        BY <4>1, <4>2
    <3>4. QED
      BY <3>3 DEF CInv, TypeOK, LocsValid, WriterClaim, rvars
  <2>5. RoutesResolve'
    BY <1>2, <1>3, <1>4, <2>1, RoutesKept
  <2>6. SwitchesInOrder'
    BY <2>1 DEF CInv, SwitchesInOrder, WriterClaim
  <2>7. ListedStarted'
    <3>1. \A k \in Jobs : job[k].pc # "none" => job'[k].pc # "none"
      <4>1. NewJob(p).pc = "start"
        BY <1>1, NewJobTyped
      <4>2. QED
        BY <2>1, <4>1
    <3>2. pending \in Seq(Jobs) /\ switching \in Seq(Jobs) /\ UNCHANGED <<pending, switching>>
      BY DEF CInv, TypeOK, JobsTyped, WriterClaim
    <3>3. QED
      BY <3>1, <3>2 DEF CInv, ListedStarted
  <2>8. QED
    BY <2>1, <2>2, <2>3, <2>4, <2>5, <2>6, <2>7 DEF CInv, TypeOK
<1>6. CASE UNCHANGED <<claimed, job, njobs>>
  <2>1. vlatch' \in [Vertices -> Writers \cup {NoWriter, "abandoned"}] /\ nops' \in Nat
    BY DEF CInv, TypeOK, VerticesTyped, CallsTyped, WriterClaim
  <2>2. QED
    BY <1>2, <1>3, <1>4, <1>6, <2>1, WriterMoves DEF WriterClaim, svars
<1>7. QED
  BY <1>5, <1>6 DEF WriterClaim

\* The call ends with the latch of its vertex abandoned.
LEMMA WriterThrowsCInv ==
  ASSUME CInv, NEW w \in Writers, WriterThrows(w)
  PROVE  CInv'
<1>1. IdleWriter \notin Updating
  BY DEF IdleWriter, Updating
<1>2. vlatch' \in [Vertices -> Writers \cup {NoWriter, "abandoned"}] /\ nops' \in Nat
  BY DEF CInv, TypeOK, VerticesTyped, CallsTyped, WriterThrows
<1>3. QED
  BY <1>1, <1>2, WriterMoves DEF WriterThrows

LEMMA WriterAppendCInv ==
  ASSUME CInv, NEW w \in Writers, WriterAppend(w)
  PROVE  CInv'
<1> DEFINE v == wr[w].v
           k == wr[w].fwd
           d == wr[w].d
           p == IF wr[w].rerouted THEN job[k].loc[v] ELSE wr[w].ver.page
           n == Len(recs)
           q == IF wr[w].typ = "INSERT" THEN "check" ELSE "return"
           x == [wr[w] EXCEPT !.pc = q]
           j == [job[k] EXCEPT !.tail = note_rerouted_tail(job[k].tail, v, n + 1)]
<1>1. /\ wr[w] \in Updating /\ v \in Vertices /\ d \in Dsts
      /\ wr[w].typ \in {"INSERT", "DELETE"} /\ wr[w].ver.page \in Pages
      /\ wr[w].rerouted \in BOOLEAN
  BY WriterFields DEF WriterAppend
<1>2. wr[w].rerouted => k \in Jobs /\ v \in DOMAIN job[k].loc
  BY DEF CInv, RoutesResolve, WriterAppend
<1>3. p \in Pages
  <2>1. wr[w].rerouted => job[k].loc \in PartialTo(Pages)
    BY <1>2 DEF CInv, TypeOK, JobsTyped, JobType
  <2>2. QED
    BY <1>1, <1>2, <2>1, PartialElim
<1>4. x \in Updating /\ x.v = v /\ x.fwd = k /\ x.rerouted = wr[w].rerouted
  BY <1>1, WriterPc, ZenonT(40)
<1>5. /\ recs' = Append(recs, Record(v, wr[w].typ, d, head[v]))
      /\ chain' = [chain EXCEPT ![p] = Append(@, n + 1)]
      /\ head' = [head EXCEPT ![v] = n + 1]
      /\ job' = IF wr[w].rerouted
                THEN [job EXCEPT ![k].tail = note_rerouted_tail(@, v, n + 1)] ELSE job
      /\ wr' = [wr EXCEPT ![w] = x]
      /\ vlatch' = [vlatch EXCEPT ![v] = NoWriter]
      /\ UNCHANGED <<csr, freeSlots, nextPage, pending, switching, njobs, cur, fwd, claimed,
                     nops, nreads>>
  BY DEF WriterAppend, pvars, svars
<1>6. hist' \in Histories
  <2> DEFINE g == [hist.graph EXCEPT ![v] = IF wr[w].typ = "INSERT" THEN @ \cup {d} ELSE @ \ {d}]
             a == IF fwd[p] # 0 THEN hist.races \cup {"late append"} ELSE hist.races
             b == IF wr[w].rerouted THEN hist.rerouted \cup {<<k, v, d>>} ELSE hist.rerouted
  <2>1. hist \in Histories
    BY DEF CInv, TypeOK, CallsTyped
  <2>2. /\ g \in [Vertices -> SUBSET Dsts]
        /\ a \in SUBSET {"late append", "early build", "halted", "dropped"}
    BY <1>1, <2>1 DEF Histories
  <2>3. b \in SUBSET (Jobs \X Vertices \X Dsts)
    <3>1. hist.rerouted \in SUBSET (Jobs \X Vertices \X Dsts)
      BY <2>1 DEF Histories
    <3>2. wr[w].rerouted => <<k, v, d>> \in Jobs \X Vertices \X Dsts
      <4> HIDE DEF k, v, d
      <4>1. QED
        BY <1>1, <1>2
    <3>3. QED
      BY <3>1, <3>2
  <2>4. hist' = [hist EXCEPT !.graph = g, !.races = a, !.rerouted = b]
    BY DEF WriterAppend
  <2> HIDE DEF g, a, b
  <2>5. QED
    BY <2>1, <2>2, <2>3, <2>4 DEF Histories
<1>7. /\ rd' \in [Readers -> Walking \cup {IdleReader}]
      /\ \A r \in Readers : rd'[r].pc = "walk" => rd[r].pc = "walk" /\ rd'[r].at = rd[r].at
  <2> DEFINE h == hist'.graph[v]
  <2>1. h \in SUBSET Dsts
    BY <1>1, <1>6 DEF Histories
  <2>2. rd' = [r \in Readers |->
                 IF rd[r].pc # "idle" /\ rd[r].v = v
                 THEN [rd[r] EXCEPT !.in = @ \cup h, !.out = @ \cup (Dsts \ h)]
                 ELSE rd[r]]
    BY DEF WriterAppend
  <2> HIDE DEF h, v
  <2>3. SUFFICES ASSUME NEW r \in Readers
                 PROVE  /\ rd'[r] \in Walking \cup {IdleReader}
                        /\ rd'[r].pc = "walk" => rd[r].pc = "walk" /\ rd'[r].at = rd[r].at
    BY <2>2
  <2>4. rd[r] \in Walking \cup {IdleReader}
    BY DEF CInv, TypeOK, CallsTyped
  <2>5. CASE rd[r].pc # "idle" /\ rd[r].v = v
    <3>1. rd[r] \in Walking
      BY <2>4, <2>5 DEF IdleReader
    <3>2. rd'[r] = [rd[r] EXCEPT !.in = @ \cup h, !.out = @ \cup (Dsts \ h)]
      BY <2>2, <2>5
    <3>3. QED
      BY <2>1, <3>1, <3>2, ZenonT(40) DEF Walking
  <2>6. CASE ~(rd[r].pc # "idle" /\ rd[r].v = v)
    BY <2>2, <2>4, <2>6
  <2>7. QED
    BY <2>5, <2>6
<1> HIDE DEF v, k, d, p, q, x, j
<1>8. /\ recs' \in Seq(Records) /\ n \in Nat /\ Len(recs') = n + 1
      /\ chain' \in [Pages -> Seq(Nat)] /\ head' \in [Vertices -> Nat]
      /\ \A i \in 1 .. Len(recs') : recs'[i].next < i
      /\ \A u \in Vertices : head'[u] <= Len(recs')
      /\ \A s \in Pages : \A i \in 1 .. Len(chain'[s]) : chain'[s][i] \in 1 .. Len(recs')
  BY <1>1, <1>3, <1>5, AppendRecord
<1>9. wr[w].rerouted => JobMove(k, j) /\ JobLocs(j, n + 1) /\ j.pc = job[k].pc
  <2> SUFFICES ASSUME wr[w].rerouted
               PROVE  JobMove(k, j) /\ JobLocs(j, n + 1) /\ j.pc = job[k].pc
    OBVIOUS
  <2>1. job' = [job EXCEPT ![k].tail = note_rerouted_tail(@, v, n + 1)]
    BY <1>5
  <2>2. n + 1 \in Nat /\ n <= n + 1
    BY <1>8
  <2>3. QED
    BY <1>1, <1>2, <1>5, <2>1, <2>2, NoteTailMove DEF j
<1>10. /\ job' \in [Jobs -> JobType] /\ JobsInOrder' /\ LocsInPhase' /\ ClaimExclusive'
       /\ \A i \in Jobs : DOMAIN job[i].loc \subseteq DOMAIN job'[i].loc
       /\ \A i \in Jobs : JobLocs(job'[i], n + 1)
       /\ SwitchesInOrder' /\ ListedStarted'
  <2>1. CASE wr[w].rerouted
    <3>1. n + 1 \in Nat /\ n <= n + 1
      BY <1>8
    <3>2. \A i \in Jobs : JobLocs(job'[i], n + 1)
      BY <1>2, <1>9, <2>1, <3>1, JobMoveLocs
    <3>3. SwitchesInOrder'
      BY <1>2, <1>5, <1>9, <2>1, SwitchesKept
    <3>4. ClaimExclusive'
      BY <1>2, <1>9, <2>1, JobMoveClaims
    <3>5. ListedStarted'
      BY <1>2, <1>5, <1>9, <2>1, ListedKept
    <3>6. QED
      BY <1>2, <1>9, <2>1, <3>2, <3>3, <3>4, <3>5, JobMoveKeeps
  <2>2. CASE ~wr[w].rerouted
    <3>1. UNCHANGED <<job, claimed, njobs, pending, switching>>
      BY <1>5, <2>2
    <3>2. job' \in [Jobs -> JobType]
      BY <3>1 DEF CInv, TypeOK, JobsTyped
    <3>3. \A i \in Jobs : JobLocs(job'[i], n + 1)
      <4>1. \A i \in Jobs : job[i] \in JobType /\ JobLocs(job[i], n)
        BY <3>1, <3>2, JobLocsNow
      <4>2. n + 1 \in Nat /\ n <= n + 1
        BY <1>8
      <4>3. QED
        BY <1>8, <3>1, <4>1, <4>2, JobLocsGrow
    <3>4. QED
      BY <3>1, <3>2, <3>3 DEF CInv, JobsInOrder, LocsInPhase, ClaimExclusive, SwitchesInOrder,
         ListedStarted
  <2>3. QED
    BY <1>1, <2>1, <2>2
<1>11. PagesTyped' /\ VerticesTyped' /\ JobsTyped'
  BY <1>1, <1>5, <1>8, <1>10 DEF CInv, TypeOK, PagesTyped, VerticesTyped, JobsTyped
<1>12. CallsTyped'
  BY <1>4, <1>5, <1>6, <1>7 DEF CInv, TypeOK, CallsTyped
<1>13. LocsValid'
  <2>1. \A r \in Readers : rd'[r].pc = "walk" => rd'[r].at <= n + 1
    <3> SUFFICES ASSUME NEW r \in Readers, rd'[r].pc = "walk" PROVE rd'[r].at <= n + 1
      OBVIOUS
    <3>1. rd[r].at <= n /\ rd'[r].at = rd[r].at
      BY <1>7 DEF CInv, TypeOK, LocsValid
    <3>2. rd[r].at \in Nat
      BY <1>7, ReaderCases DEF CInv, TypeOK, Walking
    <3>3. QED
      BY <1>8, <3>1, <3>2
  <2>2. QED
    BY <1>8, <1>10, <2>1 DEF LocsValid, JobLocs
<1>14. RoutesResolve'
  BY <1>2, <1>4, <1>5, <1>10, RoutesKept DEF k, v
<1>15. QED
  BY <1>10, <1>11, <1>12, <1>13, <1>14 DEF CInv, TypeOK

-----------------------------------------------------------------------------
(* SMO jobs *)

\* A step of job k: its own record moves, and what else it changes keeps its type.
LEMMA JobStepCInv ==
  ASSUME CInv, NEW k \in Jobs, NEW j, JobMove(k, j), JobLocs(j, Len(recs')),
         recs' \in Seq(Records), Len(recs) <= Len(recs'),
         \A i \in 1 .. Len(recs') : recs'[i].next < i,
         head' \in [Vertices -> Nat], \A v \in Vertices : head'[v] <= Len(recs'),
         chain' \in [Pages -> Seq(Nat)],
         \A p \in Pages : \A i \in 1 .. Len(chain'[p]) : chain'[p][i] \in 1 .. Len(recs'),
         rd' \in [Readers -> Walking \cup {IdleReader}],
         \A r \in Readers : rd'[r].pc = "walk" => rd[r].pc = "walk" /\ rd'[r].at = rd[r].at,
         csr' \in [Pages -> PartialTo(SUBSET Dsts)], fwd' \in [Pages -> 0 .. MaxJob],
         freeSlots' \in Seq(Pages), nextPage' \in Nat,
         cur' \in [Vertices -> Versions], hist' \in Histories,
         pending' \in Seq(Jobs), switching' \in Seq(Jobs),
         SwitchesInOrder', ListedStarted',
         vlatch' \in [Vertices -> Writers \cup {NoWriter, "abandoned"}],
         UNCHANGED <<wr, nops, nreads>>
  PROVE  CInv'
<1>1. claimed' \in [Pages -> BOOLEAN] /\ ClaimExclusive'
  BY JobMoveClaims
<1>2. job' \in [Jobs -> JobType] /\ njobs' \in 0 .. MaxJob /\ JobsInOrder' /\ LocsInPhase'
  BY JobMoveKeeps
<1>3. PagesTyped' /\ VerticesTyped' /\ JobsTyped'
  BY <1>1, <1>2 DEF CInv, TypeOK, PagesTyped, VerticesTyped, JobsTyped
<1>4. CallsTyped'
  BY DEF CInv, TypeOK, CallsTyped
<1>5. Len(recs) \in Nat /\ Len(recs') \in Nat
  BY DEF CInv, TypeOK, VerticesTyped
<1>6. \A i \in Jobs : JobLocs(job'[i], Len(recs'))
  BY <1>5, JobMoveLocs
<1>7. \A r \in Readers : rd'[r].pc = "walk" => rd'[r].at <= Len(recs')
  <2> SUFFICES ASSUME NEW r \in Readers, rd'[r].pc = "walk" PROVE rd'[r].at <= Len(recs')
    OBVIOUS
  <2>1. rd[r].at <= Len(recs) /\ rd'[r].at = rd[r].at /\ rd[r].pc = "walk"
    BY DEF CInv, TypeOK, LocsValid
  <2>2. rd[r].at \in Nat
    BY <2>1, ReaderCases DEF CInv, TypeOK, Walking
  <2>3. QED
    BY <1>5, <2>1, <2>2
<1>8. LocsValid'
  BY <1>6, <1>7 DEF LocsValid, JobLocs
<1>9. RoutesResolve'
  BY RoutesStay
<1>10. QED
  BY <1>1, <1>2, <1>3, <1>4, <1>8, <1>9 DEF CInv, TypeOK

\* The same when no record, head, version or reader changes.
LEMMA QuietJobStepCInv ==
  ASSUME CInv, NEW k \in Jobs, NEW j, JobMove(k, j), JobLocs(j, Len(recs)),
         chain' \in [Pages -> Seq(Nat)],
         \A p \in Pages : \A i \in 1 .. Len(chain'[p]) : chain'[p][i] \in 1 .. Len(recs),
         csr' \in [Pages -> PartialTo(SUBSET Dsts)], fwd' \in [Pages -> 0 .. MaxJob],
         freeSlots' \in Seq(Pages), nextPage' \in Nat, hist' \in Histories,
         pending' \in Seq(Jobs), switching' \in Seq(Jobs),
         SwitchesInOrder', ListedStarted',
         vlatch' \in [Vertices -> Writers \cup {NoWriter, "abandoned"}],
         UNCHANGED <<wr, nops, rvars, cur, head, recs>>
  PROVE  CInv'
<1>1. /\ recs' \in Seq(Records) /\ Len(recs) \in Nat
      /\ head' \in [Vertices -> Nat] /\ cur' \in [Vertices -> Versions]
  BY DEF CInv, TypeOK, VerticesTyped
<1>2. /\ \A i \in 1 .. Len(recs') : recs'[i].next < i
      /\ \A v \in Vertices : head'[v] <= Len(recs')
  BY DEF CInv, TypeOK, LocsValid
<1>3. rd' = rd /\ rd' \in [Readers -> Walking \cup {IdleReader}]
  BY DEF CInv, TypeOK, CallsTyped, rvars
<1>4. \A r \in Readers : rd'[r].pc = "walk" => rd[r].pc = "walk" /\ rd'[r].at = rd[r].at
  BY <1>3
<1>5. /\ JobLocs(j, Len(recs')) /\ Len(recs) <= Len(recs') /\ UNCHANGED <<wr, nops, nreads>>
      /\ \A p \in Pages : \A i \in 1 .. Len(chain'[p]) : chain'[p][i] \in 1 .. Len(recs')
  BY <1>1 DEF rvars
<1>6. QED
  BY <1>1, <1>2, <1>3, <1>4, <1>5, JobStepCInv

\* Leaving consolidate_pages.
LEMMA EndJobMove ==
  ASSUME CInv, NEW k \in Jobs, NEW pc \in {"done", "threw", "failed", "pending"}, EndJob(k, pc),
         job[k].pc # "none", UNCHANGED njobs
  PROVE  LET j == [job[k] EXCEPT !.pc = pc, !.held = FALSE]
         IN  JobMove(k, j) /\ JobLocs(j, Len(recs)) /\ j.pc = pc
<1> DEFINE j == [job[k] EXCEPT !.pc = pc, !.held = FALSE]
<1>1. job[k] \in JobType
  BY DEF CInv, TypeOK, JobsTyped
<1>2. [job[k] EXCEPT !.pc = pc] \in JobType
  BY <1>1, SetPc DEF JobPCs
<1>3. j \in JobType
  BY <1>2, SetHeld
<1>4. /\ j.page = job[k].page /\ ~j.held /\ j.pc = pc /\ j.loc = job[k].loc
      /\ j.expect = job[k].expect /\ j.ds = job[k].ds /\ j.stray = job[k].stray
      /\ j.tail = job[k].tail
  BY <1>1 DEF JobType
<1>5. /\ job' = [job EXCEPT ![k] = j]
      /\ claimed' = IF job[k].held THEN [claimed EXCEPT ![job[k].page] = FALSE] ELSE claimed
  BY DEF EndJob
<1>6. DOMAIN job[k].expect = DOMAIN job[k].loc
  BY DEF CInv, LocsInPhase
<1> HIDE DEF j
<1>7. JobMove(k, j)
  BY <1>3, <1>4, <1>5, <1>6 DEF JobMove
<1>8. JobLocs(j, Len(recs))
  BY <1>4, JobLocsNow DEF JobLocs
<1>9. QED
  BY <1>4, <1>7, <1>8 DEF j

\* What a job carries.
LEMMA JobFields ==
  ASSUME CInv, NEW k \in Jobs
  PROVE  /\ job[k] \in JobType /\ job[k].page \in Pages
         /\ job[k].loc \in PartialTo(Pages) /\ job[k].graph \in PartialTo(SUBSET Dsts)
         /\ job[k].ds \in Seq(Nat) /\ job[k].stray \in Seq(Nat)
         /\ job[k].tail \in [Vertices -> Nat] /\ job[k].published \in SUBSET Vertices
         /\ DOMAIN job[k].expect = DOMAIN job[k].loc
         /\ job \in [Jobs -> JobType]
<1>1. job \in [Jobs -> JobType] /\ job[k] \in JobType
  BY DEF CInv, TypeOK, JobsTyped
<1>2. DOMAIN job[k].expect = DOMAIN job[k].loc
  BY DEF CInv, LocsInPhase
<1>3. QED
  BY <1>1, <1>2 DEF JobType

\* Advancing the program counter of a job past the build phase.
LEMMA PcMove ==
  ASSUME CInv, NEW k \in Jobs, NEW q \in {"drain", "strays", "final", "done"},
         job[k].pc # "none", job' = [job EXCEPT ![k].pc = q], UNCHANGED <<claimed, njobs>>
  PROVE  LET j == [job[k] EXCEPT !.pc = q]
         IN  JobMove(k, j) /\ JobLocs(j, Len(recs)) /\ j.pc = q
<1> DEFINE j == [job[k] EXCEPT !.pc = q]
<1>1. job[k] \in JobType /\ DOMAIN job[k].expect = DOMAIN job[k].loc
  BY JobFields
<1>2. j \in JobType
  BY <1>1, SetPc DEF JobPCs
<1>3. /\ j.page = job[k].page /\ j.held = job[k].held /\ j.pc = q /\ j.loc = job[k].loc
      /\ j.expect = job[k].expect /\ j.ds = job[k].ds /\ j.stray = job[k].stray
      /\ j.tail = job[k].tail
  BY <1>1 DEF JobType
<1>4. job' = [job EXCEPT ![k] = j]
  OBVIOUS
<1> HIDE DEF j
<1>5. JobMove(k, j)
  BY <1>1, <1>2, <1>3, <1>4 DEF JobMove
<1>6. JobLocs(j, Len(recs))
  BY <1>3, JobLocsNow DEF JobLocs
<1>7. QED
  BY <1>3, <1>5, <1>6 DEF j

\* An entry's chain, kept or reset.
LEMMA ChainsNow ==
  ASSUME CInv, NEW p \in Pages, chain' \in {chain, fetch_deltas_with_mark(p)}
  PROVE  /\ chain' \in [Pages -> Seq(Nat)]
         /\ \A q \in Pages : \A i \in 1 .. Len(chain'[q]) : chain'[q][i] \in 1 .. Len(recs)
         /\ chain[p] \in Seq(Nat) /\ \A i \in 1 .. Len(chain[p]) : chain[p][i] \in 1 .. Len(recs)
<1>1. /\ chain \in [Pages -> Seq(Nat)]
      /\ \A q \in Pages : \A i \in 1 .. Len(chain[q]) : chain[q][i] \in 1 .. Len(recs)
  BY DEF CInv, TypeOK, PagesTyped, LocsValid
<1>2. CASE chain' = chain
  BY <1>1, <1>2
<1>3. CASE chain' = [chain EXCEPT ![p] = <<>>]
  BY <1>1, <1>3
<1>4. QED
  BY <1>1, <1>2, <1>3 DEF fetch_deltas_with_mark

\* The variables outside a quiet job step.
LEMMA QuietTypes ==
  ASSUME CInv
  PROVE  /\ csr \in [Pages -> PartialTo(SUBSET Dsts)] /\ fwd \in [Pages -> 0 .. MaxJob]
         /\ freeSlots \in Seq(Pages) /\ nextPage \in Nat /\ hist \in Histories
         /\ pending \in Seq(Jobs) /\ switching \in Seq(Jobs)
         /\ Len(recs) \in Nat /\ recs \in Seq(Records)
         /\ cur \in [Vertices -> Versions] /\ head \in [Vertices -> Nat]
         /\ rd \in [Readers -> Walking \cup {IdleReader}]
         /\ vlatch \in [Vertices -> Writers \cup {NoWriter, "abandoned"}]
<1>1. /\ csr \in [Pages -> PartialTo(SUBSET Dsts)] /\ fwd \in [Pages -> 0 .. MaxJob]
      /\ freeSlots \in Seq(Pages) /\ nextPage \in Nat
  BY DEF CInv, TypeOK, PagesTyped
<1>2. hist \in Histories /\ rd \in [Readers -> Walking \cup {IdleReader}]
  BY DEF CInv, TypeOK, CallsTyped
<1>3. pending \in Seq(Jobs) /\ switching \in Seq(Jobs)
  BY DEF CInv, TypeOK, JobsTyped
<1>4. /\ Len(recs) \in Nat /\ recs \in Seq(Records)
      /\ cur \in [Vertices -> Versions] /\ head \in [Vertices -> Nat]
      /\ vlatch \in [Vertices -> Writers \cup {NoWriter, "abandoned"}]
  BY DEF CInv, TypeOK, VerticesTyped
<1>5. QED
  BY <1>1, <1>2, <1>3, <1>4

\* A job that leaves consolidate_pages in a quiet step.
LEMMA QuietEndCInv ==
  ASSUME CInv, NEW k \in Jobs, NEW pc \in {"done", "threw", "failed", "pending"}, EndJob(k, pc),
         job[k].pc # "none", freeSlots' \in Seq(Pages), nextPage' \in Nat,
         pending' \in {pending, Append(pending, k)}, hist' \in Histories,
         vlatch' \in [Vertices -> Writers \cup {NoWriter, "abandoned"}],
         UNCHANGED <<csr, chain, fwd, switching, njobs, wr, nops, rvars, cur, head, recs>>
  PROVE  CInv'
<1> DEFINE j == [job[k] EXCEPT !.pc = pc, !.held = FALSE]
<1>1. JobMove(k, j) /\ JobLocs(j, Len(recs)) /\ j.pc = pc
  BY EndJobMove
<1> HIDE DEF j
<1>2. SwitchesInOrder'
  BY <1>1, SwitchesKept
<1>3. ListedStarted'
  BY <1>1, ListedKept
<1>4. job[k].page \in Pages
  BY JobFields
<1>5. /\ chain' \in [Pages -> Seq(Nat)]
      /\ \A q \in Pages : \A i \in 1 .. Len(chain'[q]) : chain'[q][i] \in 1 .. Len(recs)
  BY <1>4, ChainsNow
<1>6. /\ csr' \in [Pages -> PartialTo(SUBSET Dsts)] /\ fwd' \in [Pages -> 0 .. MaxJob]
      /\ switching' \in Seq(Jobs)
  BY QuietTypes
<1>7. pending' \in Seq(Jobs)
  <2>1. pending \in Seq(Jobs)
    BY QuietTypes
  <2>2. QED
    BY <2>1
<1>8. QED
  BY <1>1, <1>2, <1>3, <1>5, <1>6, <1>7, QuietJobStepCInv

LEMMA SmoFetchCInv ==
  ASSUME CInv, NEW k \in Jobs, SmoFetch(k)
  PROVE  CInv'
<1>1. CASE get_delta_chain_length(job[k].page) < ChainThreshold
  <2>1. EndJob(k, "done") /\ UNCHANGED chain
    BY <1>1 DEF SmoFetch
  <2>2. job[k].pc # "none" /\ freeSlots' \in Seq(Pages) /\ nextPage' \in Nat
    BY QuietTypes DEF SmoFetch, pvars
  <2>3. QED
    BY <2>1, <2>2, QuietTypes, QuietEndCInv DEF SmoFetch, pvars, svars, wvars
<1>2. CASE ~(get_delta_chain_length(job[k].page) < ChainThreshold)
  <2> DEFINE p == job[k].page
             j == [job[k] EXCEPT !.pc = "merge", !.ds = chain[p]]
  <2>1. /\ job' = [job EXCEPT ![k] = j] /\ chain' = fetch_deltas_with_mark(p)
        /\ UNCHANGED <<claimed, njobs, pending, switching>> /\ job[k].pc = "start"
    BY <1>2 DEF SmoFetch, svars
  <2>2. job[k] \in JobType /\ p \in Pages /\ DOMAIN job[k].expect = DOMAIN job[k].loc
    BY JobFields
  <2>3. /\ chain[p] \in Seq(Nat) /\ \A i \in 1 .. Len(chain[p]) : chain[p][i] \in 1 .. Len(recs)
        /\ chain' \in [Pages -> Seq(Nat)]
        /\ \A q \in Pages : \A i \in 1 .. Len(chain'[q]) : chain'[q][i] \in 1 .. Len(recs)
    <3> HIDE DEF p
    <3>1. QED
      BY <2>1, <2>2, ChainsNow
  <2>4. [job[k] EXCEPT !.pc = "merge"] \in JobType
    BY <2>2, SetPc DEF JobPCs
  <2>5. j \in JobType
    BY <2>3, <2>4, SetDs
  <2>6. /\ j.page = p /\ j.held = job[k].held /\ j.pc = "merge" /\ j.loc = job[k].loc
        /\ j.expect = job[k].expect /\ j.ds = chain[p] /\ j.stray = job[k].stray
        /\ j.tail = job[k].tail
    BY <2>2 DEF JobType
  <2>7. DOMAIN job[k].loc = {}
    BY <2>1 DEF CInv, LocsInPhase
  <2> HIDE DEF j
  <2>8. JobMove(k, j)
    BY <2>1, <2>2, <2>5, <2>6, <2>7 DEF JobMove
  <2>9. JobLocs(j, Len(recs))
    BY <2>3, <2>6, JobLocsNow DEF JobLocs
  <2>10. SwitchesInOrder' /\ ListedStarted'
    BY <2>1, <2>6, <2>8, SwitchesKept, ListedKept
  <2>11. QED
    BY <2>3, <2>8, <2>9, <2>10, QuietTypes, QuietJobStepCInv DEF SmoFetch, pvars, svars, wvars
<1>3. QED
  BY <1>1, <1>2

\* The merged graph is an adjacency of known vertices.
LEMMA MergedTyped ==
  ASSUME CInv, NEW base \in PartialTo(SUBSET Dsts), NEW ds \in Seq(Nat),
         \A i \in 1 .. Len(ds) : ds[i] \in 1 .. Len(recs)
  PROVE  build_merged_graph(base, ds) \in PartialTo(SUBSET Dsts)
<1> DEFINE D == DOMAIN base \cup
                {recs[ds[i]].src : i \in {m \in DOMAIN ds : recs[ds[m]].typ = "INSERT"}}
<1>1. recs \in Seq(Records) /\ DOMAIN ds = 1 .. Len(ds)
  BY QuietTypes
<1>2. \A i \in DOMAIN ds : recs[ds[i]] \in Records
  BY <1>1
<1>3. \A i \in DOMAIN ds : recs[ds[i]].src \in Vertices
  BY <1>2 DEF Records
<1>4. D \in SUBSET Vertices
  BY <1>3, PartialElim
<1>5. \A v \in D : MergeOne(base, ds, v) \in SUBSET Dsts
  BY DEF MergeOne
<1>6. build_merged_graph(base, ds) = [v \in D |-> MergeOne(base, ds, v)]
  BY DEF build_merged_graph
<1> HIDE DEF D
<1>7. build_merged_graph(base, ds) \in [D -> SUBSET Dsts]
  BY <1>5, <1>6
<1>8. QED
  BY <1>4, <1>7, PartialIntro

LEMMA SmoMergeCInv ==
  ASSUME CInv, NEW k \in Jobs, SmoMerge(k)
  PROVE  CInv'
<1> DEFINE g == build_merged_graph(csr[job[k].page], job[k].ds)
<1>1. CASE DOMAIN g = {}
  <2>1. EndJob(k, "done")
    BY <1>1 DEF SmoMerge
  <2>2. job[k].pc # "none" /\ freeSlots' \in Seq(Pages) /\ nextPage' \in Nat
    BY QuietTypes DEF SmoMerge, pvars
  <2>3. QED
    BY <2>1, <2>2, QuietTypes, QuietEndCInv DEF SmoMerge, pvars, svars, wvars
<1>2. CASE DOMAIN g # {}
  <2> DEFINE j == [job[k] EXCEPT !.pc = "build", !.graph = g]
  <2>1. /\ job' = [job EXCEPT ![k] = j]
        /\ UNCHANGED <<claimed, chain, njobs, pending, switching>> /\ job[k].pc = "merge"
    BY <1>2 DEF SmoMerge, svars
  <2>2. /\ job[k] \in JobType /\ job[k].page \in Pages /\ job[k].ds \in Seq(Nat)
        /\ DOMAIN job[k].expect = DOMAIN job[k].loc
    BY JobFields
  <2>3. g \in PartialTo(SUBSET Dsts)
    <3>1. csr[job[k].page] \in PartialTo(SUBSET Dsts)
      BY <2>2, QuietTypes
    <3>2. \A i \in 1 .. Len(job[k].ds) : job[k].ds[i] \in 1 .. Len(recs)
      BY JobLocsNow DEF JobLocs
    <3>3. QED
      BY <2>2, <3>1, <3>2, MergedTyped
  <2> HIDE DEF g
  <2>4. [job[k] EXCEPT !.pc = "build"] \in JobType
    BY <2>2, SetPc DEF JobPCs
  <2>5. j \in JobType
    BY <2>3, <2>4, SetGraph
  <2>6. /\ j.page = job[k].page /\ j.held = job[k].held /\ j.pc = "build" /\ j.loc = job[k].loc
        /\ j.expect = job[k].expect /\ j.ds = job[k].ds /\ j.stray = job[k].stray
        /\ j.tail = job[k].tail
    BY <2>2 DEF JobType
  <2>7. DOMAIN job[k].loc = {}
    BY <2>1 DEF CInv, LocsInPhase
  <2> HIDE DEF j
  <2>8. JobMove(k, j)
    BY <2>1, <2>2, <2>5, <2>6, <2>7 DEF JobMove
  <2>9. JobLocs(j, Len(recs))
    BY <2>6, JobLocsNow DEF JobLocs
  <2>10. SwitchesInOrder' /\ ListedStarted'
    BY <2>1, <2>6, <2>8, SwitchesKept, ListedKept
  <2>11. /\ chain' \in [Pages -> Seq(Nat)]
         /\ \A q \in Pages : \A i \in 1 .. Len(chain'[q]) : chain'[q][i] \in 1 .. Len(recs)
    BY <2>1, <2>2, ChainsNow
  <2>12. QED
    BY <2>8, <2>9, <2>10, <2>11, QuietTypes, QuietJobStepCInv DEF SmoMerge, pvars, svars, wvars
<1>3. QED
  BY <1>1, <1>2

LEMMA SmoInstallCInv ==
  ASSUME CInv, NEW k \in Jobs, SmoInstall(k)
  PROVE  CInv'
<1> DEFINE j == [job[k] EXCEPT !.pc = "drain"]
<1>1. JobMove(k, j) /\ JobLocs(j, Len(recs)) /\ j.pc = "drain"
  BY PcMove DEF SmoInstall, svars
<1> HIDE DEF j
<1>2. SwitchesInOrder' /\ ListedStarted'
  BY <1>1, SwitchesKept, ListedKept DEF SmoInstall, svars
<1>3. fwd' \in [Pages -> 0 .. MaxJob]
  <2>1. fwd \in [Pages -> 0 .. MaxJob] /\ k \in 0 .. MaxJob
    BY QuietTypes, ConsolidationAssumption DEF Jobs
  <2>2. fwd' = [fwd EXCEPT ![job[k].page] = k]
    BY DEF SmoInstall
  <2>3. QED
    BY <2>1, <2>2
<1>4. job[k].page \in Pages
  BY JobFields
<1>5. /\ chain' \in [Pages -> Seq(Nat)]
      /\ \A q \in Pages : \A i \in 1 .. Len(chain'[q]) : chain'[q][i] \in 1 .. Len(recs)
  BY <1>4, ChainsNow DEF SmoInstall
<1>6. QED
  BY <1>1, <1>2, <1>3, <1>5, QuietTypes, QuietJobStepCInv DEF SmoInstall, pvars, svars, wvars

LEMMA SmoDrainCInv ==
  ASSUME CInv, NEW k \in Jobs, SmoDrain(k)
  PROVE  CInv'
<1> DEFINE p == job[k].page
           j == [job[k] EXCEPT !.pc = "strays", !.stray = chain[p]]
<1>1. /\ job' = [job EXCEPT ![k] = j] /\ chain' = fetch_deltas_with_mark(p)
      /\ UNCHANGED <<claimed, njobs, pending, switching>> /\ job[k].pc = "drain"
  BY DEF SmoDrain, svars
<1>2. job[k] \in JobType /\ p \in Pages /\ DOMAIN job[k].expect = DOMAIN job[k].loc
  BY JobFields
<1>3. /\ chain[p] \in Seq(Nat) /\ \A i \in 1 .. Len(chain[p]) : chain[p][i] \in 1 .. Len(recs)
      /\ chain' \in [Pages -> Seq(Nat)]
      /\ \A q \in Pages : \A i \in 1 .. Len(chain'[q]) : chain'[q][i] \in 1 .. Len(recs)
  <2> HIDE DEF p
  <2>1. QED
    BY <1>1, <1>2, ChainsNow
<1>4. [job[k] EXCEPT !.pc = "strays"] \in JobType
  BY <1>2, SetPc DEF JobPCs
<1>5. j \in JobType
  BY <1>3, <1>4, SetStray
<1>6. /\ j.page = p /\ j.held = job[k].held /\ j.pc = "strays" /\ j.loc = job[k].loc
      /\ j.expect = job[k].expect /\ j.ds = job[k].ds /\ j.stray = chain[p]
      /\ j.tail = job[k].tail
  BY <1>2 DEF JobType
<1> HIDE DEF j
<1>7. JobMove(k, j)
  BY <1>1, <1>2, <1>5, <1>6 DEF JobMove
<1>8. JobLocs(j, Len(recs))
  BY <1>3, <1>6, JobLocsNow DEF JobLocs
<1>9. SwitchesInOrder' /\ ListedStarted'
  BY <1>1, <1>6, <1>7, SwitchesKept, ListedKept
<1>10. QED
  BY <1>3, <1>7, <1>8, <1>9, QuietTypes, QuietJobStepCInv DEF SmoDrain, pvars, svars, wvars

LEMMA SmoStageCInv ==
  ASSUME CInv, NEW k \in Jobs, SmoStage(k)
  PROVE  CInv'
<1>1. CASE ManualSwitch
  BY <1>1, QuietTypes, QuietEndCInv DEF SmoStage, pvars, wvars
<1>2. CASE ~ManualSwitch
  <2> DEFINE j == [job[k] EXCEPT !.pc = "final"]
  <2>1. JobMove(k, j) /\ JobLocs(j, Len(recs)) /\ j.pc = "final"
    BY <1>2, PcMove DEF SmoStage
  <2> HIDE DEF j
  <2>2. SwitchesInOrder' /\ ListedStarted'
    BY <1>2, <2>1, SwitchesKept, ListedKept DEF SmoStage
  <2>3. job[k].page \in Pages
    BY JobFields
  <2>4. /\ chain' \in [Pages -> Seq(Nat)]
        /\ \A q \in Pages : \A i \in 1 .. Len(chain'[q]) : chain'[q][i] \in 1 .. Len(recs)
    BY <2>3, ChainsNow DEF SmoStage
  <2>5. QED
    BY <1>2, <2>1, <2>2, <2>4, QuietTypes, QuietJobStepCInv DEF SmoStage, pvars, wvars
<1>3. QED
  BY <1>1, <1>2

LEMMA PublishNextCInv ==
  ASSUME CInv, NEW k \in Jobs, PublishNext(k)
  PROVE  CInv'
<1> DEFINE j == [job[k] EXCEPT !.pc = "final"]
<1>1. JobMove(k, j) /\ JobLocs(j, Len(recs)) /\ j.pc = "final"
  BY PcMove DEF PublishNext, svars
<1> HIDE DEF j
<1>2. ListedStarted'
  BY <1>1, ListedKept DEF PublishNext, svars
<1>3. SwitchesInOrder'
  BY <1>1, JobMoveKeeps DEF CInv, SwitchesInOrder, PublishNext, svars
<1>4. job[k].page \in Pages
  BY JobFields
<1>5. /\ chain' \in [Pages -> Seq(Nat)]
      /\ \A q \in Pages : \A i \in 1 .. Len(chain'[q]) : chain'[q][i] \in 1 .. Len(recs)
  BY <1>4, ChainsNow DEF PublishNext
<1>6. QED
  BY <1>1, <1>2, <1>3, <1>5, QuietTypes, QuietJobStepCInv DEF PublishNext, pvars, svars, wvars

LEMMA PublishPendingCInv ==
  ASSUME CInv, PublishPending
  PROVE  CInv'
<1>1. PagesTyped' /\ VerticesTyped' /\ CallsTyped' /\ LocsValid'
  BY DEF CInv, TypeOK, PagesTyped, VerticesTyped, CallsTyped, LocsValid, PublishPending, pvars,
     wvars, rvars
<1>2. JobsTyped'
  BY DEF CInv, TypeOK, JobsTyped, PublishPending
<1>3. JobsInOrder' /\ LocsInPhase' /\ RoutesResolve' /\ ClaimExclusive'
  BY DEF CInv, JobsInOrder, LocsInPhase, RoutesResolve, ClaimExclusive, PublishPending, wvars
<1>4. ListedStarted'
  BY DEF CInv, ListedStarted, PublishPending
<1>5. SwitchesInOrder'
  BY DEF CInv, SwitchesInOrder, PublishPending
<1>6. QED
  BY <1>1, <1>2, <1>3, <1>4, <1>5 DEF CInv, TypeOK

\* The forwarder is detached; with a manual switch the next job is up.
LEMMA SmoDetachCInv ==
  ASSUME CInv, NEW k \in Jobs, NEW pc \in {"done", "threw"}, SmoDetach(k, pc)
  PROVE  CInv'
<1> DEFINE j == [job[k] EXCEPT !.pc = pc, !.held = FALSE]
<1>1. JobMove(k, j) /\ JobLocs(j, Len(recs)) /\ j.pc = pc
  BY EndJobMove DEF SmoDetach
<1> HIDE DEF j
<1>2. job[k].page \in Pages
  BY JobFields
<1>3. fwd' \in [Pages -> 0 .. MaxJob]
  <2>1. fwd \in [Pages -> 0 .. MaxJob] /\ 0 \in 0 .. MaxJob
    BY QuietTypes, ConsolidationAssumption
  <2>2. fwd' = [fwd EXCEPT ![job[k].page] = 0]
    BY DEF SmoDetach
  <2>3. QED
    BY <2>1, <2>2
<1>4. /\ chain' \in [Pages -> Seq(Nat)]
      /\ \A q \in Pages : \A i \in 1 .. Len(chain'[q]) : chain'[q][i] \in 1 .. Len(recs)
  BY <1>2, ChainsNow DEF SmoDetach
<1>5. switching \in Seq(Jobs) /\ pending \in Seq(Jobs)
  BY QuietTypes
<1>6. ManualSwitch => switching # <<>> /\ Head(switching) = k
  BY DEF CInv, SwitchesInOrder, SmoDetach
<1>7. \A i \in Jobs : job'[i] = IF i = k THEN j ELSE job[i]
  BY <1>1, JobMoveKeeps
<1>8. switching' \in Seq(Jobs) /\ ListedStarted' /\ SwitchesInOrder'
  <2>1. CASE ~ManualSwitch
    <3>1. UNCHANGED <<switching, pending>>
      BY <2>1 DEF SmoDetach
    <3>2. QED
      BY <1>1, <1>5, <3>1, SwitchesKept, ListedKept
  <2>2. CASE ManualSwitch /\ pc = "threw"
    <3>1. switching' = <<>> /\ pending' = pending
      BY <2>2 DEF SmoDetach
    <3>2. ListedStarted'
      BY <1>1, <3>1, ListedKept
    <3>3. \A i \in Jobs : job'[i].pc # "final"
      <4> SUFFICES ASSUME NEW i \in Jobs, job'[i].pc = "final" PROVE FALSE
        OBVIOUS
      <4>1. i # k /\ job[i].pc = "final"
        BY <1>1, <1>7
      <4>2. QED
        BY <1>6, <2>2, <4>1 DEF CInv, SwitchesInOrder
    <3>4. QED
      BY <3>1, <3>2, <3>3 DEF SwitchesInOrder
  <2>3. CASE ManualSwitch /\ pc = "done"
    <3>1. switching' = Tail(switching) /\ pending' = pending
      BY <2>3 DEF SmoDetach
    <3>2. /\ switching' \in Seq(Jobs)
          /\ \A i \in 1 .. Len(switching') : /\ i + 1 \in 1 .. Len(switching)
                                             /\ switching'[i] = switching[i + 1]
      BY <1>5, <1>6, <2>3, <3>1
    <3>3. \A i \in Jobs : job[i].pc # "none" => job'[i].pc # "none"
      BY <1>1, <1>7
    <3>4. \A i \in 1 .. Len(switching') : job'[switching'[i]].pc # "none"
      <4> SUFFICES ASSUME NEW i \in 1 .. Len(switching') PROVE job'[switching'[i]].pc # "none"
        OBVIOUS
      <4>1. i + 1 \in 1 .. Len(switching) /\ switching'[i] = switching[i + 1]
        BY <3>2
      <4>2. switching[i + 1] \in Jobs /\ job[switching[i + 1]].pc # "none"
        BY <1>5, <4>1 DEF CInv, ListedStarted
      <4>3. QED
        BY <3>3, <4>1, <4>2
    <3>5. \A i \in 1 .. Len(pending) : job'[pending[i]].pc # "none"
      BY <1>5, <3>3 DEF CInv, ListedStarted
    <3>6. \A i \in Jobs : job'[i].pc # "final"
      <4> SUFFICES ASSUME NEW i \in Jobs, job'[i].pc = "final" PROVE FALSE
        OBVIOUS
      <4>1. i # k /\ job[i].pc = "final"
        BY <1>1, <1>7
      <4>2. QED
        BY <1>6, <2>3, <4>1 DEF CInv, SwitchesInOrder
    <3>7. QED
      BY <3>1, <3>2, <3>4, <3>5, <3>6 DEF ListedStarted, SwitchesInOrder
  <2>4. QED
    BY <2>1, <2>2, <2>3
<1>9. QED
  BY <1>1, <1>3, <1>4, <1>8, QuietTypes, QuietJobStepCInv DEF SmoDetach, pvars, wvars

LEMMA ReclaimCInv ==
  ASSUME CInv, NEW k \in Jobs, Reclaim(k)
  PROVE  CInv'
<1> DEFINE j == [job[k] EXCEPT !.freed = TRUE]
<1>1. job' = [job EXCEPT ![k] = j] /\ UNCHANGED <<claimed, njobs, pending, switching>>
  BY DEF Reclaim, svars
<1>2. /\ job[k] \in JobType /\ DOMAIN job[k].expect = DOMAIN job[k].loc
      /\ job[k].page \in Pages
  BY JobFields
<1>3. j \in JobType
  BY <1>2, SetFreed
<1>4. /\ j.page = job[k].page /\ j.held = job[k].held /\ j.pc = job[k].pc /\ j.loc = job[k].loc
      /\ j.expect = job[k].expect /\ j.ds = job[k].ds /\ j.stray = job[k].stray
      /\ j.tail = job[k].tail
  BY <1>2 DEF JobType
<1>5. DOMAIN job[k].loc # {}
  BY DEF Reclaim
<1> HIDE DEF j
<1>6. job[k].pc \notin {"none", "start", "merge", "build"}
  BY <1>5 DEF CInv, LocsInPhase
<1>7. JobMove(k, j)
  BY <1>1, <1>2, <1>3, <1>4, <1>6 DEF JobMove
<1>8. JobLocs(j, Len(recs))
  BY <1>4, JobLocsNow DEF JobLocs
<1>9. SwitchesInOrder' /\ ListedStarted'
  BY <1>1, <1>4, <1>7, SwitchesKept, ListedKept
<1>10. /\ chain' \in [Pages -> Seq(Nat)]
       /\ \A q \in Pages : \A i \in 1 .. Len(chain'[q]) : chain'[q][i] \in 1 .. Len(recs)
  BY <1>2, ChainsNow DEF Reclaim
<1>11. freeSlots' \in Seq(Pages)
  <2>1. freeSlots \in Seq(Pages) /\ freeSlots' = Append(freeSlots, job[k].page)
    BY QuietTypes DEF Reclaim
  <2>2. QED
    BY <1>2, <2>1
<1>12. QED
  BY <1>7, <1>8, <1>9, <1>10, <1>11, QuietTypes, QuietJobStepCInv DEF Reclaim, svars, wvars

\* Allocation hands out page numbers and keeps the free list a list of pages.
LEMMA AllocatedTyped ==
  ASSUME CInv, NEW n \in Nat, Allocated(n)
  PROVE  freeSlots' \in Seq(Pages) /\ nextPage' \in Nat
<1>1. freeSlots \in Seq(Pages) /\ nextPage \in Nat
  BY QuietTypes
<1>2. Len(freeSlots) \in Nat
  BY <1>1
<1>3. CASE n <= Len(freeSlots)
  <2>1. freeSlots' = SubSeq(freeSlots, 1, Len(freeSlots) - n) /\ nextPage' = nextPage
    BY <1>3 DEF Allocated
  <2>2. \A i \in 1 .. Len(freeSlots) - n : i \in 1 .. Len(freeSlots)
    BY <1>2
  <2>3. QED
    BY <1>1, <1>2, <1>3, <2>1, <2>2
<1>4. CASE ~(n <= Len(freeSlots))
  <2>1. freeSlots' = <<>> /\ nextPage' = nextPage + (n - Len(freeSlots))
    BY <1>4 DEF Allocated
  <2>2. QED
    BY <1>1, <1>2, <1>4, <2>1
<1>5. QED
  BY <1>3, <1>4

\* An event is recorded.
LEMMA EventNoted ==
  ASSUME NEW h \in Histories,
         NEW e \in {"late append", "early build", "halted", "dropped"}
  PROVE  [h EXCEPT !.races = @ \cup {e}] \in Histories
<1>1. h.races \cup {e} \in SUBSET {"late append", "early build", "halted", "dropped"}
  BY DEF Histories
<1>2. QED
  BY <1>1 DEF Histories

\* The preparation throws.
LEMMA SmoThrowCInv ==
  ASSUME CInv, NEW k \in Jobs, NEW n \in 0 .. MaxParts, SmoThrow(k, n)
  PROVE  CInv'
<1>1. n \in Nat /\ Allocated(n) /\ EndJob(k, "threw") /\ job[k].pc # "none"
  BY DEF SmoThrow, MaxParts
<1>2. freeSlots' \in Seq(Pages) /\ nextPage' \in Nat
  BY <1>1, AllocatedTyped
<1>3. hist' \in Histories
  BY QuietTypes, EventNoted DEF SmoThrow
<1>4. /\ vlatch' \in [Vertices -> Writers \cup {NoWriter, "abandoned"}]
      /\ UNCHANGED <<csr, chain, fwd, pending, switching, njobs, wr, nops, rvars, cur, head, recs>>
  BY QuietTypes DEF SmoThrow, svars, wvars
<1>5. QED
  BY <1>1, <1>2, <1>3, <1>4, QuietEndCInv

LEMMA SmoBuildCInv ==
  ASSUME CInv, NEW k \in Jobs, NEW place \in Placements, SmoBuild(k, place)
  PROVE  CInv'
<1> DEFINE g == job[k].graph
           n == Cardinality({place[v] : v \in DOMAIN g})
           new == allocate_page(n)
           pgs == {new[i] : i \in 1 .. n}
           loc == [v \in DOMAIN g |-> new[place[v]]]
           exp == [v \in DOMAIN g |-> cur[v]]
           j == [job[k] EXCEPT !.pc = "install", !.loc = loc, !.expect = exp]
<1>1. /\ job[k] \in JobType /\ job[k].page \in Pages /\ g \in PartialTo(SUBSET Dsts)
      /\ DOMAIN job[k].expect = DOMAIN job[k].loc
  BY JobFields
<1>2. DOMAIN g \subseteq Vertices /\ \A v \in DOMAIN g : g[v] \in SUBSET Dsts
  BY <1>1, PartialElim
<1>3. n \in Nat
  <2>1. {place[v] : v \in DOMAIN g} \in SUBSET (1 .. 2)
    BY <1>2 DEF Placements, MaxParts
  <2>2. IsFiniteSet(1 .. 2)
    <3>1. 1 \in Int /\ 2 \in Int
      OBVIOUS
    <3>2. QED
      BY <3>1, FS_Interval, Zenon
  <2>3. QED
    BY <2>1, <2>2, FS_Subset, FS_CardinalityType
<1>4. freeSlots' \in Seq(Pages) /\ nextPage' \in Nat
  <2>1. Allocated(n)
    BY DEF SmoBuild
  <2> HIDE DEF n
  <2>2. QED
    BY <1>3, <2>1, AllocatedTyped
<1>5. /\ job[k].pc = "build" /\ {place[v] : v \in DOMAIN g} = 1 .. n /\ pgs \subseteq Pages
      /\ UNCHANGED <<svars, wvars, rvars, cur, head, recs, chain, fwd>>
  BY DEF SmoBuild
<1>6. CASE EndJob(k, "failed") /\ UNCHANGED <<csr, hist>>
  BY <1>4, <1>5, <1>6, QuietTypes, QuietEndCInv DEF svars, wvars
<1>7. CASE /\ csr' = [p \in Pages |->
                      IF p \in pgs
                      THEN [v \in {u \in DOMAIN g : new[place[u]] = p} |-> g[v]]
                      ELSE csr[p]]
           /\ job' = [job EXCEPT ![k].pc = "install", ![k].loc = loc, ![k].expect = exp]
           /\ hist' = IF \A v \in DOMAIN g : cur[v].page = job[k].page THEN hist
                      ELSE [hist EXCEPT !.races = @ \cup {"early build"}]
           /\ UNCHANGED claimed
  <2>1. csr' \in [Pages -> PartialTo(SUBSET Dsts)]
    <3> SUFFICES ASSUME NEW p \in Pages PROVE csr'[p] \in PartialTo(SUBSET Dsts)
      BY <1>7
    <3>1. CASE p \in pgs
      <4> DEFINE D == {u \in DOMAIN g : new[place[u]] = p}
      <4>1. D \in SUBSET Vertices /\ [v \in D |-> g[v]] \in [D -> SUBSET Dsts]
        BY <1>2
      <4>2. csr'[p] = [v \in D |-> g[v]]
        BY <1>7, <3>1
      <4> HIDE DEF D
      <4>3. QED
        BY <4>1, <4>2, PartialIntro
    <3>2. CASE p \notin pgs
      <4>1. csr'[p] = csr[p]
        BY <1>7, <3>2
      <4>2. QED
        BY <4>1, QuietTypes
    <3>3. QED
      BY <3>1, <3>2
  <2>2. loc \in PartialTo(Pages)
    <3>1. \A v \in DOMAIN g : place[v] \in 1 .. n
      BY <1>5
    <3>2. \A v \in DOMAIN g : new[place[v]] \in Pages
      BY <1>5, <3>1
    <3>3. loc \in [DOMAIN g -> Pages]
      BY <3>2
    <3> HIDE DEF loc
    <3>4. QED
      BY <1>2, <3>3, PartialIntro
  <2>3. exp \in PartialTo(Versions)
    <3>1. exp \in [DOMAIN g -> Versions]
      BY <1>2, QuietTypes
    <3> HIDE DEF exp
    <3>2. QED
      BY <1>2, <3>1, PartialIntro
  <2>4. DOMAIN exp = DOMAIN loc
    OBVIOUS
  <2>5. job' = [job EXCEPT ![k] = j]
    BY <1>7
  <2> HIDE DEF loc, exp
  <2>6. j \in JobType
    <3>1. [job[k] EXCEPT !.pc = "install"] \in JobType
      BY <1>1, SetPc DEF JobPCs
    <3>2. [[job[k] EXCEPT !.pc = "install"] EXCEPT !.loc = loc] \in JobType
      BY <2>2, <3>1, SetLoc
    <3>3. [[[job[k] EXCEPT !.pc = "install"] EXCEPT !.loc = loc] EXCEPT !.expect = exp] \in JobType
      BY <2>3, <3>2, SetExpect
    <3>4. QED
      BY <3>3
  <2>7. /\ j.page = job[k].page /\ j.held = job[k].held /\ j.pc = "install" /\ j.loc = loc
        /\ j.expect = exp /\ j.ds = job[k].ds /\ j.stray = job[k].stray /\ j.tail = job[k].tail
    BY <1>1 DEF JobType
  <2>8. DOMAIN job[k].loc = {}
    BY <1>5 DEF CInv, LocsInPhase
  <2> HIDE DEF j
  <2>9. JobMove(k, j)
    BY <1>5, <1>7, <2>4, <2>5, <2>6, <2>7, <2>8 DEF JobMove, svars
  <2>10. JobLocs(j, Len(recs))
    BY <2>7, JobLocsNow DEF JobLocs
  <2>11. SwitchesInOrder' /\ ListedStarted'
    BY <1>5, <2>7, <2>9, SwitchesKept, ListedKept DEF svars
  <2>12. /\ chain' \in [Pages -> Seq(Nat)]
         /\ \A q \in Pages : \A i \in 1 .. Len(chain'[q]) : chain'[q][i] \in 1 .. Len(recs)
    BY <1>1, <1>5, ChainsNow
  <2>13. hist' \in Histories
    <3>1. hist \in Histories
      BY QuietTypes
    <3>2. [hist EXCEPT !.races = @ \cup {"early build"}] \in Histories
      BY <3>1, EventNoted
    <3>3. QED
      BY <1>7, <3>1, <3>2
  <2>14. /\ fwd' \in [Pages -> 0 .. MaxJob] /\ pending' \in Seq(Jobs) /\ switching' \in Seq(Jobs)
         /\ vlatch' \in [Vertices -> Writers \cup {NoWriter, "abandoned"}]
    BY <1>5, QuietTypes DEF svars, wvars
  <2>15. QED
    BY <1>4, <1>5, <2>1, <2>9, <2>10, <2>11, <2>12, <2>13, <2>14, QuietJobStepCInv DEF wvars
<1>8. QED
  BY <1>6, <1>7 DEF SmoBuild

LEMMA SmoStrayCInv ==
  ASSUME CInv, NEW k \in Jobs, SmoStray(k)
  PROVE  CInv'
<1> DEFINE rec == recs[Head(job[k].stray)]
           v == rec.src
           n == Len(recs)
           p == job[k].loc[v]
           t == note_rerouted_tail(job[k].tail, v, n + 1)
           j == [job[k] EXCEPT !.stray = Tail(@), !.tail = t]
<1>1. /\ job[k] \in JobType /\ job[k].loc \in PartialTo(Pages) /\ job[k].stray \in Seq(Nat)
      /\ job[k].tail \in [Vertices -> Nat] /\ DOMAIN job[k].expect = DOMAIN job[k].loc
  BY JobFields
<1>2. /\ job[k].pc = "strays" /\ job[k].stray # <<>>
      /\ UNCHANGED <<pvars, svars, wr, nops, rvars, cur, fwd>>
  BY DEF SmoStray
<1>3. rec \in Records
  <2>1. Head(job[k].stray) = job[k].stray[1] /\ 1 \in 1 .. Len(job[k].stray)
    BY <1>1, <1>2
  <2>2. job[k].stray[1] \in 1 .. n
    BY <2>1, JobLocsNow DEF JobLocs
  <2>3. QED
    BY <2>1, <2>2, QuietTypes
<1>4. v \in Vertices /\ rec.typ \in {"INSERT", "DELETE"} /\ rec.dst \in Dsts
  BY <1>3 DEF Records
<1>5. CASE EndJob(k, "failed") /\ UNCHANGED <<vlatch, recs, chain, head, hist>>
  <2>1. freeSlots' \in Seq(Pages) /\ nextPage' \in Nat
    BY <1>2, QuietTypes DEF pvars
  <2>2. QED
    BY <1>2, <1>5, <2>1, QuietTypes, QuietEndCInv DEF pvars, svars
<1>6. CASE /\ vlatch' = [vlatch EXCEPT ![v] = "abandoned"]
           /\ EndJob(k, "failed")
           /\ hist' = [hist EXCEPT !.races = @ \cup {"halted"}]
           /\ UNCHANGED <<recs, chain, head>>
  <2>1. freeSlots' \in Seq(Pages) /\ nextPage' \in Nat
    BY <1>2, QuietTypes DEF pvars
  <2>2. hist' \in Histories /\ vlatch' \in [Vertices -> Writers \cup {NoWriter, "abandoned"}]
    BY <1>6, QuietTypes, EventNoted
  <2>3. QED
    BY <1>2, <1>6, <2>1, <2>2, QuietEndCInv DEF pvars, svars
<1>7. CASE /\ v \in DOMAIN job[k].loc
           /\ recs' = Append(recs, Record(v, rec.typ, rec.dst, head[v]))
           /\ chain' = [chain EXCEPT ![p] = Append(@, n + 1)]
           /\ head' = [head EXCEPT ![v] = n + 1]
           /\ job' = [job EXCEPT ![k].stray = Tail(@),
                                 ![k].tail = note_rerouted_tail(@, v, n + 1)]
           /\ hist' = IF <<k, v, rec.dst>> \in hist.rerouted
                      THEN [hist EXCEPT !.overtaken = @ \cup {<<v, rec.dst>>}] ELSE hist
           /\ UNCHANGED <<claimed, vlatch>>
  <2>1. /\ recs' = Append(recs, Record(v, rec.typ, rec.dst, head[v]))
        /\ chain' = [chain EXCEPT ![p] = Append(@, n + 1)]
        /\ head' = [head EXCEPT ![v] = n + 1]
        /\ job' = [job EXCEPT ![k] = j]
        /\ hist' = IF <<k, v, rec.dst>> \in hist.rerouted
                   THEN [hist EXCEPT !.overtaken = @ \cup {<<v, rec.dst>>}] ELSE hist
        /\ UNCHANGED claimed
    BY <1>7
  <2>2. p \in Pages
    BY <1>1, <1>7, PartialElim
  <2>3. hist' \in Histories
    <3>1. hist \in Histories /\ hist.overtaken \cup {<<v, rec.dst>>} \in SUBSET (Vertices \X Dsts)
      <4>1. hist \in Histories
        BY QuietTypes
      <4>2. hist.overtaken \in SUBSET (Vertices \X Dsts)
        BY <4>1 DEF Histories
      <4>3. <<v, rec.dst>> \in Vertices \X Dsts
        BY <1>4
      <4>4. QED
        BY <4>1, <4>2, <4>3
    <3>2. [hist EXCEPT !.overtaken = @ \cup {<<v, rec.dst>>}] \in Histories
      <4> DEFINE o == hist.overtaken \cup {<<v, rec.dst>>}
      <4> HIDE DEF o
      <4>1. [hist EXCEPT !.overtaken = o] \in Histories
        BY <3>1 DEF Histories, o
      <4>2. QED
        BY <4>1 DEF o
    <3>3. QED
      BY <2>1, <3>1, <3>2
  <2> HIDE DEF rec, v, p
  <2>4. /\ recs' \in Seq(Records) /\ n \in Nat /\ Len(recs') = n + 1
        /\ chain' \in [Pages -> Seq(Nat)] /\ head' \in [Vertices -> Nat]
        /\ \A i \in 1 .. Len(recs') : recs'[i].next < i
        /\ \A u \in Vertices : head'[u] <= Len(recs')
        /\ \A s \in Pages : \A i \in 1 .. Len(chain'[s]) : chain'[s][i] \in 1 .. Len(recs')
    BY <1>4, <2>1, <2>2, AppendRecord
  <2>5. JobLocs(job[k], n + 1)
    <3>1. JobLocs(job[k], n)
      BY JobLocsNow
    <3>2. job[k] \in JobType /\ n \in Nat /\ n + 1 \in Nat /\ n <= n + 1
      BY <1>1, <2>4
    <3> HIDE DEF n
    <3>3. QED
      BY <3>1, <3>2, JobLocsGrow
  <2>6. t \in [Vertices -> Nat] /\ \A u \in Vertices : t[u] <= n + 1
    <3>1. \A u \in Vertices : job[k].tail[u] <= n + 1
      BY <2>5 DEF JobLocs
    <3>2. QED
      BY <1>1, <1>4, <2>4, <3>1 DEF note_rerouted_tail
  <2>7. /\ Tail(job[k].stray) \in Seq(Nat)
        /\ \A i \in 1 .. Len(Tail(job[k].stray)) : Tail(job[k].stray)[i] \in 1 .. n + 1
    <3>1. \A i \in 1 .. Len(job[k].stray) : job[k].stray[i] \in 1 .. n + 1
      BY <2>5 DEF JobLocs
    <3>2. /\ Tail(job[k].stray) \in Seq(Nat)
          /\ \A i \in 1 .. Len(Tail(job[k].stray)) :
               i + 1 \in 1 .. Len(job[k].stray) /\ Tail(job[k].stray)[i] = job[k].stray[i + 1]
      BY <1>1, <1>2
    <3>3. QED
      BY <3>1, <3>2
  <2> HIDE DEF t
  <2>8. j \in JobType
    <3>1. [job[k] EXCEPT !.stray = Tail(job[k].stray)] \in JobType
      BY <1>1, <2>7, SetStray
    <3>2. [[job[k] EXCEPT !.stray = Tail(job[k].stray)] EXCEPT !.tail = t] \in JobType
      BY <2>6, <3>1, SetTail
    <3>3. QED
      BY <3>2
  <2>9. /\ j.page = job[k].page /\ j.held = job[k].held /\ j.pc = job[k].pc
        /\ j.loc = job[k].loc /\ j.expect = job[k].expect /\ j.ds = job[k].ds
        /\ j.stray = Tail(job[k].stray) /\ j.tail = t
    BY <1>1 DEF JobType
  <2> HIDE DEF j
  <2>10. JobMove(k, j)
    BY <1>1, <1>2, <2>1, <2>8, <2>9 DEF JobMove, svars
  <2>11. JobLocs(j, n + 1)
    BY <2>5, <2>6, <2>7, <2>9 DEF JobLocs
  <2>12. SwitchesInOrder' /\ ListedStarted'
    BY <1>2, <2>9, <2>10, SwitchesKept, ListedKept DEF svars
  <2>13. /\ csr' \in [Pages -> PartialTo(SUBSET Dsts)] /\ fwd' \in [Pages -> 0 .. MaxJob]
         /\ freeSlots' \in Seq(Pages) /\ nextPage' \in Nat /\ cur' \in [Vertices -> Versions]
         /\ pending' \in Seq(Jobs) /\ switching' \in Seq(Jobs)
         /\ rd' = rd /\ rd' \in [Readers -> Walking \cup {IdleReader}]
    BY <1>2, QuietTypes DEF pvars, svars, rvars
  <2>14. /\ JobLocs(j, Len(recs')) /\ Len(recs) <= Len(recs') /\ UNCHANGED <<wr, nops, nreads>>
         /\ vlatch' \in [Vertices -> Writers \cup {NoWriter, "abandoned"}]
         /\ \A r \in Readers : rd'[r].pc = "walk" => rd[r].pc = "walk" /\ rd'[r].at = rd[r].at
    BY <1>2, <1>7, <2>4, <2>11, <2>13, QuietTypes DEF rvars
  <2>15. QED
    BY <2>3, <2>4, <2>10, <2>12, <2>13, <2>14, JobStepCInv
<1>8. QED
  BY <1>5, <1>6, <1>7 DEF SmoStray

LEMMA SmoFinalizeCInv ==
  ASSUME CInv, NEW k \in Jobs, NEW v \in Vertices, SmoFinalize(k, v)
  PROVE  CInv'
<1> DEFINE t == job[k].tail[v]
           n == Len(recs)
<1>1. /\ job[k] \in JobType /\ job[k].loc \in PartialTo(Pages) /\ job[k].page \in Pages
      /\ job[k].tail \in [Vertices -> Nat] /\ job[k].published \in SUBSET Vertices
      /\ DOMAIN job[k].expect = DOMAIN job[k].loc
  BY JobFields
<1>2. /\ job[k].pc = "final" /\ v \in DOMAIN job[k].loc
      /\ UNCHANGED <<pvars, wvars, nreads, njobs, chain, fwd, pending, hist>>
  BY DEF SmoFinalize
<1>3. t \in 0 .. n /\ n \in Nat
  <2>1. t <= n
    BY JobLocsNow DEF JobLocs
  <2>2. QED
    BY <1>1, <2>1, QuietTypes
<1>4. /\ recs' \in Seq(Records) /\ Len(recs') = n
      /\ \A i \in 1 .. n : recs'[i].next < i
  <2>1. recs \in Seq(Records) /\ \A i \in 1 .. n : recs[i].next < i
    BY QuietTypes DEF CInv, TypeOK, LocsValid
  <2>2. CASE t = 0
    <3>1. recs' = recs
      BY <2>2 DEF SmoFinalize
    <3>2. QED
      BY <2>1, <3>1
  <2>3. CASE t # 0
    <3> DEFINE e == [recs[t] EXCEPT !.next = 0]
    <3>1. recs' = [recs EXCEPT ![t] = e]
      BY <2>3 DEF SmoFinalize, truncate_chain_at
    <3> HIDE DEF t
    <3>2. t \in 1 .. n
      BY <1>3, <2>3
    <3>3. e \in Records /\ e.next = 0
      <4>1. recs[t] \in Records
        BY <2>1, <3>2
      <4>2. QED
        BY <4>1 DEF Records
    <3> HIDE DEF e
    <3>4. /\ recs' \in Seq(Records) /\ Len(recs') = n
          /\ \A i \in 1 .. n : recs'[i] = IF i = t THEN e ELSE recs[i]
      BY <2>1, <3>1, <3>2, <3>3, ExceptSeq
    <3>5. QED
      BY <2>1, <3>3, <3>4
  <2>4. QED
    BY <2>2, <2>3
<1>5. head' \in [Vertices -> Nat] /\ \A u \in Vertices : head'[u] <= n
  <2>1. head \in [Vertices -> Nat] /\ \A u \in Vertices : head[u] <= n
    BY QuietTypes DEF CInv, TypeOK, LocsValid
  <2>2. head' = [head EXCEPT ![v] = FinalHead(k, v)] /\ FinalHead(k, v) \in {0, head[v]}
    BY DEF SmoFinalize, FinalHead
  <2>3. QED
    BY <1>3, <2>1, <2>2
<1>6. /\ rd' \in [Readers -> Walking \cup {IdleReader}]
      /\ \A r \in Readers : rd'[r].pc = "walk" => rd[r].pc = "walk" /\ rd'[r].at = rd[r].at
  <2>1. rd \in [Readers -> Walking \cup {IdleReader}]
    BY QuietTypes
  <2>2. CASE t = 0
    <3>1. rd' = rd
      BY <2>2 DEF SmoFinalize
    <3>2. QED
      BY <2>1, <3>1
  <2>3. CASE t # 0
    <3>1. rd' = [r \in Readers |-> IF CutBy(r, t) THEN [rd[r] EXCEPT !.torn = TRUE] ELSE rd[r]]
      BY <2>3 DEF SmoFinalize
    <3>2. \A r \in Readers : CutBy(r, t) => rd[r] \in Walking
      BY <2>1 DEF CutBy, IdleReader
    <3>3. ASSUME NEW r \in Readers, CutBy(r, t)
          PROVE  /\ [rd[r] EXCEPT !.torn = TRUE] \in Walking
                 /\ [rd[r] EXCEPT !.torn = TRUE].pc = rd[r].pc
                 /\ [rd[r] EXCEPT !.torn = TRUE].at = rd[r].at
      <4>1. rd[r] \in Walking
        BY <3>2, <3>3
      <4>2. QED
        BY <4>1 DEF Walking
    <3>4. QED
      BY <2>1, <3>1, <3>3
  <2>4. QED
    BY <2>2, <2>3
<1>7. /\ chain' \in [Pages -> Seq(Nat)]
      /\ \A q \in Pages : \A i \in 1 .. Len(chain'[q]) : chain'[q][i] \in 1 .. n
  BY <1>1, <1>2, ChainsNow
<1>8. /\ csr' \in [Pages -> PartialTo(SUBSET Dsts)] /\ fwd' \in [Pages -> 0 .. MaxJob]
      /\ freeSlots' \in Seq(Pages) /\ nextPage' \in Nat /\ hist' \in Histories
      /\ pending' \in Seq(Jobs)
  BY <1>2, QuietTypes DEF pvars
<1>9. ASSUME NEW j, JobMove(k, j), JobLocs(j, n), cur' \in [Vertices -> Versions],
             switching' \in Seq(Jobs), SwitchesInOrder', ListedStarted'
      PROVE  CInv'
  <2>1. /\ JobLocs(j, Len(recs')) /\ Len(recs) <= Len(recs')
        /\ \A i \in 1 .. Len(recs') : recs'[i].next < i
        /\ \A u \in Vertices : head'[u] <= Len(recs')
        /\ \A q \in Pages : \A i \in 1 .. Len(chain'[q]) : chain'[q][i] \in 1 .. Len(recs')
        /\ UNCHANGED <<wr, nops, nreads>>
        /\ vlatch' \in [Vertices -> Writers \cup {NoWriter, "abandoned"}]
    BY <1>2, <1>3, <1>4, <1>5, <1>7, <1>9, QuietTypes DEF wvars
  <2>2. QED
    BY <1>4, <1>5, <1>6, <1>7, <1>8, <1>9, <2>1, JobStepCInv
<1>10. CASE cur[v] = job[k].expect[v]
  <2> DEFINE j == [job[k] EXCEPT !.published = @ \cup {v}]
  <2>1. /\ job' = [job EXCEPT ![k] = j] /\ UNCHANGED <<claimed, switching>>
        /\ cur' = [cur EXCEPT ![v] = [page |-> job[k].loc[v], by |-> k]]
    BY <1>10 DEF SmoFinalize
  <2>2. cur' \in [Vertices -> Versions]
    <3>1. job[k].loc[v] \in Pages /\ k \in 0 .. MaxJob
      BY <1>1, <1>2, PartialElim, ConsolidationAssumption DEF Jobs
    <3>2. [page |-> job[k].loc[v], by |-> k] \in Versions
      BY <3>1 DEF Versions
    <3>3. QED
      BY <2>1, <3>2, QuietTypes
  <2>3. j \in JobType
    <3>1. job[k].published \cup {v} \in SUBSET Vertices
      BY <1>1
    <3>2. QED
      BY <1>1, <3>1, SetPublished
  <2>4. /\ j.page = job[k].page /\ j.held = job[k].held /\ j.pc = job[k].pc
        /\ j.loc = job[k].loc /\ j.expect = job[k].expect /\ j.ds = job[k].ds
        /\ j.stray = job[k].stray /\ j.tail = job[k].tail
    BY <1>1 DEF JobType
  <2> HIDE DEF j
  <2>5. JobMove(k, j)
    BY <1>1, <1>2, <2>1, <2>3, <2>4 DEF JobMove
  <2>6. JobLocs(j, n)
    BY <2>4, JobLocsNow DEF JobLocs
  <2>7. SwitchesInOrder' /\ ListedStarted' /\ switching' \in Seq(Jobs)
    BY <1>2, <2>1, <2>4, <2>5, SwitchesKept, ListedKept, QuietTypes
  <2>8. QED
    BY <1>9, <2>2, <2>5, <2>6, <2>7
<1>11. CASE cur[v] # job[k].expect[v]
  <2> DEFINE j == [job[k] EXCEPT !.pc = "failed", !.held = FALSE]
  <2>1. EndJob(k, "failed") /\ switching' = <<>> /\ cur' = cur
    BY <1>11 DEF SmoFinalize
  <2>2. JobMove(k, j) /\ JobLocs(j, n) /\ j.pc = "failed"
    BY <1>2, <2>1, EndJobMove
  <2> HIDE DEF j
  <2>3. ListedStarted'
    BY <1>2, <2>1, <2>2, ListedKept
  <2>4. SwitchesInOrder'
    <3>1. \A i \in Jobs : job'[i] = IF i = k THEN j ELSE job[i]
      BY <2>2, JobMoveKeeps
    <3>2. SUFFICES ASSUME ManualSwitch, NEW i \in Jobs, job'[i].pc = "final" PROVE FALSE
      BY DEF SwitchesInOrder
    <3>3. i # k /\ job[i].pc = "final"
      BY <2>2, <3>1, <3>2
    <3>4. QED
      BY <1>2, <3>2, <3>3 DEF CInv, SwitchesInOrder
  <2>5. switching' \in Seq(Jobs) /\ cur' \in [Vertices -> Versions]
    BY <2>1, QuietTypes
  <2>6. QED
    BY <1>9, <2>2, <2>3, <2>4, <2>5
<1>12. QED
  BY <1>10, <1>11

-----------------------------------------------------------------------------
(* Theorems *)

LEMMA InitCInv == Init => CInv
<1> SUFFICES ASSUME Init PROVE CInv
  OBVIOUS
<1> USE ConsolidationAssumption
<1>1. 1 \in Pages /\ 0 \in 0 .. MaxJob
  BY DEF Pages
<1>2. Nothing \in PartialTo(SUBSET Dsts) /\ BaseGraph \in PartialTo(SUBSET Dsts)
  <2>1. Nothing \in [{} -> SUBSET Dsts] /\ {} \in SUBSET Vertices /\ Vertices \in SUBSET Vertices
    BY DEF Nothing
  <2>2. QED
    BY <2>1, PartialIntro
<1>3. PagesTyped
  BY <1>1, <1>2 DEF Init, PagesTyped
<1>4. VerticesTyped
  BY <1>1 DEF Init, VerticesTyped, Versions
<1> DEFINE b == [NewJob(1) EXCEPT !.pc = "none", !.held = FALSE]
<1>5. /\ b \in JobType /\ b.pc = "none" /\ ~b.held /\ b.ds = <<>> /\ b.stray = <<>>
      /\ b.tail = [v \in Vertices |-> 0] /\ DOMAIN b.loc = {} /\ DOMAIN b.expect = {}
  <2> DEFINE nj == NewJob(1)
  <2>1. /\ nj \in JobType /\ DOMAIN nj.loc = {} /\ DOMAIN nj.expect = {}
        /\ nj.ds = <<>> /\ nj.stray = <<>> /\ nj.tail = [v \in Vertices |-> 0]
    BY <1>1, NewJobTyped
  <2> HIDE DEF nj
  <2>2. [nj EXCEPT !.pc = "none"] \in JobType
    BY <2>1, SetPc DEF JobPCs
  <2>3. [[nj EXCEPT !.pc = "none"] EXCEPT !.held = FALSE] \in JobType
    BY <2>2, SetHeld
  <2>4. b = [[nj EXCEPT !.pc = "none"] EXCEPT !.held = FALSE]
    BY DEF nj
  <2> HIDE DEF b
  <2>5. /\ b.pc = "none" /\ ~b.held /\ b.ds = nj.ds /\ b.stray = nj.stray /\ b.tail = nj.tail
        /\ b.loc = nj.loc /\ b.expect = nj.expect
    BY <2>1, <2>4 DEF JobType
  <2>6. QED
    BY <2>1, <2>3, <2>4, <2>5
<1>6. job = [k \in Jobs |-> b]
  BY DEF Init
<1> HIDE DEF b
<1>7. JobsTyped
  BY <1>1, <1>5, <1>6 DEF Init, JobsTyped
<1>8. CallsTyped
  <2>1. hist \in Histories
    BY DEF Init, Histories
  <2>2. QED
    BY <2>1 DEF Init, CallsTyped
<1>8a. \A k \in Jobs : job[k] = b
  BY <1>6
<1>9. LocsValid
  <2>1. Len(recs) = 0 /\ \A p \in Pages : Len(chain[p]) = 0
    BY DEF Init
  <2>2. \A v \in Vertices : head[v] = 0
    BY DEF Init
  <2>3. \A k \in Jobs : Len(job[k].ds) = 0 /\ Len(job[k].stray) = 0
                      /\ \A v \in Vertices : job[k].tail[v] = 0
    BY <1>5, <1>8a
  <2>4. \A r \in Readers : rd[r].pc # "walk"
    BY DEF Init, IdleReader
  <2>5. QED
    BY <2>1, <2>2, <2>3, <2>4 DEF LocsValid
<1>10. JobsInOrder /\ LocsInPhase /\ SwitchesInOrder /\ ListedStarted
  <2>1. \A k \in Jobs : job[k].pc = "none" /\ ~job[k].held /\ DOMAIN job[k].loc = {}
                      /\ DOMAIN job[k].expect = {}
    BY <1>5, <1>8a
  <2>2. JobsInOrder
    BY <2>1 DEF Init, JobsInOrder
  <2>3. LocsInPhase
    BY <2>1 DEF LocsInPhase
  <2>4. SwitchesInOrder /\ ListedStarted
    BY <2>1 DEF Init, SwitchesInOrder, ListedStarted
  <2>5. QED
    BY <2>2, <2>3, <2>4
<1>11. RoutesResolve
  BY DEF Init, RoutesResolve, IdleWriter
<1>12. ClaimExclusive
  BY <1>5, <1>6 DEF Init, ClaimExclusive
<1>13. QED
  BY <1>3, <1>4, <1>7, <1>8, <1>9, <1>10, <1>11, <1>12 DEF CInv, TypeOK

LEMMA NextCInv == CInv /\ [Next]_vars => CInv'
<1> SUFFICES ASSUME CInv, [Next]_vars PROVE CInv'
  OBVIOUS
<1>u. CASE UNCHANGED vars
  BY <1>u DEF vars, CInv, TypeOK, PagesTyped, VerticesTyped, JobsTyped, CallsTyped, LocsValid,
     JobsInOrder, LocsInPhase, RoutesResolve, SwitchesInOrder, ListedStarted, ClaimExclusive
<1>1. CASE \E w \in Writers, v \in Vertices, typ \in Ops, d \in Dsts : WriterLock(w, v, typ, d)
  BY <1>1, WriterLockCInv
<1>2. CASE \E w \in Writers : WriterStep(w)
  BY <1>2, WriterProbeCInv, WriterAppendCInv, WriterCheckCInv, WriterClaimCInv,
     WriterThrowsCInv, WriterReturnCInv
  DEF WriterStep
<1>3. CASE \E r \in Readers, v \in Vertices : ReaderSnapshot(r, v)
  BY <1>3, ReaderSnapshotCInv
<1>4. CASE \E r \in Readers : ReaderStep(r) \/ ReaderFinish(r)
  BY <1>4, ReaderStepCInv, ReaderFinishCInv
<1>5. CASE \E k \in Jobs : JobStep(k)
  BY <1>5, SmoFetchCInv, SmoMergeCInv, SmoInstallCInv, SmoDrainCInv, SmoStrayCInv, SmoStageCInv,
     PublishNextCInv, SmoDetachCInv, SmoThrowCInv, SmoBuildCInv, SmoFinalizeCInv
  DEF JobStep
<1>6. CASE PublishPending
  BY <1>6, PublishPendingCInv
<1>7. CASE \E k \in Jobs : Reclaim(k)
  BY <1>7, ReclaimCInv
<1>8. QED
  BY <1>u, <1>1, <1>2, <1>3, <1>4, <1>5, <1>6, <1>7 DEF Next

\* The inductive invariant of the consolidation protocol holds in every
\* reachable state, whatever the interleaving of writers, readers and jobs.
THEOREM ConsolidationInvariant == Spec => []CInv
  BY InitCInv, NextCInv, PTL DEF Spec

\* Every delta chain stays acyclic and free of dangling links through appends,
\* reroutes, strays and truncations, and every page, version, forwarder and
\* boundary a job or a call carries stays within its type.
THEOREM ConsolidationTypeOK == Spec => []TypeOK
<1>1. CInv => TypeOK
  BY DEF CInv
<1>2. QED
  BY ConsolidationInvariant, <1>1, PTL

\* At most one consolidation runs on a CSR page, its claim is up exactly while
\* it runs, and no exit path of consolidate_pages leaves a claim behind.
THEOREM ConsolidationClaimExclusive == Spec => []ClaimExclusive
<1>1. CInv => ClaimExclusive
  BY DEF CInv
<1>2. QED
  BY ConsolidationInvariant, <1>1, PTL

-----------------------------------------------------------------------------
(* Pages, versions and forwarders, as long as nothing is on record but       *)
(* preparations that threw                                                   *)

\* Program points between the installation of a job's forwarder and its
\* removal, and those with the chain of the old page drained for good.
Forwarding == {"drain", "strays", "pending", "final"}
Drained == {"strays", "pending", "final", "done", "threw"}

\* Vertices that job x has placed and still has to switch.
Moving(x) == DOMAIN x.loc \ x.published

\* A job that has placed the vertices of its page and not given the page back.
Owning(x) == DOMAIN x.loc # {} /\ ~x.freed

Working(x) == x.pc \in {"merge", "build"} \/ Owning(x)

Running(x) == x.pc \notin {"none", "done", "threw", "failed"}

\* With a manual switch a page can be given back before the forwarder is
\* detached.
Lingering(x) == x.freed /\ x.pc = "final"

\* Page numbers the disk manager may hand out.
Unallocated(p) == (\E i \in DOMAIN freeSlots : freeSlots[i] = p) \/ p >= nextPage

\* What the program point of a job says about the rest of it.
PhaseKnown(x) ==
  /\ x.pc # "failed"
  /\ x.pc \in {"start", "merge", "build", "install", "drain", "strays"} => x.held
  /\ (x.pc = "final" /\ ~ManualSwitch) => x.held
  /\ x.held => x.pc \notin {"none", "pending", "done", "threw"} /\ ~x.freed
  /\ x.pc = "pending" => ManualSwitch
  /\ x.pc \in {"install"} \cup Forwarding => DOMAIN x.loc # {}
  /\ x.pc = "build" => DOMAIN x.graph # {}
  /\ x.published \subseteq DOMAIN x.loc
  /\ x.published # {} => x.pc \in {"final", "done", "threw"}
  /\ x.pc \in {"done", "threw"} => Moving(x) = {}
  /\ x.freed => Moving(x) = {} /\ x.pc \in {"final", "done", "threw"} /\ DOMAIN x.loc # {}
PhasesKnown == \A k \in Jobs : PhaseKnown(job[k])

\* The version of a vertex that a job has to switch is the one the job saw when
\* it built the new page, and the vertex is still on the old page ...
VersionsExpected ==
  \A k \in Jobs : \A v \in Moving(job[k]) :
    cur[v] = job[k].expect[v] /\ cur[v].page = job[k].page

\* ... a placed vertex goes from the old page to another one ...
VersionsPlaced ==
  \A k \in Jobs : \A v \in DOMAIN job[k].loc :
    job[k].loc[v] # job[k].page /\ job[k].expect[v].page = job[k].page

\* ... and a switched one does not come back while the job keeps the page.
VersionsMoved ==
  \A k \in Jobs : Owning(job[k]) => \A v \in job[k].published : cur[v].page # job[k].page

\* A vertex is stored on its page and on the page it will move to ...
VerticesStored ==
  /\ \A v \in Vertices : v \in DOMAIN csr[cur[v].page]
  /\ \A k \in Jobs : \A v \in Moving(job[k]) : v \in DOMAIN csr[job[k].loc[v]]

\* ... a chain holds records of vertices of its page only ...
ChainsStored ==
  \A p \in Pages : \A i \in 1 .. Len(chain[p]) : recs[chain[p][i]].src \in DOMAIN csr[p]

\* ... and a job carries every vertex of the page and of the strays.
PagesCovered ==
  \A k \in Jobs :
    /\ job[k].pc = "build" => DOMAIN csr[job[k].page] \subseteq DOMAIN job[k].graph
    /\ Owning(job[k]) => DOMAIN csr[job[k].page] \subseteq DOMAIN job[k].loc
StraysCovered ==
  \A k \in Jobs : job[k].pc = "strays" =>
    \A i \in 1 .. Len(job[k].stray) : recs[job[k].stray[i]].src \in DOMAIN job[k].loc

\* One job at a time works on a page, no job moves vertices to a page that
\* another one is emptying, and the chain of such a page stays drained.
PagesApart ==
  \A j, k \in Jobs : (Working(job[j]) /\ Working(job[k]) /\ job[j].page = job[k].page) => j = k
TargetsApart ==
  \A j, k \in Jobs : \A v \in Moving(job[j]) : Owning(job[k]) => job[j].loc[v] # job[k].page
ChainsDrained ==
  \A k \in Jobs : (Owning(job[k]) /\ job[k].pc \in Drained) => chain[job[k].page] = <<>>

\* Forwarders and forwarding jobs correspond.
ForwardersKept ==
  /\ \A k \in Jobs : job[k].pc \in Forwarding => fwd[job[k].page] = k
  /\ \A p \in Pages : fwd[p] # 0 => job[fwd[p]].pc \in Forwarding /\ job[fwd[p]].page = p

\* A lingering job is the only user of its page.
LingeringAlone ==
  \A k \in Jobs : Lingering(job[k]) =>
    /\ \A v \in Vertices : cur[v].page # job[k].page
    /\ \A w \in Writers : wr[w].pc # "idle" => wr[w].ver.page # job[k].page
    /\ \A j \in Jobs : (j # k /\ Running(job[j])) => job[j].page # job[k].page

\* Writer w in state x knows the current version of its vertex until it has
\* appended, and a version whose page has not been given back afterwards.
WriterKnown(w, x) ==
  x.pc # "idle" =>
    /\ x.pc \in {"probe", "append"} => x.ver = cur[x.v] /\ vlatch[x.v] = w
    /\ (x.pc = "append" /\ x.rerouted) =>
         job[x.fwd].pc \in Forwarding /\ x.v \in Moving(job[x.fwd])
    /\ \/ x.ver = cur[x.v]
       \/ \E k \in Jobs : /\ Owning(job[k]) /\ job[k].page = x.ver.page
                          /\ x.v \in DOMAIN job[k].loc /\ x.ver = job[k].expect[x.v]
WritersKnown == \A w \in Writers : WriterKnown(w, wr[w])

\* Nothing refers to a page number that may be handed out.
SlotsDistinct ==
  /\ \A i, j \in DOMAIN freeSlots : freeSlots[i] = freeSlots[j] => i = j
  /\ \A i \in DOMAIN freeSlots : freeSlots[i] < nextPage
PageUnused(p) ==
  /\ \A v \in Vertices : cur[v].page # p
  /\ \A k \in Jobs : \A v \in Moving(job[k]) : job[k].loc[v] # p
  /\ \A r \in Readers : rd[r].pc # "idle" => rd[r].page # p
  /\ \A w \in Writers : wr[w].pc # "idle" => wr[w].ver.page # p
  /\ \A k \in Jobs : (Running(job[k]) /\ job[k].page = p) => Lingering(job[k])
  /\ \A k \in Jobs : Owning(job[k]) => job[k].page # p
  /\ chain[p] = <<>>
FreeUnused == \A p \in Pages : Unallocated(p) => PageUnused(p)

ProtocolSound ==
  /\ PhasesKnown
  /\ VersionsExpected /\ VersionsPlaced /\ VersionsMoved
  /\ VerticesStored /\ ChainsStored /\ PagesCovered /\ StraysCovered
  /\ PagesApart /\ TargetsApart /\ ChainsDrained
  /\ ForwardersKept /\ LingeringAlone
  /\ WritersKnown
  /\ SlotsDistinct /\ FreeUnused

\* The inductive invariant of the protocol, next to CInv.
ProtocolInv == Healthy => ProtocolSound

\* What job x says about pages and vertices does not change.
SameFootprint(x, y) ==
  /\ y.page = x.page /\ y.loc = x.loc /\ y.expect = x.expect
  /\ y.published = x.published /\ y.freed = x.freed

LEMMA FootprintKept ==
  ASSUME NEW x, NEW y, SameFootprint(x, y)
  PROVE  Moving(y) = Moving(x) /\ (Owning(y) <=> Owning(x))
  BY DEF SameFootprint, Moving, Owning

\* Job k becomes x: a new program point with the same pages and vertices, and
\* perhaps fewer page numbers to hand out.
LEMMA JobAdvancesAndTakes ==
  ASSUME CInv, ProtocolSound, NEW k \in Jobs, NEW x,
         \A j \in Jobs : job'[j] = IF j = k THEN x ELSE job[j],
         SameFootprint(job[k], x), PhaseKnown(x), Running(x) => Running(job[k]),
         x.pc \in {"merge", "build"} =>
           \A j \in Jobs \ {k} : ~(Working(job[j]) /\ job[j].page = x.page),
         x.pc = "build" => DOMAIN csr[x.page] \subseteq DOMAIN x.graph,
         x.pc = "strays" => \A i \in 1 .. Len(x.stray) : recs[x.stray[i]].src \in DOMAIN x.loc,
         \A p \in Pages : chain'[p] \in {chain[p], <<>>},
         (Owning(x) /\ x.pc \in Drained) => chain'[x.page] = <<>>,
         (job[k].pc \in Forwarding /\ Moving(x) # {}) => x.pc \in Forwarding,
         ForwardersKept', SlotsDistinct', \A p \in Pages : Unallocated(p)' => Unallocated(p),
         UNCHANGED <<cur, csr, recs, wr, rd, vlatch>>
  PROVE  ProtocolSound'
<1>1. /\ job'[k] = x /\ \A j \in Jobs \ {k} : job'[j] = job[j]
      /\ Moving(x) = Moving(job[k]) /\ (Owning(x) <=> Owning(job[k]))
  BY FootprintKept
<1>2. \A j \in Jobs : SameFootprint(job[j], job'[j])
  BY <1>1 DEF SameFootprint
<1>3. \A j \in Jobs : Moving(job'[j]) = Moving(job[j]) /\ (Owning(job'[j]) <=> Owning(job[j]))
  BY <1>2, FootprintKept
<1>4. \A j \in Jobs : /\ job'[j].page = job[j].page /\ job'[j].loc = job[j].loc
                      /\ job'[j].expect = job[j].expect
                      /\ job'[j].published = job[j].published /\ job'[j].freed = job[j].freed
  BY <1>2 DEF SameFootprint
<1>5. \A j \in Jobs : Running(job'[j]) => Running(job[j])
  BY <1>1
<1>6. PhasesKnown'
  BY <1>1 DEF ProtocolSound, PhasesKnown
<1>7. \A j \in Jobs : Lingering(job'[j]) <=> Lingering(job[j]) /\ Running(job'[j])
  BY <1>1, <1>4, <1>5, <1>6 DEF ProtocolSound, PhasesKnown, PhaseKnown, Lingering, Running
<1>8. VersionsExpected' /\ VersionsPlaced' /\ VersionsMoved'
  BY <1>3, <1>4 DEF ProtocolSound, VersionsExpected, VersionsPlaced, VersionsMoved
<1>9. VerticesStored'
  BY <1>3, <1>4 DEF ProtocolSound, VerticesStored
<1>10. ChainsStored'
  <2>1. \A p \in Pages : chain'[p] = chain[p] \/ Len(chain'[p]) = 0
    OBVIOUS
  <2>2. \A p \in Pages : Len(chain'[p]) = 0 => 1 .. Len(chain'[p]) = {}
    OBVIOUS
  <2>3. QED
    BY <2>1, <2>2 DEF ProtocolSound, ChainsStored
<1>11. PagesCovered' /\ StraysCovered'
  BY <1>1, <1>3, <1>4 DEF ProtocolSound, PagesCovered, StraysCovered
<1>12. PagesApart'
  BY <1>1, <1>3, <1>4 DEF ProtocolSound, PagesApart, Working
<1>13. TargetsApart'
  BY <1>3, <1>4 DEF ProtocolSound, TargetsApart
<1>14. ChainsDrained'
  <2>1. \A j \in Jobs : job[j].page \in Pages
    BY JobFields
  <2>2. QED
    BY <1>1, <1>3, <1>4, <2>1 DEF ProtocolSound, ChainsDrained
<1>15. LingeringAlone'
  BY <1>4, <1>5, <1>7 DEF ProtocolSound, LingeringAlone
<1>16. WritersKnown'
  <2> SUFFICES ASSUME NEW w \in Writers, wr[w].pc # "idle" PROVE WriterKnown(w, wr[w])'
    BY DEF WritersKnown, WriterKnown
  <2>1. WriterKnown(w, wr[w])
    BY DEF ProtocolSound, WritersKnown
  <2>2. (wr[w].pc = "append" /\ wr[w].rerouted) =>
          wr[w].fwd \in Jobs /\ job'[wr[w].fwd].pc \in Forwarding /\ wr[w].v \in Moving(job'[wr[w].fwd])
    BY <1>1, <1>3, <2>1 DEF WriterKnown, CInv, RoutesResolve
  <2>3. QED
    BY <1>3, <1>4, <2>1, <2>2 DEF WriterKnown
<1>17. FreeUnused'
  <2> SUFFICES ASSUME NEW p \in Pages, Unallocated(p) PROVE PageUnused(p)'
    BY DEF FreeUnused
  <2>1. PageUnused(p)
    BY DEF ProtocolSound, FreeUnused
  <2>2. \A j \in Jobs : (Running(job'[j]) /\ job'[j].page = p) => Lingering(job'[j])
    BY <1>4, <1>5, <1>7, <2>1 DEF PageUnused
  <2>3. \A j \in Jobs : \A v \in Moving(job'[j]) : job'[j].loc[v] # p
    BY <1>3, <1>4, <2>1 DEF PageUnused
  <2>4. \A j \in Jobs : Owning(job'[j]) => job'[j].page # p
    BY <1>3, <1>4, <2>1 DEF PageUnused
  <2>5. chain'[p] = <<>>
    BY <2>1 DEF PageUnused
  <2>6. QED
    BY <2>1, <2>2, <2>3, <2>4, <2>5 DEF PageUnused
<1>18. QED
  BY <1>6, <1>8, <1>9, <1>10, <1>11, <1>12, <1>13, <1>14, <1>15, <1>16, <1>17
  DEF ProtocolSound

\* The same without an allocation.
LEMMA JobAdvances ==
  ASSUME CInv, ProtocolSound, NEW k \in Jobs, NEW x,
         \A j \in Jobs : job'[j] = IF j = k THEN x ELSE job[j],
         SameFootprint(job[k], x), PhaseKnown(x), Running(x) => Running(job[k]),
         x.pc \in {"merge", "build"} =>
           \A j \in Jobs \ {k} : ~(Working(job[j]) /\ job[j].page = x.page),
         x.pc = "build" => DOMAIN csr[x.page] \subseteq DOMAIN x.graph,
         x.pc = "strays" => \A i \in 1 .. Len(x.stray) : recs[x.stray[i]].src \in DOMAIN x.loc,
         \A p \in Pages : chain'[p] \in {chain[p], <<>>},
         (Owning(x) /\ x.pc \in Drained) => chain'[x.page] = <<>>,
         (job[k].pc \in Forwarding /\ Moving(x) # {}) => x.pc \in Forwarding,
         ForwardersKept', UNCHANGED <<cur, csr, recs, freeSlots, nextPage, wr, rd, vlatch>>
  PROVE  ProtocolSound'
<1>1. SlotsDistinct' /\ \A p \in Pages : Unallocated(p)' => Unallocated(p)
  BY DEF ProtocolSound, SlotsDistinct, Unallocated
<1>2. QED
  BY <1>1, JobAdvancesAndTakes

\* Calls move and the shared structures stay.
LEMMA CallsMove ==
  ASSUME ProtocolSound, WritersKnown',
         \A w \in Writers : wr'[w].pc # "idle" =>
           \/ wr[w].pc # "idle" /\ wr'[w].ver = wr[w].ver
           \/ \E v \in Vertices : wr'[w].ver = cur[v],
         \A r \in Readers : rd'[r].pc # "idle" =>
           \/ rd[r].pc # "idle" /\ rd'[r].page = rd[r].page
           \/ \E v \in Vertices : rd'[r].page = cur[v].page,
         UNCHANGED <<csr, cur, recs, chain, fwd, freeSlots, nextPage, job>>
  PROVE  ProtocolSound'
<1>1. PhasesKnown' /\ VersionsExpected' /\ VersionsPlaced' /\ VersionsMoved'
  BY DEF ProtocolSound, PhasesKnown, VersionsExpected, VersionsPlaced, VersionsMoved
<1>2. VerticesStored' /\ ChainsStored' /\ PagesCovered' /\ StraysCovered'
  BY DEF ProtocolSound, VerticesStored, ChainsStored, PagesCovered, StraysCovered
<1>3. PagesApart' /\ TargetsApart' /\ ChainsDrained' /\ ForwardersKept'
  BY DEF ProtocolSound, PagesApart, TargetsApart, ChainsDrained, ForwardersKept
<1>4. LingeringAlone'
  BY DEF ProtocolSound, LingeringAlone
<1>5. SlotsDistinct'
  BY DEF ProtocolSound, SlotsDistinct
<1>6. FreeUnused'
  <2> SUFFICES ASSUME NEW p \in Pages, Unallocated(p) PROVE PageUnused(p)'
    BY DEF FreeUnused, Unallocated
  <2>1. PageUnused(p)
    BY DEF ProtocolSound, FreeUnused
  <2>2. QED
    BY <2>1 DEF PageUnused
<1>7. QED
  BY <1>1, <1>2, <1>3, <1>4, <1>5, <1>6 DEF ProtocolSound

\* One writer moves.
LEMMA OneWriterMoves ==
  ASSUME CInv, ProtocolSound, NEW w \in Writers, NEW x, wr' = [wr EXCEPT ![w] = x],
         WriterKnown(w, x)',
         x.pc # "idle" => \/ wr[w].pc # "idle" /\ x.ver = wr[w].ver
                          \/ \E v \in Vertices : x.ver = cur[v],
         \A v \in Vertices : vlatch'[v] = vlatch[v] \/ vlatch[v] \in {NoWriter, w},
         UNCHANGED <<csr, cur, recs, chain, fwd, freeSlots, nextPage, job, rd>>
  PROVE  ProtocolSound'
<1>1. wr'[w] = x /\ \A u \in Writers \ {w} : wr'[u] = wr[u]
  BY DEF CInv, TypeOK, CallsTyped
<1>2. ASSUME NEW u \in Writers PROVE WriterKnown(u, wr[u])'
  <2>1. CASE u = w
    BY <1>1, <2>1 DEF WriterKnown
  <2>2. CASE u # w /\ wr[u].pc # "idle"
    <3>1. WriterKnown(u, wr[u]) /\ wr'[u] = wr[u]
      BY <1>1, <2>2 DEF ProtocolSound, WritersKnown
    <3>2. wr[u].pc \in {"probe", "append"} => vlatch'[wr[u].v] = u
      <4>1. wr[u].v \in Vertices
        BY <2>2, WriterFields
      <4>2. QED
        BY <2>2, <3>1, <4>1, ConsolidationAssumption DEF WriterKnown
    <3>3. QED
      BY <2>2, <3>1, <3>2 DEF WriterKnown
  <2>3. CASE u # w /\ wr[u].pc = "idle"
    BY <1>1, <2>3 DEF WriterKnown
  <2>4. QED
    BY <2>1, <2>2, <2>3
<1>3. WritersKnown'
  BY <1>2 DEF WritersKnown
<1>4. \A u \in Writers : wr'[u].pc # "idle" =>
        \/ wr[u].pc # "idle" /\ wr'[u].ver = wr[u].ver
        \/ \E v \in Vertices : wr'[u].ver = cur[v]
  BY <1>1
<1>5. QED
  BY <1>3, <1>4, CallsMove

LEMMA WriterLockSound ==
  ASSUME CInv, ProtocolSound, NEW w \in Writers, NEW v \in Vertices, NEW typ \in Ops,
         NEW d \in Dsts, WriterLock(w, v, typ, d)
  PROVE  ProtocolSound'
<1>1. PICK x : x = [pc |-> "probe", v |-> v, typ |-> typ, d |-> d, ver |-> cur[v], fwd |-> 0,
                    rerouted |-> FALSE]
  OBVIOUS
<1>2. x.pc = "probe" /\ x.v = v /\ x.ver = cur[v]
  BY <1>1
<1>3. wr' = [wr EXCEPT ![w] = x]
  BY <1>1 DEF WriterLock
<1>4. vlatch'[v] = w /\ \A u \in Vertices : vlatch'[u] = vlatch[u] \/ vlatch[u] = NoWriter
  BY DEF WriterLock, CInv, TypeOK, VerticesTyped
<1>5. WriterKnown(w, x)'
  BY <1>2, <1>4 DEF WriterKnown, WriterLock
<1>6. QED
  BY <1>2, <1>3, <1>4, <1>5, OneWriterMoves DEF WriterLock, pvars, rvars

LEMMA WriterProbeSound ==
  ASSUME CInv, ProtocolSound, NEW w \in Writers, WriterProbe(w)
  PROVE  ProtocolSound'
<1>1. PICK k : k = fwd[wr[w].ver.page]
  OBVIOUS
<1>2. PICK b \in BOOLEAN : b = (k # 0 /\ wr[w].v \in DOMAIN job[k].loc)
  OBVIOUS
<1>3. PICK x : x = [wr[w] EXCEPT !.pc = "append", !.fwd = k, !.rerouted = b]
  OBVIOUS
<1>4. /\ wr[w].pc = "probe" /\ wr[w] \in Updating /\ wr[w].ver.page \in Pages
      /\ wr[w].v \in Vertices
  BY WriterFields DEF WriterProbe
<1>5. /\ x.pc = "append" /\ x.v = wr[w].v /\ x.ver = wr[w].ver /\ x.fwd = k /\ x.rerouted = b
  BY <1>3, <1>4 DEF Updating
<1>6. wr' = [wr EXCEPT ![w] = x]
  BY <1>1, <1>2, <1>3 DEF WriterProbe
<1>7. WriterKnown(w, wr[w])
  BY DEF ProtocolSound, WritersKnown
<1>8. wr[w].ver = cur[wr[w].v] /\ vlatch[wr[w].v] = w
  BY <1>4, <1>7 DEF WriterKnown
<1>9. b => job[k].pc \in Forwarding /\ wr[w].v \in Moving(job[k])
  <2> SUFFICES ASSUME b, wr[w].v \in job[k].published
               PROVE  FALSE
    BY <1>1, <1>2, <1>4 DEF Moving, ProtocolSound, ForwardersKept
  <2>1. k \in Jobs
    <3>1. k \in 0 .. MaxJob /\ k # 0
      BY <1>1, <1>2, <1>4, QuietTypes
    <3>2. QED
      BY <3>1, ConsolidationAssumption DEF Jobs
  <2>2. job[k].pc \in Forwarding /\ job[k].page = cur[wr[w].v].page
    BY <1>1, <1>2, <1>4, <1>8 DEF ProtocolSound, ForwardersKept
  <2>3. Owning(job[k]) \/ Lingering(job[k])
    BY <2>1, <2>2 DEF ProtocolSound, PhasesKnown, PhaseKnown, Owning, Lingering, Forwarding
  <2>4. ~Owning(job[k])
    BY <2>1, <2>2 DEF ProtocolSound, VersionsMoved
  <2>5. ~Lingering(job[k])
    BY <1>4, <2>1, <2>2 DEF ProtocolSound, LingeringAlone
  <2>6. QED
    BY <2>3, <2>4, <2>5
<1>10. WriterKnown(w, x)'
  BY <1>5, <1>8, <1>9 DEF WriterKnown, WriterProbe
<1>11. QED
  BY <1>4, <1>5, <1>6, <1>10, OneWriterMoves DEF WriterProbe, pvars, rvars

\* A writer that has appended moves on.
LEMMA WriterPcSound ==
  ASSUME CInv, ProtocolSound, NEW w \in Writers, wr[w].pc # "idle",
         NEW q \in {"check", "claim", "return"}, wr' = [wr EXCEPT ![w].pc = q],
         UNCHANGED <<csr, cur, recs, chain, fwd, freeSlots, nextPage, job, rd, vlatch>>
  PROVE  ProtocolSound'
<1>1. PICK x : x = [wr[w] EXCEPT !.pc = q]
  OBVIOUS
<1>2. wr[w] \in Updating /\ WriterKnown(w, wr[w])
  BY WriterFields DEF ProtocolSound, WritersKnown
<1>3. x.pc = q /\ x.v = wr[w].v /\ x.ver = wr[w].ver
  BY <1>1, <1>2 DEF Updating
<1>4. WriterKnown(w, x)'
  BY <1>2, <1>3 DEF WriterKnown
<1>5. wr' = [wr EXCEPT ![w] = x]
  BY <1>1
<1>6. QED
  BY <1>3, <1>4, <1>5, OneWriterMoves

LEMMA WriterCheckSound ==
  ASSUME CInv, ProtocolSound, NEW w \in Writers, WriterCheck(w)
  PROVE  ProtocolSound'
<1>1. PICK q \in {"return", "claim"} : wr' = [wr EXCEPT ![w].pc = q]
  BY DEF WriterCheck
<1>2. QED
  BY <1>1, WriterPcSound DEF WriterCheck, pvars, rvars

LEMMA WriterReturnSound ==
  ASSUME CInv, ProtocolSound, NEW w \in Writers, WriterReturn(w)
  PROVE  ProtocolSound'
<1>1. WriterKnown(w, IdleWriter)' /\ IdleWriter.pc = "idle"
  BY DEF WriterKnown, IdleWriter
<1>2. QED
  BY <1>1, OneWriterMoves DEF WriterReturn, pvars, rvars

\* A writer that throws held the latch it abandons.
LEMMA WriterThrowsSound ==
  ASSUME CInv, ProtocolSound, NEW w \in Writers, WriterThrows(w)
  PROVE  ProtocolSound'
<1>1. WriterKnown(w, IdleWriter)' /\ IdleWriter.pc = "idle"
  BY DEF WriterKnown, IdleWriter
<1>2. wr[w].pc = "append" /\ vlatch[wr[w].v] = w
  BY DEF WriterThrows, ProtocolSound, WritersKnown, WriterKnown
<1>3. \A v \in Vertices : vlatch'[v] = vlatch[v] \/ vlatch[v] \in {NoWriter, w}
  BY <1>2 DEF WriterThrows, CInv, TypeOK, VerticesTyped
<1>4. QED
  BY <1>1, <1>3, OneWriterMoves DEF WriterThrows, pvars, rvars

\* Readers and the switch list.
LEMMA ReadersSound ==
  ASSUME CInv, ProtocolSound,
         \A r \in Readers : rd'[r].pc # "idle" =>
           \/ rd[r].pc # "idle" /\ rd'[r].page = rd[r].page
           \/ \E v \in Vertices : rd'[r].page = cur[v].page,
         UNCHANGED <<csr, cur, recs, chain, fwd, freeSlots, nextPage, job, wr, vlatch>>
  PROVE  ProtocolSound'
<1>1. WritersKnown'
  BY DEF ProtocolSound, WritersKnown, WriterKnown
<1>2. QED
  BY <1>1, CallsMove

LEMMA ReaderSnapshotSound ==
  ASSUME CInv, ProtocolSound, NEW r \in Readers, NEW v \in Vertices, ReaderSnapshot(r, v)
  PROVE  ProtocolSound'
<1>1. \A s \in Readers : rd'[s].pc # "idle" =>
        \/ rd[s].pc # "idle" /\ rd'[s].page = rd[s].page
        \/ \E u \in Vertices : rd'[s].page = cur[u].page
  BY DEF ReaderSnapshot, CInv, TypeOK, CallsTyped
<1>2. QED
  BY <1>1, ReadersSound DEF ReaderSnapshot, pvars, wvars

LEMMA ReaderStepSound ==
  ASSUME CInv, ProtocolSound, NEW r \in Readers, ReaderStep(r) \/ ReaderFinish(r)
  PROVE  ProtocolSound'
<1>1. \A s \in Readers : rd'[s].pc # "idle" => rd[s].pc # "idle" /\ rd'[s].page = rd[s].page
  <2>1. rd \in [Readers -> Walking \cup {IdleReader}]
    BY QuietTypes
  <2>2. CASE ReaderFinish(r)
    BY <2>1, <2>2 DEF ReaderFinish, IdleReader
  <2>3. CASE ReaderStep(r)
    <3>1. rd[r] \in Walking
      BY <2>3, ReaderCases DEF ReaderStep, CInv, TypeOK
    <3>2. PICK x : x = rd'[r]
      OBVIOUS
    <3>3. /\ rd' = [rd EXCEPT ![r] = x]
          /\ x = [rd[r] EXCEPT !.at = x.at, !.ins = x.ins, !.del = x.del]
      BY <2>1, <2>3, <3>1, <3>2 DEF ReaderStep, Walking
    <3>4. x.page = rd[r].page /\ rd[r].pc = "walk"
      BY <3>1, <3>3 DEF Walking
    <3>5. QED
      BY <2>1, <3>2, <3>3, <3>4
  <2>4. QED
    BY <2>2, <2>3
<1>2. QED
  BY <1>1, ReadersSound DEF ReaderStep, ReaderFinish, pvars, wvars

LEMMA PublishPendingSound ==
  ASSUME CInv, ProtocolSound, PublishPending
  PROVE  ProtocolSound'
<1>1. \A r \in Readers : rd'[r] = rd[r]
  BY DEF PublishPending, rvars
<1>2. QED
  BY <1>1, ReadersSound DEF PublishPending, pvars, wvars, rvars

\* The forwarders stay when no job starts or stops forwarding.
LEMMA ForwardersStay ==
  ASSUME CInv, ProtocolSound, NEW k \in Jobs, NEW x,
         \A j \in Jobs : job'[j] = IF j = k THEN x ELSE job[j],
         x.page = job[k].page, x.pc \in Forwarding <=> job[k].pc \in Forwarding,
         UNCHANGED fwd
  PROVE  ForwardersKept'
<1>1. \A j \in Jobs : /\ job'[j].page = job[j].page
                      /\ job'[j].pc \in Forwarding <=> job[j].pc \in Forwarding
  OBVIOUS
<1>2. \A p \in Pages : fwd[p] # 0 => fwd[p] \in Jobs
  BY QuietTypes, ConsolidationAssumption DEF Jobs
<1>3. QED
  BY <1>1, <1>2 DEF ProtocolSound, ForwardersKept

\* One job of the table is replaced.
LEMMA OneJob ==
  ASSUME CInv, NEW k \in Jobs, NEW x, job' = [job EXCEPT ![k] = x]
  PROVE  \A j \in Jobs : job'[j] = IF j = k THEN x ELSE job[j]
  BY JobFields

\* A job that has nothing to fetch or nothing to store ends.
LEMMA EarlyEndSound ==
  ASSUME CInv, ProtocolSound, NEW k \in Jobs, job[k].pc \in {"start", "merge"}, EndJob(k, "done"),
         UNCHANGED <<chain, fwd, cur, csr, recs, freeSlots, nextPage, wr, rd, vlatch>>
  PROVE  ProtocolSound'
<1>1. PICK x : x = [job[k] EXCEPT !.pc = "done", !.held = FALSE]
  OBVIOUS
<1>2. x.pc = "done" /\ ~x.held /\ SameFootprint(job[k], x)
  BY <1>1, JobFields DEF JobType, SameFootprint
<1>3. job' = [job EXCEPT ![k] = x]
  BY <1>1 DEF EndJob
<1>4. \A j \in Jobs : job'[j] = IF j = k THEN x ELSE job[j]
  BY <1>3, OneJob, Zenon
<1>5. DOMAIN x.loc = {} /\ x.page = job[k].page /\ x.published = job[k].published
        /\ x.freed = job[k].freed
  BY <1>2 DEF CInv, LocsInPhase, SameFootprint
<1>6. PhaseKnown(x) /\ ~Owning(x) /\ ~Running(x)
  BY <1>2, <1>5 DEF ProtocolSound, PhasesKnown, PhaseKnown, Moving, Owning, Running, Forwarding
<1>7. ForwardersKept'
  BY <1>2, <1>4, <1>5, ForwardersStay DEF Forwarding
<1>8. QED
  BY <1>2, <1>4, <1>6, <1>7, JobAdvances DEF Forwarding

LEMMA SmoFetchSound ==
  ASSUME CInv, ProtocolSound, NEW k \in Jobs, SmoFetch(k)
  PROVE  ProtocolSound'
<1>1. PICK p : p = job[k].page
  OBVIOUS
<1>2. CASE get_delta_chain_length(p) < ChainThreshold
  BY <1>1, <1>2, EarlyEndSound DEF SmoFetch, pvars, wvars, rvars
<1>3. CASE ~(get_delta_chain_length(p) < ChainThreshold)
  <2>1. PICK x : x = [job[k] EXCEPT !.pc = "merge", !.ds = chain[p]]
    OBVIOUS
  <2>2. /\ job[k].pc = "start" /\ job' = [job EXCEPT ![k] = x]
        /\ chain' = [chain EXCEPT ![p] = <<>>]
        /\ UNCHANGED <<fwd, cur, csr, recs, freeSlots, nextPage, wr, rd, vlatch>>
    BY <1>1, <1>3, <2>1 DEF SmoFetch, fetch_deltas_with_mark, pvars, wvars, rvars
  <2>3. x.pc = "merge" /\ x.held = job[k].held /\ SameFootprint(job[k], x)
    BY <2>1, JobFields DEF JobType, SameFootprint
  <2>4. \A j \in Jobs : job'[j] = IF j = k THEN x ELSE job[j]
    BY <2>2, OneJob, Zenon
  <2>5. /\ x.page = p /\ DOMAIN x.loc = {} /\ x.published = job[k].published
        /\ x.freed = job[k].freed /\ job[k].held
    BY <1>1, <2>2, <2>3 DEF CInv, LocsInPhase, SameFootprint, ProtocolSound, PhasesKnown, PhaseKnown
  <2>6. PhaseKnown(x) /\ Running(job[k]) /\ ~Owning(x)
    BY <2>2, <2>3, <2>5 DEF ProtocolSound, PhasesKnown, PhaseKnown, Moving, Owning, Running,
       Forwarding
  <2>7. chain[p] # <<>>
    <3> SUFFICES ASSUME chain[p] = <<>> PROVE FALSE
      OBVIOUS
    <3>1. Len(chain[p]) = 0
      OBVIOUS
    <3>2. RecsPerPage \in Nat \ {0} /\ ChainThreshold \in Nat \ {0}
      BY ConsolidationAssumption
    <3>3. PageCount(0) = 0
      BY <3>2 DEF PageCount
    <3>4. get_delta_chain_length(p) = 0
      BY <3>1, <3>3 DEF get_delta_chain_length
    <3>5. QED
      BY <1>3, <3>2, <3>4
  <2>8. ASSUME NEW j \in Jobs \ {k}, Working(job[j]), job[j].page = p PROVE FALSE
    <3>1. ~job[j].held
      BY <1>1, <2>5, <2>8 DEF CInv, ClaimExclusive
    <3>2. job[j].pc \notin {"none", "start", "merge", "build", "install", "drain"}
      BY <2>8, <3>1 DEF ProtocolSound, PhasesKnown, PhaseKnown, Working, Owning, CInv, LocsInPhase
    <3>3. job[j].pc \in Drained /\ Owning(job[j])
      <4>1. job[j].pc \in JobPCs /\ job[j].pc # "failed"
        BY JobFields DEF JobType, JobPCs, ProtocolSound, PhasesKnown, PhaseKnown
      <4>2. QED
        BY <2>8, <3>2, <4>1 DEF Working, JobPCs, Drained
    <3>4. QED
      BY <2>7, <2>8, <3>3 DEF ProtocolSound, ChainsDrained
  <2>9. ForwardersKept'
    BY <1>1, <2>2, <2>3, <2>4, <2>5, ForwardersStay DEF Forwarding
  <2>10. \A q \in Pages : chain'[q] \in {chain[q], <<>>}
    BY <2>2 DEF CInv, TypeOK, PagesTyped
  <2>11. QED
    BY <2>2, <2>3, <2>4, <2>5, <2>6, <2>8, <2>9, <2>10, JobAdvances DEF Forwarding
<1>4. QED
  BY <1>2, <1>3

LEMMA SmoMergeSound ==
  ASSUME CInv, ProtocolSound, NEW k \in Jobs, SmoMerge(k)
  PROVE  ProtocolSound'
<1>1. PICK g : g = build_merged_graph(csr[job[k].page], job[k].ds)
  OBVIOUS
<1>2. CASE DOMAIN g = {}
  BY <1>1, <1>2, EarlyEndSound DEF SmoMerge, pvars, wvars, rvars
<1>3. CASE DOMAIN g # {}
  <2>1. PICK x : x = [job[k] EXCEPT !.pc = "build", !.graph = g]
    OBVIOUS
  <2>2. /\ job[k].pc = "merge" /\ job' = [job EXCEPT ![k] = x]
        /\ UNCHANGED <<chain, fwd, cur, csr, recs, freeSlots, nextPage, wr, rd, vlatch>>
    BY <1>1, <1>3, <2>1 DEF SmoMerge, pvars, wvars, rvars
  <2>3. x.pc = "build" /\ x.held = job[k].held /\ x.graph = g /\ SameFootprint(job[k], x)
    BY <2>1, JobFields DEF JobType, SameFootprint
  <2>4. \A j \in Jobs : job'[j] = IF j = k THEN x ELSE job[j]
    BY <2>2, OneJob, Zenon
  <2>5. /\ x.page = job[k].page /\ DOMAIN x.loc = {} /\ x.published = job[k].published
        /\ x.freed = job[k].freed /\ job[k].held
    BY <2>2, <2>3 DEF CInv, LocsInPhase, SameFootprint, ProtocolSound, PhasesKnown, PhaseKnown
  <2>6. PhaseKnown(x) /\ Running(job[k]) /\ ~Owning(x)
    BY <1>3, <2>2, <2>3, <2>5 DEF ProtocolSound, PhasesKnown, PhaseKnown, Moving, Owning, Running,
       Forwarding
  <2>7. \A j \in Jobs \ {k} : ~(Working(job[j]) /\ job[j].page = x.page)
    BY <2>2, <2>5 DEF ProtocolSound, PagesApart, Working
  <2>8. DOMAIN csr[x.page] \subseteq DOMAIN x.graph
    BY <1>1, <2>3, <2>5 DEF build_merged_graph
  <2>9. ForwardersKept'
    BY <2>2, <2>3, <2>4, <2>5, ForwardersStay DEF Forwarding
  <2>10. QED
    BY <2>2, <2>3, <2>4, <2>6, <2>7, <2>8, <2>9, JobAdvances DEF Forwarding
<1>4. QED
  BY <1>2, <1>3

LEMMA SmoInstallSound ==
  ASSUME CInv, ProtocolSound, NEW k \in Jobs, SmoInstall(k)
  PROVE  ProtocolSound'
<1>1. PICK x : x = [job[k] EXCEPT !.pc = "drain"]
  OBVIOUS
<1>2. /\ job[k].pc = "install" /\ job' = [job EXCEPT ![k] = x]
      /\ fwd' = [fwd EXCEPT ![job[k].page] = k]
      /\ UNCHANGED <<chain, cur, csr, recs, freeSlots, nextPage, wr, rd, vlatch>>
  BY <1>1 DEF SmoInstall, pvars, wvars, rvars
<1>3. x.pc = "drain" /\ x.held = job[k].held /\ SameFootprint(job[k], x)
  BY <1>1, JobFields DEF JobType, SameFootprint
<1>4. \A j \in Jobs : job'[j] = IF j = k THEN x ELSE job[j]
  BY <1>2, OneJob, Zenon
<1>5. /\ x.page = job[k].page /\ x.loc = job[k].loc /\ x.published = job[k].published
      /\ x.freed = job[k].freed /\ Moving(x) = Moving(job[k]) /\ job[k].page \in Pages
  BY <1>3, FootprintKept, JobFields DEF SameFootprint
<1>6. PhaseKnown(x) /\ Running(job[k]) /\ Owning(job[k])
  BY <1>2, <1>3, <1>5 DEF ProtocolSound, PhasesKnown, PhaseKnown, Owning, Running, Forwarding
<1>7. ASSUME NEW j \in Jobs \ {k}, job[j].pc \in Forwarding, job[j].page = job[k].page PROVE FALSE
  <2>1. Owning(job[j]) \/ Lingering(job[j])
    BY <1>7 DEF ProtocolSound, PhasesKnown, PhaseKnown, Owning, Lingering, Forwarding
  <2>2. ~Owning(job[j])
    BY <1>6, <1>7 DEF ProtocolSound, PagesApart, Working
  <2>3. ~Lingering(job[j])
    BY <1>6, <1>7 DEF ProtocolSound, LingeringAlone
  <2>4. QED
    BY <2>1, <2>2, <2>3
<1>8. ForwardersKept'
  <2>1. fwd'[job[k].page] = k /\ \A p \in Pages \ {job[k].page} : fwd'[p] = fwd[p]
    BY <1>2, <1>5, QuietTypes
  <2>2. \A p \in Pages : fwd[p] # 0 => fwd[p] \in Jobs
    BY QuietTypes, ConsolidationAssumption DEF Jobs
  <2>3. \A j \in Jobs : job[j].page \in Pages
    BY JobFields
  <2>4. \A j \in Jobs : job'[j].pc \in Forwarding => fwd'[job'[j].page] = j
    BY <1>4, <1>5, <1>7, <2>1, <2>3 DEF ProtocolSound, ForwardersKept
  <2>5. \A p \in Pages : fwd'[p] # 0 => job'[fwd'[p]].pc \in Forwarding /\ job'[fwd'[p]].page = p
    <3> SUFFICES ASSUME NEW p \in Pages, fwd'[p] # 0
                 PROVE  job'[fwd'[p]].pc \in Forwarding /\ job'[fwd'[p]].page = p
      OBVIOUS
    <3>1. CASE p = job[k].page
      BY <1>3, <1>4, <1>5, <2>1, <3>1 DEF Forwarding
    <3>2. CASE p # job[k].page
      <4>1. fwd'[p] = fwd[p] /\ fwd[p] \in Jobs /\ job[fwd[p]].pc \in Forwarding /\ job[fwd[p]].page = p
        BY <2>1, <2>2, <3>2 DEF ProtocolSound, ForwardersKept
      <4>2. QED
        BY <1>4, <3>2, <4>1
    <3>3. QED
      BY <3>1, <3>2
  <2>6. QED
    BY <2>4, <2>5 DEF ForwardersKept
<1>9. QED
  BY <1>2, <1>3, <1>4, <1>6, <1>8, JobAdvances DEF Forwarding, Drained

LEMMA SmoDrainSound ==
  ASSUME CInv, ProtocolSound, NEW k \in Jobs, SmoDrain(k)
  PROVE  ProtocolSound'
<1>1. PICK p : p = job[k].page
  OBVIOUS
<1>2. PICK x : x = [job[k] EXCEPT !.pc = "strays", !.stray = chain[p]]
  OBVIOUS
<1>3. /\ job[k].pc = "drain" /\ job' = [job EXCEPT ![k] = x]
      /\ chain' = [chain EXCEPT ![p] = <<>>]
      /\ UNCHANGED <<fwd, cur, csr, recs, freeSlots, nextPage, wr, rd, vlatch>>
  BY <1>1, <1>2 DEF SmoDrain, fetch_deltas_with_mark, pvars, wvars, rvars
<1>4. x.pc = "strays" /\ x.held = job[k].held /\ x.stray = chain[p] /\ SameFootprint(job[k], x)
  BY <1>2, JobFields DEF JobType, SameFootprint
<1>5. \A j \in Jobs : job'[j] = IF j = k THEN x ELSE job[j]
  BY <1>3, OneJob, Zenon
<1>6. /\ x.page = p /\ x.loc = job[k].loc /\ x.published = job[k].published
      /\ x.freed = job[k].freed /\ Moving(x) = Moving(job[k]) /\ p \in Pages
  BY <1>1, <1>4, FootprintKept, JobFields DEF SameFootprint
<1>7. PhaseKnown(x) /\ Running(job[k]) /\ Owning(job[k])
  BY <1>3, <1>4, <1>6 DEF ProtocolSound, PhasesKnown, PhaseKnown, Owning, Running, Forwarding
<1>8. ForwardersKept'
  BY <1>1, <1>3, <1>4, <1>5, <1>6, ForwardersStay DEF Forwarding
<1>9. chain'[p] = <<>> /\ \A q \in Pages : chain'[q] \in {chain[q], <<>>}
  BY <1>3, <1>6 DEF CInv, TypeOK, PagesTyped
<1>10. \A i \in 1 .. Len(x.stray) : recs[x.stray[i]].src \in DOMAIN x.loc
  BY <1>1, <1>4, <1>6, <1>7 DEF ProtocolSound, ChainsStored, PagesCovered
<1>11. QED
  BY <1>3, <1>4, <1>5, <1>6, <1>7, <1>8, <1>9, <1>10, JobAdvances DEF Forwarding

LEMMA SmoStageSound ==
  ASSUME CInv, ProtocolSound, NEW k \in Jobs, SmoStage(k)
  PROVE  ProtocolSound'
<1>1. PICK x : x = IF ManualSwitch THEN [job[k] EXCEPT !.pc = "pending", !.held = FALSE]
                   ELSE [job[k] EXCEPT !.pc = "final"]
  OBVIOUS
<1>2. /\ job[k].pc = "strays" /\ job' = [job EXCEPT ![k] = x]
      /\ UNCHANGED <<chain, fwd, cur, csr, recs, freeSlots, nextPage, wr, rd, vlatch>>
  BY <1>1 DEF SmoStage, EndJob, pvars, wvars, rvars
<1>3. /\ SameFootprint(job[k], x)
      /\ IF ManualSwitch THEN x.pc = "pending" /\ ~x.held ELSE x.pc = "final" /\ x.held = job[k].held
  BY <1>1, JobFields DEF JobType, SameFootprint
<1>4. \A j \in Jobs : job'[j] = IF j = k THEN x ELSE job[j]
  BY <1>2, OneJob, Zenon
<1>5. /\ x.page = job[k].page /\ x.loc = job[k].loc /\ x.published = job[k].published
      /\ x.freed = job[k].freed /\ Moving(x) = Moving(job[k])
  BY <1>3, FootprintKept DEF SameFootprint
<1>6. PhaseKnown(x) /\ Running(job[k]) /\ Owning(job[k])
  BY <1>2, <1>3, <1>5 DEF ProtocolSound, PhasesKnown, PhaseKnown, Owning, Running, Forwarding
<1>7. ForwardersKept'
  BY <1>2, <1>3, <1>4, <1>5, ForwardersStay DEF Forwarding
<1>8. chain'[x.page] = <<>>
  BY <1>2, <1>5, <1>6 DEF ProtocolSound, ChainsDrained, Drained
<1>9. QED
  BY <1>2, <1>3, <1>4, <1>6, <1>7, <1>8, JobAdvances DEF Forwarding

LEMMA PublishNextSound ==
  ASSUME CInv, ProtocolSound, NEW k \in Jobs, PublishNext(k)
  PROVE  ProtocolSound'
<1>1. PICK x : x = [job[k] EXCEPT !.pc = "final"]
  OBVIOUS
<1>2. /\ job[k].pc = "pending" /\ job' = [job EXCEPT ![k] = x]
      /\ UNCHANGED <<chain, fwd, cur, csr, recs, freeSlots, nextPage, wr, rd, vlatch>>
  BY <1>1 DEF PublishNext, pvars, wvars, rvars
<1>3. x.pc = "final" /\ x.held = job[k].held /\ SameFootprint(job[k], x)
  BY <1>1, JobFields DEF JobType, SameFootprint
<1>4. \A j \in Jobs : job'[j] = IF j = k THEN x ELSE job[j]
  BY <1>2, OneJob, Zenon
<1>5. /\ x.page = job[k].page /\ x.loc = job[k].loc /\ x.published = job[k].published
      /\ x.freed = job[k].freed /\ Moving(x) = Moving(job[k])
  BY <1>3, FootprintKept DEF SameFootprint
<1>6. PhaseKnown(x) /\ Running(job[k]) /\ Owning(job[k])
  BY <1>2, <1>3, <1>5 DEF ProtocolSound, PhasesKnown, PhaseKnown, Owning, Running, Forwarding
<1>7. ForwardersKept'
  BY <1>2, <1>3, <1>4, <1>5, ForwardersStay DEF Forwarding
<1>8. chain'[x.page] = <<>>
  BY <1>2, <1>5, <1>6 DEF ProtocolSound, ChainsDrained, Drained
<1>9. QED
  BY <1>2, <1>3, <1>4, <1>6, <1>7, <1>8, JobAdvances DEF Forwarding

LEMMA SmoDetachSound ==
  ASSUME CInv, ProtocolSound, NEW k \in Jobs, NEW pc \in {"done", "threw"}, SmoDetach(k, pc)
  PROVE  ProtocolSound'
<1>1. PICK x : x = [job[k] EXCEPT !.pc = pc, !.held = FALSE]
  OBVIOUS
<1>2. /\ job[k].pc = "final" /\ job[k].published = DOMAIN job[k].loc
      /\ job' = [job EXCEPT ![k] = x] /\ fwd' = [fwd EXCEPT ![job[k].page] = 0]
      /\ UNCHANGED <<chain, cur, csr, recs, freeSlots, nextPage, wr, rd, vlatch>>
  BY <1>1 DEF SmoDetach, EndJob, pvars, wvars, rvars
<1>3. x.pc = pc /\ ~x.held /\ SameFootprint(job[k], x)
  BY <1>1, JobFields DEF JobType, SameFootprint
<1>4. \A j \in Jobs : job'[j] = IF j = k THEN x ELSE job[j]
  <2>1. job' = [job EXCEPT ![k] = x]
    BY <1>2
  <2>2. QED
    BY <2>1, OneJob
<1>5. /\ x.page = job[k].page /\ x.loc = job[k].loc /\ x.published = job[k].published
      /\ x.freed = job[k].freed /\ Moving(x) = {} /\ job[k].page \in Pages
      /\ (Owning(x) <=> Owning(job[k]))
  BY <1>2, <1>3, FootprintKept, JobFields DEF SameFootprint, Moving
<1>6. PhaseKnown(x) /\ Running(job[k])
  BY <1>2, <1>3, <1>5 DEF ProtocolSound, PhasesKnown, PhaseKnown, Running, Forwarding
<1>7. ForwardersKept'
  <2>1. fwd'[job[k].page] = 0 /\ \A p \in Pages \ {job[k].page} : fwd'[p] = fwd[p]
    BY <1>2, <1>5, QuietTypes, ConsolidationAssumption
  <2>2. \A p \in Pages : fwd[p] # 0 => fwd[p] \in Jobs
    BY QuietTypes, ConsolidationAssumption DEF Jobs
  <2>3. \A j \in Jobs : job[j].page \in Pages
    BY JobFields
  <2>4. \A j \in Jobs : job'[j].pc \in Forwarding => j # k /\ job[j].pc \in Forwarding /\ job'[j] = job[j]
    BY <1>3, <1>4 DEF Forwarding
  <2>5. \A j \in Jobs : job'[j].pc \in Forwarding => fwd'[job'[j].page] = j
    BY <1>2, <2>1, <2>3, <2>4 DEF ProtocolSound, ForwardersKept, Forwarding
  <2>6. \A p \in Pages : fwd'[p] # 0 => job'[fwd'[p]].pc \in Forwarding /\ job'[fwd'[p]].page = p
    BY <1>4, <2>1, <2>2 DEF ProtocolSound, ForwardersKept
  <2>7. QED
    BY <2>5, <2>6 DEF ForwardersKept
<1>8. Owning(x) => chain'[x.page] = <<>>
  BY <1>2, <1>5 DEF ProtocolSound, ChainsDrained, Drained
<1>9. QED
  BY <1>2, <1>3, <1>4, <1>5, <1>6, <1>7, <1>8, JobAdvances DEF Forwarding

-----------------------------------------------------------------------------
(* Appends *)

\* A record is appended to the chain of a page that no job has drained.
LEMMA RecordAppended ==
  ASSUME CInv, ProtocolSound, NEW p \in Pages, NEW c,
         recs' = Append(recs, c), chain' = [chain EXCEPT ![p] = Append(@, Len(recs) + 1)],
         c.src \in DOMAIN csr[p], ~Unallocated(p),
         \A j \in Jobs : ~(Owning(job[j]) /\ job[j].pc \in Drained /\ job[j].page = p),
         \A j \in Jobs : /\ SameFootprint(job[j], job'[j]) /\ job'[j].pc = job[j].pc
                         /\ job'[j].held = job[j].held /\ job'[j].graph = job[j].graph
                         /\ \A i \in 1 .. Len(job'[j].stray) :
                              \E m \in 1 .. Len(job[j].stray) : job'[j].stray[i] = job[j].stray[m],
         WritersKnown',
         \A w \in Writers : wr'[w].pc # "idle" => wr[w].pc # "idle" /\ wr'[w].ver = wr[w].ver,
         \A r \in Readers : rd'[r].pc # "idle" => rd[r].pc # "idle" /\ rd'[r].page = rd[r].page,
         UNCHANGED <<csr, cur, fwd, freeSlots, nextPage>>
  PROVE  ProtocolSound'
<1>1. \A j \in Jobs : Moving(job'[j]) = Moving(job[j]) /\ (Owning(job'[j]) <=> Owning(job[j]))
  BY FootprintKept
<1>2. \A j \in Jobs : /\ job'[j].page = job[j].page /\ job'[j].loc = job[j].loc
                      /\ job'[j].expect = job[j].expect /\ job'[j].pc = job[j].pc
                      /\ job'[j].published = job[j].published /\ job'[j].freed = job[j].freed
                      /\ job'[j].held = job[j].held /\ job'[j].graph = job[j].graph
  BY DEF SameFootprint
<1>3. \A j \in Jobs : /\ Working(job'[j]) <=> Working(job[j])
                      /\ Running(job'[j]) <=> Running(job[j])
                      /\ Lingering(job'[j]) <=> Lingering(job[j])
  BY <1>1, <1>2 DEF Working, Running, Lingering
<1>4. \A j \in Jobs : PhaseKnown(job[j]) => PhaseKnown(job'[j])
  BY <1>1, <1>2 DEF PhaseKnown
<1>5. /\ recs \in Seq(Records) /\ Len(recs) \in Nat /\ chain \in [Pages -> Seq(Nat)]
      /\ \A q \in Pages : \A i \in 1 .. Len(chain[q]) : chain[q][i] \in 1 .. Len(recs)
  BY DEF CInv, TypeOK, VerticesTyped, PagesTyped, LocsValid
<1>6. recs'[Len(recs) + 1] = c /\ \A i \in 1 .. Len(recs) : recs'[i] = recs[i]
  BY <1>5
<1>7. PhasesKnown'
  BY <1>4 DEF ProtocolSound, PhasesKnown
<1>8. VersionsExpected' /\ VersionsPlaced' /\ VersionsMoved'
  BY <1>1, <1>2 DEF ProtocolSound, VersionsExpected, VersionsPlaced, VersionsMoved
<1>9. VerticesStored' /\ PagesCovered'
  BY <1>1, <1>2 DEF ProtocolSound, VerticesStored, PagesCovered
<1>10. ChainsStored'
  <2> SUFFICES ASSUME NEW q \in Pages, NEW i \in 1 .. Len(chain'[q])
               PROVE  recs'[chain'[q][i]].src \in DOMAIN csr[q]
    BY DEF ChainsStored
  <2>1. CASE q # p
    <3>1. chain'[q] = chain[q]
      BY <1>5, <2>1
    <3>2. QED
      BY <1>5, <1>6, <3>1 DEF ProtocolSound, ChainsStored
  <2>2. CASE q = p
    <3>1. chain'[p] = Append(chain[p], Len(recs) + 1) /\ chain[p] \in Seq(Nat)
      BY <1>5
    <3>2. CASE i \in 1 .. Len(chain[p])
      <4>1. chain'[q][i] = chain[q][i]
        BY <2>2, <3>1, <3>2
      <4>2. QED
        BY <1>5, <1>6, <2>2, <3>2, <4>1 DEF ProtocolSound, ChainsStored
    <3>3. CASE i = Len(chain[p]) + 1
      BY <1>6, <2>2, <3>1, <3>3
    <3>4. Len(chain'[p]) = Len(chain[p]) + 1 /\ Len(chain[p]) \in Nat
      BY <3>1
    <3>5. i \in 1 .. Len(chain'[p])
      BY <2>2
    <3>6. PICK n \in Nat : n = Len(chain[p]) /\ i \in 1 .. n + 1
      BY <3>4, <3>5
    <3>7. i \in 1 .. n \/ i = n + 1
      BY <3>6
    <3>8. QED
      BY <3>2, <3>3, <3>6, <3>7
  <2>3. QED
    BY <2>1, <2>2
<1>11. StraysCovered'
  <2> SUFFICES ASSUME NEW j \in Jobs, job'[j].pc = "strays", NEW i \in 1 .. Len(job'[j].stray)
               PROVE  recs'[job'[j].stray[i]].src \in DOMAIN job'[j].loc
    BY DEF StraysCovered
  <2>1. PICK m \in 1 .. Len(job[j].stray) : job'[j].stray[i] = job[j].stray[m]
    OBVIOUS
  <2>2. job[j].stray[m] \in 1 .. Len(recs)
    BY JobLocsNow DEF JobLocs
  <2>3. recs[job[j].stray[m]].src \in DOMAIN job[j].loc
    BY <1>2 DEF ProtocolSound, StraysCovered
  <2>4. QED
    BY <1>2, <1>6, <2>1, <2>2, <2>3
<1>12. PagesApart' /\ TargetsApart'
  BY <1>1, <1>2, <1>3 DEF ProtocolSound, PagesApart, TargetsApart
<1>13. ChainsDrained'
  <2>1. \A q \in Pages \ {p} : chain'[q] = chain[q]
    BY <1>5
  <2>2. \A j \in Jobs : job[j].page \in Pages
    BY JobFields
  <2>3. QED
    BY <1>1, <1>2, <2>1, <2>2 DEF ProtocolSound, ChainsDrained
<1>14. ForwardersKept'
  <2>1. \A q \in Pages : fwd[q] # 0 => fwd[q] \in Jobs
    BY QuietTypes, ConsolidationAssumption DEF Jobs
  <2>2. QED
    BY <1>2, <2>1 DEF ProtocolSound, ForwardersKept
<1>15. LingeringAlone'
  BY <1>2, <1>3 DEF ProtocolSound, LingeringAlone
<1>16. SlotsDistinct'
  BY DEF ProtocolSound, SlotsDistinct
<1>17. FreeUnused'
  <2> SUFFICES ASSUME NEW q \in Pages, Unallocated(q) PROVE PageUnused(q)'
    BY DEF FreeUnused, Unallocated
  <2>1. PageUnused(q)
    BY DEF ProtocolSound, FreeUnused
  <2>2. chain'[q] = chain[q]
    <3>1. q # p
      OBVIOUS
    <3>2. QED
      BY <1>5, <3>1
  <2>3. \A j \in Jobs : (Running(job'[j]) /\ job'[j].page = q) => Lingering(job'[j])
    BY <1>2, <1>3, <2>1 DEF PageUnused
  <2>4. \A j \in Jobs : \A v \in Moving(job'[j]) : job'[j].loc[v] # q
    BY <1>1, <1>2, <2>1 DEF PageUnused
  <2>5. \A j \in Jobs : Owning(job'[j]) => job'[j].page # q
    BY <1>1, <1>2, <2>1 DEF PageUnused
  <2>6. QED
    BY <2>1, <2>2, <2>3, <2>4, <2>5 DEF PageUnused
<1>18. QED
  BY <1>7, <1>8, <1>9, <1>10, <1>11, <1>12, <1>13, <1>14, <1>15, <1>16, <1>17 DEF ProtocolSound

\* A vertex that a job moves is stored on its new page, which is allocated and
\* which no job empties.
LEMMA TargetOpen ==
  ASSUME CInv, ProtocolSound, NEW k \in Jobs, NEW v \in Moving(job[k])
  PROVE  /\ v \in Vertices /\ job[k].loc[v] \in Pages
         /\ v \in DOMAIN csr[job[k].loc[v]] /\ ~Unallocated(job[k].loc[v])
         /\ \A j \in Jobs : Owning(job[j]) => job[j].page # job[k].loc[v]
<1>1. v \in Vertices /\ job[k].loc[v] \in Pages
  BY JobFields, PartialElim DEF Moving
<1>2. v \in DOMAIN csr[job[k].loc[v]]
  BY DEF ProtocolSound, VerticesStored
<1>3. ~Unallocated(job[k].loc[v])
  BY <1>1 DEF ProtocolSound, FreeUnused, PageUnused
<1>4. QED
  BY <1>1, <1>2, <1>3 DEF ProtocolSound, TargetsApart

\* The records of a stray list that has lost its first one.
LEMMA TailOf ==
  ASSUME NEW s \in Seq(Nat), s # <<>>
  PROVE  \A i \in 1 .. Len(Tail(s)) : i + 1 \in 1 .. Len(s) /\ Tail(s)[i] = s[i + 1]
  OBVIOUS

LEMMA WriterAppendSound ==
  ASSUME CInv, ProtocolSound, NEW w \in Writers, WriterAppend(w), Healthy, Healthy'
  PROVE  ProtocolSound'
<1>1. PICK v : v = wr[w].v
  OBVIOUS
<1>2. PICK k : k = wr[w].fwd
  OBVIOUS
<1>3. PICK p : p = IF wr[w].rerouted THEN job[k].loc[v] ELSE wr[w].ver.page
  OBVIOUS
<1>4. PICK c : c = Record(v, wr[w].typ, wr[w].d, head[v])
  OBVIOUS
<1>5. PICK q \in {"check", "return"} : q = IF wr[w].typ = "INSERT" THEN "check" ELSE "return"
  OBVIOUS
<1>6. /\ wr[w].pc = "append" /\ recs' = Append(recs, c)
      /\ chain' = [chain EXCEPT ![p] = Append(@, Len(recs) + 1)]
      /\ vlatch' = [vlatch EXCEPT ![v] = NoWriter]
      /\ wr' = [wr EXCEPT ![w].pc = q]
      /\ UNCHANGED <<csr, cur, fwd, freeSlots, nextPage>>
  BY <1>1, <1>2, <1>3, <1>4, <1>5 DEF WriterAppend, pvars
<1>7. c.src = v
  BY <1>4 DEF Record
<1>8. /\ wr[w] \in Updating /\ v \in Vertices /\ wr[w].ver.page \in Pages
      /\ wr[w].rerouted \in BOOLEAN /\ WriterKnown(w, wr[w])
  BY <1>1, <1>6, WriterFields DEF ProtocolSound, WritersKnown
<1>9. wr[w].ver = cur[v] /\ vlatch[v] = w
  BY <1>1, <1>6, <1>8 DEF WriterKnown
<1>10. wr[w].rerouted => k \in Jobs /\ v \in Moving(job[k])
  BY <1>1, <1>2, <1>6, <1>8 DEF WriterKnown, CInv, RoutesResolve
<1>11. fwd[p] = 0
  <2>1. hist'.races = IF fwd[p] # 0 THEN hist.races \cup {"late append"} ELSE hist.races
    <3>1. hist \in Histories
      BY QuietTypes
    <3>2. PICK g, r : hist' = [hist EXCEPT !.graph = g,
                                           !.races = IF fwd[p] # 0 THEN @ \cup {"late append"} ELSE @,
                                           !.rerouted = r]
      <4>1. PICK g : g = [hist.graph EXCEPT ![v] = IF wr[w].typ = "INSERT" THEN @ \cup {wr[w].d}
                                                   ELSE @ \ {wr[w].d}]
        OBVIOUS
      <4>2. PICK r : r = IF wr[w].rerouted THEN hist.rerouted \cup {<<k, v, wr[w].d>>}
                         ELSE hist.rerouted
        OBVIOUS
      <4>3. hist' = [hist EXCEPT !.graph = g,
                                 !.races = IF fwd[p] # 0 THEN @ \cup {"late append"} ELSE @,
                                 !.rerouted = r]
        BY <1>1, <1>2, <1>3, <4>1, <4>2 DEF WriterAppend
      <4>4. QED
        BY <4>3
    <3>3. QED
      BY <3>1, <3>2 DEF Histories
  <2>2. ASSUME fwd[p] # 0 PROVE FALSE
    <3>1. "late append" \in hist'.races
      BY <2>1, <2>2
    <3>2. "late append" \in {"dropped"}
      BY <3>1 DEF Healthy
    <3>3. QED
      BY <3>2, Zenon
  <2>3. QED
    BY <2>2
<1>12. /\ p \in Pages /\ v \in DOMAIN csr[p] /\ ~Unallocated(p)
       /\ \A j \in Jobs : ~(Owning(job[j]) /\ job[j].pc \in Drained /\ job[j].page = p)
  <2>1. CASE wr[w].rerouted
    BY <1>3, <1>10, <2>1, TargetOpen
  <2>2. CASE ~wr[w].rerouted
    <3>1. p = cur[v].page /\ p \in Pages
      BY <1>3, <1>8, <1>9, <2>2
    <3>2. v \in DOMAIN csr[p] /\ ~Unallocated(p)
      BY <1>8, <3>1 DEF ProtocolSound, VerticesStored, FreeUnused, PageUnused
    <3>3. ASSUME NEW j \in Jobs, Owning(job[j]), job[j].pc \in Drained, job[j].page = p PROVE FALSE
      <4>1. v \in DOMAIN job[j].loc
        BY <3>2, <3>3 DEF ProtocolSound, PagesCovered
      <4>2. v \notin job[j].published
        BY <3>1, <3>3 DEF ProtocolSound, VersionsMoved
      <4>3. job[j].pc \notin {"done", "threw"}
        BY <4>1, <4>2 DEF ProtocolSound, PhasesKnown, PhaseKnown, Moving
      <4>4. fwd[p] = j
        BY <3>3, <4>3 DEF ProtocolSound, ForwardersKept, Drained, Forwarding
      <4>5. QED
        BY <1>11, <4>4 DEF Jobs
    <3>4. QED
      BY <3>1, <3>2, <3>3
  <2>3. QED
    BY <1>8, <2>1, <2>2
<1>13. \A j \in Jobs : /\ SameFootprint(job[j], job'[j]) /\ job'[j].pc = job[j].pc
                       /\ job'[j].held = job[j].held /\ job'[j].graph = job[j].graph
                       /\ job'[j].stray = job[j].stray
  <2>1. CASE ~wr[w].rerouted
    BY <2>1 DEF WriterAppend, SameFootprint
  <2>2. CASE wr[w].rerouted
    <3>1. PICK t : t = note_rerouted_tail(job[k].tail, v, Len(recs) + 1)
      OBVIOUS
    <3>2. PICK x : x = [job[k] EXCEPT !.tail = t]
      OBVIOUS
    <3>3. job' = [job EXCEPT ![k] = x]
      BY <1>1, <1>2, <2>2, <3>1, <3>2 DEF WriterAppend
    <3>4. /\ SameFootprint(job[k], x) /\ x.pc = job[k].pc /\ x.held = job[k].held
          /\ x.graph = job[k].graph /\ x.stray = job[k].stray
      BY <1>10, <2>2, <3>2, JobFields DEF JobType, SameFootprint
    <3>5. \A j \in Jobs : job'[j] = IF j = k THEN x ELSE job[j]
      BY <1>10, <2>2, <3>3, OneJob
    <3>6. QED
      BY <3>4, <3>5 DEF SameFootprint
  <2>3. QED
    BY <1>8, <2>1, <2>2
<1>14. /\ wr'[w].pc = q /\ wr'[w].v = wr[w].v /\ wr'[w].ver = wr[w].ver
       /\ \A u \in Writers \ {w} : wr'[u] = wr[u]
  BY <1>6, <1>8 DEF CInv, TypeOK, CallsTyped, Updating
<1>15. WritersKnown'
  <2> SUFFICES ASSUME NEW u \in Writers, wr'[u].pc # "idle" PROVE WriterKnown(u, wr[u])'
    BY DEF WritersKnown, WriterKnown
  <2>1. wr[u].pc # "idle" /\ wr'[u].v = wr[u].v /\ wr'[u].ver = wr[u].ver
    BY <1>6, <1>14
  <2>2. WriterKnown(u, wr[u]) /\ wr[u].v \in Vertices
    BY <2>1, WriterFields DEF ProtocolSound, WritersKnown
  <2>3. wr'[u].pc \in {"probe", "append"} => /\ u # w /\ wr'[u] = wr[u]
                                             /\ wr'[u].ver = cur[wr'[u].v] /\ vlatch'[wr'[u].v] = u
    <3>1. wr'[u].pc \in {"probe", "append"} => u # w /\ wr'[u] = wr[u]
      BY <1>14
    <3>2. wr'[u].pc \in {"probe", "append"} => vlatch[wr[u].v] = u /\ wr[u].v # v
      BY <1>9, <2>2, <3>1 DEF WriterKnown
    <3>3. \A y \in Vertices : y # v => vlatch'[y] = vlatch[y]
      BY <1>6 DEF CInv, TypeOK, VerticesTyped
    <3>4. QED
      BY <2>2, <3>1, <3>2, <3>3 DEF WriterKnown
  <2>4. (wr'[u].pc = "append" /\ wr'[u].rerouted) =>
          job'[wr'[u].fwd].pc \in Forwarding /\ wr'[u].v \in Moving(job'[wr'[u].fwd])
    <3>1. (wr[u].pc = "append" /\ wr[u].rerouted) => wr[u].fwd \in Jobs
      BY DEF CInv, RoutesResolve
    <3>2. \A j \in Jobs : Moving(job'[j]) = Moving(job[j])
      BY <1>13, FootprintKept
    <3>3. QED
      BY <1>13, <2>2, <2>3, <3>1, <3>2 DEF WriterKnown
  <2>5. \/ wr'[u].ver = cur'[wr'[u].v]
        \/ \E j \in Jobs : /\ Owning(job'[j]) /\ job'[j].page = wr'[u].ver.page
                           /\ wr'[u].v \in DOMAIN job'[j].loc /\ wr'[u].ver = job'[j].expect[wr'[u].v]
    <3>1. CASE wr[u].ver = cur[wr[u].v]
      BY <1>6, <2>1, <3>1
    <3>2. CASE \E j \in Jobs : /\ Owning(job[j]) /\ job[j].page = wr[u].ver.page
                           /\ wr[u].v \in DOMAIN job[j].loc /\ wr[u].ver = job[j].expect[wr[u].v]
      <4>1. PICK j \in Jobs : /\ Owning(job[j]) /\ job[j].page = wr[u].ver.page
                              /\ wr[u].v \in DOMAIN job[j].loc /\ wr[u].ver = job[j].expect[wr[u].v]
        BY <3>2
      <4>2. Owning(job'[j])
        BY <1>13, <4>1, FootprintKept
      <4>3. QED
        BY <1>13, <2>1, <4>1, <4>2 DEF SameFootprint
    <3>3. QED
      BY <2>1, <2>2, <3>1, <3>2 DEF WriterKnown
  <2>6. QED
    BY <1>6, <2>3, <2>4, <2>5 DEF WriterKnown
<1>16. \A r \in Readers : rd'[r].pc # "idle" => rd[r].pc # "idle" /\ rd'[r].page = rd[r].page
  <2> SUFFICES ASSUME NEW r \in Readers, rd'[r].pc # "idle"
               PROVE  rd[r].pc # "idle" /\ rd'[r].page = rd[r].page
    OBVIOUS
  <2>1. rd'[r] = rd[r] \/ (rd[r].pc # "idle" /\ \E a, b : rd'[r] = [rd[r] EXCEPT !.in = a, !.out = b])
    BY DEF WriterAppend
  <2>2. CASE rd'[r] = rd[r]
    BY <2>2
  <2>3. CASE rd[r].pc # "idle" /\ \E a, b : rd'[r] = [rd[r] EXCEPT !.in = a, !.out = b]
    <3>1. rd[r] \in Walking
      BY <2>3, ReaderCases DEF CInv, TypeOK
    <3>2. QED
      BY <2>3, <3>1 DEF Walking
  <2>4. QED
    BY <2>1, <2>2, <2>3
<1>17. \A u \in Writers : wr'[u].pc # "idle" => wr[u].pc # "idle" /\ wr'[u].ver = wr[u].ver
  BY <1>6, <1>14
<1>18. QED
  BY <1>6, <1>7, <1>12, <1>13, <1>15, <1>16, <1>17, RecordAppended

\* No stray is homeless, and rerouting one is an append.
LEMMA SmoStraySound ==
  ASSUME CInv, ProtocolSound, NEW k \in Jobs, SmoStray(k), Healthy'
  PROVE  ProtocolSound'
<1>1. PICK s : s = Head(job[k].stray)
  OBVIOUS
<1>2. PICK v : v = recs[s].src
  OBVIOUS
<1>3. job[k].pc = "strays" /\ job[k].stray # <<>> /\ job[k].stray \in Seq(Nat)
  BY JobFields DEF SmoStray
<1>4. v \in DOMAIN job[k].loc
  <2>1. 1 \in 1 .. Len(job[k].stray) /\ s = job[k].stray[1]
    BY <1>1, <1>3
  <2>2. QED
    BY <1>2, <1>3, <2>1 DEF ProtocolSound, StraysCovered
<1>5. v \in Moving(job[k])
  BY <1>3, <1>4 DEF Moving, ProtocolSound, PhasesKnown, PhaseKnown
<1>6. PICK p : p = job[k].loc[v]
  OBVIOUS
<1>7. PICK c : c = Record(v, recs[s].typ, recs[s].dst, head[v])
  OBVIOUS
<1>8. PICK x : x = [job[k] EXCEPT !.stray = Tail(@),
                                  !.tail = note_rerouted_tail(@, v, Len(recs) + 1)]
  OBVIOUS
<1>9. /\ recs' = Append(recs, c) /\ chain' = [chain EXCEPT ![p] = Append(@, Len(recs) + 1)]
      /\ job' = [job EXCEPT ![k] = x]
      /\ UNCHANGED <<csr, cur, fwd, freeSlots, nextPage, wr, rd, vlatch>>
  <2>1. hist' # [hist EXCEPT !.races = @ \cup {"halted"}]
    <3> SUFFICES ASSUME hist' = [hist EXCEPT !.races = @ \cup {"halted"}] PROVE FALSE
      OBVIOUS
    <3>1. hist'.races = hist.races \cup {"halted"}
      BY QuietTypes DEF Histories
    <3>2. QED
      BY <3>1 DEF Healthy
  <2>2. QED
    BY <1>1, <1>2, <1>4, <1>6, <1>7, <1>8, <2>1 DEF SmoStray, pvars, rvars
<1>10. c.src = v
  BY <1>7 DEF Record
<1>11. /\ p \in Pages /\ v \in DOMAIN csr[p] /\ ~Unallocated(p)
       /\ \A j \in Jobs : Owning(job[j]) => job[j].page # p
  BY <1>5, <1>6, TargetOpen
<1>12. /\ SameFootprint(job[k], x) /\ x.pc = job[k].pc /\ x.held = job[k].held
       /\ x.graph = job[k].graph /\ x.stray = Tail(job[k].stray)
  BY <1>8, JobFields DEF JobType, SameFootprint
<1>13. \A j \in Jobs : job'[j] = IF j = k THEN x ELSE job[j]
  BY <1>9, OneJob, Zenon
<1>14. \A i \in 1 .. Len(x.stray) : \E m \in 1 .. Len(job[k].stray) : x.stray[i] = job[k].stray[m]
  BY <1>3, <1>12, TailOf
<1>15. \A j \in Jobs : /\ SameFootprint(job[j], job'[j]) /\ job'[j].pc = job[j].pc
                       /\ job'[j].held = job[j].held /\ job'[j].graph = job[j].graph
                       /\ \A i \in 1 .. Len(job'[j].stray) :
                            \E m \in 1 .. Len(job[j].stray) : job'[j].stray[i] = job[j].stray[m]
  <2> SUFFICES ASSUME NEW j \in Jobs
               PROVE  /\ SameFootprint(job[j], job'[j]) /\ job'[j].pc = job[j].pc
                      /\ job'[j].held = job[j].held /\ job'[j].graph = job[j].graph
                      /\ \A i \in 1 .. Len(job'[j].stray) :
                           \E m \in 1 .. Len(job[j].stray) : job'[j].stray[i] = job[j].stray[m]
    OBVIOUS
  <2>1. CASE j = k
    <3>1. job'[j] = x
      BY <1>13, <2>1
    <3>2. QED
      BY <1>12, <1>14, <2>1, <3>1
  <2>2. CASE j # k
    <3>1. job'[j] = job[j]
      BY <1>13, <2>2
    <3>2. QED
      BY <3>1 DEF SameFootprint
  <2>3. QED
    BY <2>1, <2>2
<1>16. WritersKnown'
  <2> SUFFICES ASSUME NEW w \in Writers, wr[w].pc # "idle" PROVE WriterKnown(w, wr[w])'
    BY <1>9 DEF WritersKnown, WriterKnown
  <2>1. WriterKnown(w, wr[w])
    BY DEF ProtocolSound, WritersKnown
  <2>2. \A j \in Jobs : /\ Moving(job'[j]) = Moving(job[j]) /\ (Owning(job'[j]) <=> Owning(job[j]))
                        /\ job'[j].page = job[j].page /\ job'[j].loc = job[j].loc
                        /\ job'[j].expect = job[j].expect /\ job'[j].pc = job[j].pc
    BY <1>15, FootprintKept DEF SameFootprint
  <2>3. (wr[w].pc = "append" /\ wr[w].rerouted) => wr[w].fwd \in Jobs
    BY DEF CInv, RoutesResolve
  <2>4. QED
    BY <1>9, <2>1, <2>2, <2>3 DEF WriterKnown
<1>17. QED
  BY <1>9, <1>10, <1>11, <1>15, <1>16, RecordAppended

-----------------------------------------------------------------------------
(* Jobs start, switch versions and give pages back *)

LEMMA JobStarts ==
  ASSUME CInv, ProtocolSound, NEW n \in Jobs, job[n].pc = "none", NEW p \in Pages,
         \A j \in Jobs : job'[j] = IF j = n THEN NewJob(p) ELSE job[j],
         ~Unallocated(p), \A j \in Jobs : Lingering(job[j]) => job[j].page # p,
         \A w \in Writers : wr'[w].pc # "idle" => /\ wr[w].pc # "idle" /\ wr'[w].ver = wr[w].ver
                                                  /\ wr'[w].v = wr[w].v /\ wr'[w].fwd = wr[w].fwd
                                                  /\ wr'[w].rerouted = wr[w].rerouted
                                                  /\ wr'[w].pc \in {wr[w].pc, "return"},
         UNCHANGED <<csr, cur, recs, chain, fwd, freeSlots, nextPage, rd, vlatch>>
  PROVE  ProtocolSound'
<1>1. PICK y : y = NewJob(p)
  OBVIOUS
<1>2. /\ y.pc = "start" /\ y.held /\ y.page = p /\ y.published = {} /\ ~y.freed
      /\ DOMAIN y.loc = {}
  BY <1>1 DEF NewJob, Nothing
<1>3. DOMAIN job[n].loc = {} /\ PhaseKnown(job[n])
  BY DEF CInv, LocsInPhase, ProtocolSound, PhasesKnown
<1>4. PhaseKnown(y) /\ Moving(y) = {} /\ ~Owning(y) /\ ~Working(y) /\ ~Lingering(y)
  BY <1>2 DEF PhaseKnown, Moving, Owning, Working, Lingering, Forwarding
<1>5. Moving(job[n]) = {} /\ ~Owning(job[n]) /\ ~Working(job[n]) /\ ~Lingering(job[n])
  BY <1>3 DEF PhaseKnown, Moving, Owning, Working, Lingering
<1>6. job'[n] = y /\ \A j \in Jobs \ {n} : job'[j] = job[j]
  BY <1>1
<1>7. \A j \in Jobs : /\ Moving(job'[j]) = Moving(job[j]) /\ (Owning(job'[j]) <=> Owning(job[j]))
                      /\ (Working(job'[j]) <=> Working(job[j]))
                      /\ (Lingering(job'[j]) <=> Lingering(job[j]))
  BY <1>4, <1>5, <1>6
<1>8. PhasesKnown'
  BY <1>4, <1>6 DEF ProtocolSound, PhasesKnown
<1>9. VersionsExpected' /\ VersionsMoved'
  BY <1>4, <1>6 DEF ProtocolSound, VersionsExpected, VersionsMoved
<1>10. VersionsPlaced'
  BY <1>2, <1>6 DEF ProtocolSound, VersionsPlaced
<1>11. VerticesStored'
  BY <1>4, <1>6 DEF ProtocolSound, VerticesStored
<1>12. ChainsStored' /\ SlotsDistinct'
  BY DEF ProtocolSound, ChainsStored, SlotsDistinct
<1>13. PagesCovered' /\ StraysCovered'
  BY <1>2, <1>4, <1>6 DEF ProtocolSound, PagesCovered, StraysCovered
<1>14. PagesApart' /\ TargetsApart' /\ ChainsDrained'
  BY <1>4, <1>6 DEF ProtocolSound, PagesApart, TargetsApart, ChainsDrained
<1>15. ForwardersKept'
  <2>1. \A q \in Pages : fwd[q] # 0 => fwd[q] \in Jobs
    BY QuietTypes, ConsolidationAssumption DEF Jobs
  <2>2. \A q \in Pages : fwd[q] # 0 => fwd[q] # n
    BY DEF ProtocolSound, ForwardersKept, Forwarding
  <2>3. QED
    BY <1>2, <1>6, <2>1, <2>2 DEF ProtocolSound, ForwardersKept, Forwarding
<1>16. LingeringAlone'
  BY <1>2, <1>4, <1>6 DEF ProtocolSound, LingeringAlone
<1>17. WritersKnown'
  <2> SUFFICES ASSUME NEW w \in Writers, wr'[w].pc # "idle" PROVE WriterKnown(w, wr[w])'
    BY DEF WritersKnown, WriterKnown
  <2>1. WriterKnown(w, wr[w])
    BY DEF ProtocolSound, WritersKnown
  <2>2. /\ wr[w].pc # "idle" /\ wr'[w].ver = wr[w].ver
        /\ wr'[w].v = wr[w].v /\ wr'[w].fwd = wr[w].fwd
        /\ wr'[w].rerouted = wr[w].rerouted /\ wr'[w].pc \in {wr[w].pc, "return"}
    OBVIOUS
  <2>3. (wr[w].pc = "append" /\ wr[w].rerouted) => wr[w].fwd \in Jobs \ {n}
    BY <2>1 DEF CInv, RoutesResolve, WriterKnown, Forwarding
  <2>4. QED
    BY <1>5, <1>6, <2>1, <2>2, <2>3 DEF WriterKnown
<1>18. FreeUnused'
  <2> SUFFICES ASSUME NEW q \in Pages, Unallocated(q) PROVE PageUnused(q)'
    BY DEF FreeUnused, Unallocated
  <2>1. PageUnused(q) /\ q # p
    BY DEF ProtocolSound, FreeUnused
  <2>2. \A j \in Jobs : (Running(job'[j]) /\ job'[j].page = q) => Lingering(job'[j])
    BY <1>2, <1>6, <2>1 DEF PageUnused
  <2>3. \A j \in Jobs : \A v \in Moving(job'[j]) : job'[j].loc[v] # q
    BY <1>4, <1>6, <2>1 DEF PageUnused
  <2>4. \A j \in Jobs : Owning(job'[j]) => job'[j].page # q
    BY <1>4, <1>6, <2>1 DEF PageUnused
  <2>5. QED
    BY <2>1, <2>2, <2>3, <2>4 DEF PageUnused
<1>19. QED
  BY <1>8, <1>9, <1>10, <1>11, <1>12, <1>13, <1>14, <1>15, <1>16, <1>17, <1>18 DEF ProtocolSound

LEMMA WriterClaimSound ==
  ASSUME CInv, ProtocolSound, NEW w \in Writers, WriterClaim(w)
  PROVE  ProtocolSound'
<1>1. PICK p : p = wr[w].ver.page
  OBVIOUS
<1>2. /\ wr[w].pc = "claim" /\ wr[w] \in Updating /\ p \in Pages
  BY <1>1, WriterFields DEF WriterClaim
<1>3. CASE UNCHANGED job
  <2>1. wr' = [wr EXCEPT ![w].pc = "return"]
    BY DEF WriterClaim
  <2>2. QED
    BY <1>2, <1>3, <2>1, WriterPcSound DEF WriterClaim, pvars, rvars
<1>4. CASE njobs < MaxJob /\ job' = [job EXCEPT ![njobs + 1] = NewJob(p)]
  <2>1. PICK n : n = njobs + 1
    OBVIOUS
  <2>2. n \in Jobs /\ n > njobs
    BY <1>4, <2>1, ConsolidationAssumption DEF Jobs, CInv, TypeOK, JobsTyped
  <2>3. job[n].pc = "none"
    BY <2>2 DEF CInv, JobsInOrder
  <2>4. \A j \in Jobs : job'[j] = IF j = n THEN NewJob(p) ELSE job[j]
    BY <1>4, <2>1, <2>2, OneJob
  <2>5. ~Unallocated(p) /\ \A j \in Jobs : Lingering(job[j]) => job[j].page # p
    BY <1>1, <1>2 DEF ProtocolSound, FreeUnused, PageUnused, LingeringAlone
  <2>6. PICK x : x = [wr[w] EXCEPT !.pc = "return"]
    OBVIOUS
  <2>7. x.pc = "return" /\ x.ver = wr[w].ver /\ x.v = wr[w].v /\ x.fwd = wr[w].fwd
          /\ x.rerouted = wr[w].rerouted
    BY <1>2, <2>6 DEF Updating
  <2>8. wr' = [wr EXCEPT ![w] = x]
    BY <2>6 DEF WriterClaim
  <2>9. wr'[w] = x /\ \A u \in Writers \ {w} : wr'[u] = wr[u]
    BY <2>8 DEF CInv, TypeOK, CallsTyped
  <2>10. \A u \in Writers : wr'[u].pc # "idle" => /\ wr[u].pc # "idle" /\ wr'[u].ver = wr[u].ver
                                                  /\ wr'[u].v = wr[u].v /\ wr'[u].fwd = wr[u].fwd
                                                  /\ wr'[u].rerouted = wr[u].rerouted
                                                  /\ wr'[u].pc \in {wr[u].pc, "return"}
    BY <1>2, <2>7, <2>9
  <2>11. QED
    BY <1>2, <2>2, <2>3, <2>4, <2>5, <2>10, JobStarts DEF WriterClaim, pvars, rvars
<1>5. QED
  BY <1>1, <1>3, <1>4 DEF WriterClaim

\* A page that is given back has no user left.
LEMMA ReclaimSound ==
  ASSUME CInv, ProtocolSound, NEW k \in Jobs, Reclaim(k)
  PROVE  ProtocolSound'
<1>1. PICK x : x = [job[k] EXCEPT !.freed = TRUE]
  OBVIOUS
<1>2. PICK p : p = job[k].page
  OBVIOUS
<1>3. /\ job' = [job EXCEPT ![k] = x] /\ freeSlots' = Append(freeSlots, p)
      /\ job[k].published # {} /\ job[k].published = DOMAIN job[k].loc /\ ~job[k].freed
      /\ UNCHANGED <<csr, nextPage, cur, recs, chain, fwd, wr, rd, vlatch>>
      /\ \A w \in Writers : ~Protects(w, k)
      /\ ~Pinned(p)
  BY <1>1, <1>2 DEF Reclaim, wvars, rvars
<1>4. /\ x.freed /\ x.page = p /\ x.loc = job[k].loc /\ x.expect = job[k].expect
      /\ x.published = job[k].published /\ x.pc = job[k].pc /\ x.held = job[k].held
      /\ x.graph = job[k].graph /\ x.stray = job[k].stray
  BY <1>1, <1>2, JobFields DEF JobType
<1>5. \A j \in Jobs : job'[j] = IF j = k THEN x ELSE job[j]
  <2>1. job' = [job EXCEPT ![k] = x]
    BY <1>3
  <2>2. QED
    BY <2>1, OneJob
<1>6. job'[k] = x /\ \A j \in Jobs \ {k} : job'[j] = job[j]
  BY <1>5
<1>7. Moving(x) = {} /\ Moving(job[k]) = {} /\ Owning(job[k]) /\ ~Owning(x) /\ p \in Pages
  BY <1>2, <1>3, <1>4, JobFields DEF Moving, Owning
<1>8. job[k].pc \in {"final", "done", "threw"} /\ ~job[k].held
  BY <1>2, <1>3 DEF ProtocolSound, PhasesKnown, PhaseKnown, Pinned
<1>9. \A v \in Vertices : cur[v].page # p
  <2> SUFFICES ASSUME NEW v \in Vertices, cur[v].page = p PROVE FALSE
    OBVIOUS
  <2>1. v \in DOMAIN job[k].loc
    BY <1>2, <1>7 DEF ProtocolSound, VerticesStored, PagesCovered
  <2>2. QED
    BY <1>2, <1>3, <1>7, <2>1 DEF ProtocolSound, VersionsMoved
<1>10. \A j \in Jobs \ {k} : Working(job[j]) => job[j].page # p
  BY <1>2, <1>7 DEF ProtocolSound, PagesApart, Working
<1>11. \A w \in Writers : wr[w].pc # "idle" => wr[w].ver.page # p
  <2> SUFFICES ASSUME NEW w \in Writers, wr[w].pc # "idle", wr[w].ver.page = p PROVE FALSE
    OBVIOUS
  <2>1. WriterKnown(w, wr[w]) /\ wr[w].v \in Vertices
    BY WriterFields DEF ProtocolSound, WritersKnown
  <2>2. wr[w].ver # cur[wr[w].v]
    BY <1>9, <2>1
  <2>3. wr[w].v \in DOMAIN job[k].loc /\ wr[w].ver = job[k].expect[wr[w].v]
    BY <1>10, <2>1, <2>2 DEF WriterKnown, Working
  <2>4. wr[w].v \in DOMAIN job[k].expect
    BY <2>3, JobFields
  <2>5. QED
    BY <1>3, <2>3, <2>4 DEF Protects
<1>12. ASSUME NEW j \in Jobs \ {k}, Running(job[j]), job[j].page = p PROVE Lingering(job[j])
  <2>1. ~job[j].held
    BY <1>3, <1>12 DEF Pinned
  <2>2. job[j].pc \in {"pending", "final"}
    <3>1. job[j].pc \in JobPCs /\ PhaseKnown(job[j])
      BY JobFields DEF JobType, JobPCs, ProtocolSound, PhasesKnown
    <3>2. QED
      BY <1>12, <2>1, <3>1 DEF PhaseKnown, Running, JobPCs
  <2>3. DOMAIN job[j].loc # {} /\ job[j].freed
    BY <1>10, <1>12, <2>2 DEF ProtocolSound, PhasesKnown, PhaseKnown, Forwarding, Working, Owning
  <2>4. QED
    BY <2>2, <2>3 DEF Lingering, ProtocolSound, PhasesKnown, PhaseKnown
<1>13. \A j \in Jobs : /\ Moving(job'[j]) = Moving(job[j]) /\ (Owning(job'[j]) => Owning(job[j]))
                       /\ (Running(job'[j]) <=> Running(job[j]))
                       /\ (Lingering(job[j]) => Lingering(job'[j]))
                       /\ (Working(job'[j]) => Working(job[j]))
                       /\ job'[j].page = job[j].page /\ job'[j].loc = job[j].loc
                       /\ job'[j].expect = job[j].expect /\ job'[j].published = job[j].published
                       /\ job'[j].pc = job[j].pc /\ job'[j].graph = job[j].graph
                       /\ job'[j].stray = job[j].stray
  BY <1>2, <1>4, <1>6, <1>7 DEF Running, Lingering, Working
<1>14. PhasesKnown'
  <2>1. PhaseKnown(x)
    BY <1>3, <1>4, <1>7, <1>8 DEF ProtocolSound, PhasesKnown, PhaseKnown
  <2>2. QED
    BY <1>6, <2>1 DEF ProtocolSound, PhasesKnown
<1>15. VersionsExpected' /\ VersionsPlaced' /\ VersionsMoved'
  BY <1>3, <1>13 DEF ProtocolSound, VersionsExpected, VersionsPlaced, VersionsMoved
<1>16. VerticesStored' /\ ChainsStored' /\ PagesCovered' /\ StraysCovered'
  BY <1>3, <1>13 DEF ProtocolSound, VerticesStored, ChainsStored, PagesCovered, StraysCovered
<1>17. PagesApart' /\ TargetsApart' /\ ChainsDrained'
  BY <1>3, <1>13 DEF ProtocolSound, PagesApart, TargetsApart, ChainsDrained
<1>18. ForwardersKept'
  <2>1. \A q \in Pages : fwd[q] # 0 => fwd[q] \in Jobs
    BY QuietTypes, ConsolidationAssumption DEF Jobs
  <2>2. QED
    BY <1>3, <1>13, <2>1 DEF ProtocolSound, ForwardersKept
<1>19. LingeringAlone'
  <2> SUFFICES ASSUME NEW j \in Jobs, Lingering(job'[j])
               PROVE  /\ \A v \in Vertices : cur[v].page # job[j].page
                      /\ \A w \in Writers : wr[w].pc # "idle" => wr[w].ver.page # job[j].page
                      /\ \A i \in Jobs : (i # j /\ Running(job[i])) => job[i].page # job[j].page
    BY <1>3, <1>13 DEF LingeringAlone
  <2>1. CASE j # k
    BY <1>6, <2>1 DEF ProtocolSound, LingeringAlone
  <2>2. CASE j = k
    <3>1. Running(job[k]) /\ \A i \in Jobs \ {k} : Running(job[i]) => job[i].page # p
      <4>1. Running(job[k])
        BY <1>4, <1>6, <2>2 DEF Lingering, Running
      <4>2. \A i \in Jobs \ {k} : Lingering(job[i]) => job[i].page # p
        BY <1>2, <4>1 DEF ProtocolSound, LingeringAlone
      <4>3. QED
        BY <1>12, <4>1, <4>2
    <3>2. QED
      BY <1>2, <1>9, <1>11, <2>2, <3>1
  <2>3. QED
    BY <2>1, <2>2
<1>20. WritersKnown'
  <2> SUFFICES ASSUME NEW w \in Writers, wr[w].pc # "idle" PROVE WriterKnown(w, wr[w])'
    BY <1>3 DEF WritersKnown, WriterKnown
  <2>1. WriterKnown(w, wr[w])
    BY DEF ProtocolSound, WritersKnown
  <2>2. (wr[w].pc = "append" /\ wr[w].rerouted) => wr[w].fwd \in Jobs
    BY DEF CInv, RoutesResolve
  <2>3. \A j \in Jobs : (Owning(job[j]) /\ job[j].page = wr[w].ver.page) => Owning(job'[j])
    BY <1>2, <1>6, <1>11
  <2>4. QED
    BY <1>3, <1>13, <2>1, <2>2, <2>3 DEF WriterKnown
<1>21. /\ freeSlots \in Seq(Pages) /\ nextPage \in Nat /\ Len(freeSlots) \in Nat
       /\ DOMAIN freeSlots = 1 .. Len(freeSlots)
       /\ DOMAIN freeSlots' = 1 .. Len(freeSlots) + 1 /\ freeSlots'[Len(freeSlots) + 1] = p
       /\ \A i \in 1 .. Len(freeSlots) : freeSlots'[i] = freeSlots[i]
  <2>1. freeSlots \in Seq(Pages) /\ nextPage \in Nat
    BY QuietTypes
  <2>2. QED
    BY <1>3, <1>7, <2>1
<1>22. ~Unallocated(p)
  BY <1>2, <1>7 DEF ProtocolSound, FreeUnused, PageUnused
<1>23. SlotsDistinct'
  <2>1. p < nextPage /\ \A i \in 1 .. Len(freeSlots) : freeSlots[i] # p
    BY <1>7, <1>21, <1>22 DEF Unallocated, Pages
  <2>2. \A i, j \in DOMAIN freeSlots : freeSlots[i] = freeSlots[j] => i = j
    BY DEF ProtocolSound, SlotsDistinct
  <2>3. \A i \in DOMAIN freeSlots : freeSlots[i] < nextPage
    BY DEF ProtocolSound, SlotsDistinct
  <2>4. \A i \in DOMAIN freeSlots' : i \in 1 .. Len(freeSlots) \/ i = Len(freeSlots) + 1
    BY <1>21
  <2>5. \A i \in DOMAIN freeSlots' : freeSlots'[i] < nextPage
    BY <1>21, <2>1, <2>3, <2>4
  <2>6. \A i, j \in DOMAIN freeSlots' : freeSlots'[i] = freeSlots'[j] => i = j
    BY <1>21, <2>1, <2>2, <2>4
  <2>7. QED
    BY <1>3, <2>5, <2>6 DEF SlotsDistinct
<1>24. FreeUnused'
  <2> SUFFICES ASSUME NEW q \in Pages, Unallocated(q)' PROVE PageUnused(q)'
    BY DEF FreeUnused
  <2>1. Unallocated(q) \/ q = p
    BY <1>3, <1>21 DEF Unallocated
  <2>2. CASE Unallocated(q)
    <3>1. PageUnused(q)
      BY <2>2 DEF ProtocolSound, FreeUnused
    <3>2. QED
      BY <1>3, <1>13, <3>1 DEF PageUnused
  <2>3. CASE q = p
    <3>1. \A j \in Jobs : \A v \in Moving(job'[j]) : job'[j].loc[v] # p
      BY <1>2, <1>7, <1>13 DEF ProtocolSound, TargetsApart
    <3>2. \A r \in Readers : rd[r].pc # "idle" => rd[r].page # p
      BY <1>3 DEF Pinned
    <3>3. \A j \in Jobs : (Running(job'[j]) /\ job'[j].page = p) => Lingering(job'[j])
      <4>1. Running(x) => Lingering(x)
        BY <1>4, <1>8 DEF Running, Lingering
      <4>2. QED
        BY <1>6, <1>12, <4>1
    <3>4. \A j \in Jobs : Owning(job'[j]) => job'[j].page # p
      BY <1>6, <1>7, <1>10 DEF Working
    <3>5. chain[p] = <<>>
      BY <1>2, <1>7, <1>8 DEF ProtocolSound, ChainsDrained, Drained
    <3>6. QED
      BY <1>3, <1>9, <1>11, <2>3, <3>1, <3>2, <3>3, <3>4, <3>5 DEF PageUnused
  <2>4. QED
    BY <2>1, <2>2, <2>3
<1>25. QED
  BY <1>14, <1>15, <1>16, <1>17, <1>18, <1>19, <1>20, <1>23, <1>24 DEF ProtocolSound

\* The exchange of a version wins.
LEMMA SmoFinalizeSound ==
  ASSUME CInv, ProtocolSound, NEW k \in Jobs, NEW v \in Vertices, SmoFinalize(k, v)
  PROVE  ProtocolSound'
<1>1. job[k].pc = "final" /\ v \in Moving(job[k]) /\ vlatch[v] = NoWriter
  BY DEF SmoFinalize, Moving
<1>2. PICK p : p = job[k].loc[v]
  OBVIOUS
<1>3. PICK x : x = [job[k] EXCEPT !.published = @ \cup {v}]
  OBVIOUS
<1>4. PICK y : y = [page |-> p, by |-> k]
  OBVIOUS
<1>5. cur[v] = job[k].expect[v] /\ cur[v].page = job[k].page
  BY <1>1 DEF ProtocolSound, VersionsExpected
<1>6. /\ cur' = [cur EXCEPT ![v] = y] /\ job' = [job EXCEPT ![k] = x]
      /\ UNCHANGED <<csr, freeSlots, nextPage, wr, vlatch, chain, fwd>>
  BY <1>2, <1>3, <1>4, <1>5 DEF SmoFinalize, pvars, wvars
<1>7. /\ p \in Pages /\ v \in DOMAIN csr[p] /\ ~Unallocated(p)
      /\ \A j \in Jobs : Owning(job[j]) => job[j].page # p
  BY <1>1, <1>2, TargetOpen
<1>8. y.page = p /\ cur'[v] = y /\ \A u \in Vertices \ {v} : cur'[u] = cur[u]
  BY <1>4, <1>6, QuietTypes
<1>9. /\ x.page = job[k].page /\ x.loc = job[k].loc /\ x.expect = job[k].expect
      /\ x.published = job[k].published \cup {v} /\ x.freed = job[k].freed /\ x.pc = "final"
      /\ x.held = job[k].held /\ x.graph = job[k].graph /\ x.stray = job[k].stray
  BY <1>1, <1>3, JobFields DEF JobType
<1>10. job'[k] = x /\ \A j \in Jobs \ {k} : job'[j] = job[j]
  <2>1. \A j \in Jobs : job'[j] = IF j = k THEN x ELSE job[j]
    BY <1>6, OneJob, Zenon
  <2>2. QED
    BY <2>1
<1>11. Moving(x) = Moving(job[k]) \ {v} /\ (Owning(x) <=> Owning(job[k])) /\ v \in DOMAIN job[k].loc
  BY <1>1, <1>9 DEF Moving, Owning
<1>12. \A j \in Jobs : /\ Moving(job'[j]) \subseteq Moving(job[j])
                       /\ (Owning(job'[j]) <=> Owning(job[j]))
                       /\ (Running(job'[j]) <=> Running(job[j]))
                       /\ (Lingering(job'[j]) <=> Lingering(job[j]))
                       /\ (Working(job'[j]) <=> Working(job[j]))
                       /\ job'[j].page = job[j].page /\ job'[j].loc = job[j].loc
                       /\ job'[j].expect = job[j].expect
                       /\ job'[j].pc = job[j].pc /\ job'[j].graph = job[j].graph
                       /\ job'[j].stray = job[j].stray
  BY <1>1, <1>9, <1>10, <1>11 DEF Running, Lingering, Working
<1>13. /\ Len(recs) \in Nat /\ Len(recs') = Len(recs)
       /\ \A i \in 1 .. Len(recs) : recs'[i].src = recs[i].src
  <2>1. recs \in Seq(Records) /\ Len(recs) \in Nat
    BY QuietTypes
  <2>2. PICK t : t = job[k].tail[v]
    OBVIOUS
  <2>3. CASE t = 0
    BY <2>1, <2>2, <2>3 DEF SmoFinalize
  <2>4. CASE t # 0
    <3>1. t \in 1 .. Len(recs)
      <4>1. t <= Len(recs) /\ t \in Nat
        BY <2>2, JobLocsNow, JobFields DEF JobLocs
      <4>2. QED
        BY <2>1, <2>4, <4>1
    <3>2. PICK e : e = [recs[t] EXCEPT !.next = 0]
      OBVIOUS
    <3>3. e \in Records /\ e.src = recs[t].src
      <4>1. recs[t] \in Records
        BY <2>1, <3>1
      <4>2. QED
        BY <3>2, <4>1 DEF Records
    <3>4. recs' = [recs EXCEPT ![t] = e]
      BY <2>2, <2>4, <3>2 DEF SmoFinalize, truncate_chain_at
    <3>5. Len(recs') = Len(recs) /\ \A i \in 1 .. Len(recs) : recs'[i] = IF i = t THEN e ELSE recs[i]
      BY <2>1, <3>1, <3>3, <3>4, ExceptSeq
    <3>6. QED
      BY <2>1, <3>3, <3>5
  <2>5. QED
    BY <2>3, <2>4
<1>14. \A r \in Readers : rd'[r].pc # "idle" => rd[r].pc # "idle" /\ rd'[r].page = rd[r].page
  <2> SUFFICES ASSUME NEW r \in Readers, rd'[r].pc # "idle"
               PROVE  rd[r].pc # "idle" /\ rd'[r].page = rd[r].page
    OBVIOUS
  <2>1. rd'[r] = rd[r] \/ (rd[r].pc # "idle" /\ rd'[r] = [rd[r] EXCEPT !.torn = TRUE])
    BY DEF SmoFinalize, CutBy
  <2>2. CASE rd'[r] = rd[r]
    BY <2>2
  <2>3. CASE rd[r].pc # "idle" /\ rd'[r] = [rd[r] EXCEPT !.torn = TRUE]
    <3>1. rd[r] \in Walking
      BY <2>3, ReaderCases DEF CInv, TypeOK
    <3>2. QED
      BY <2>3, <3>1 DEF Walking
  <2>4. QED
    BY <2>1, <2>2, <2>3
<1>15. Owning(job[k])
  BY <1>1, <1>11 DEF Owning, ProtocolSound, PhasesKnown, PhaseKnown
<1>16. \A j \in Jobs \ {k} : v \notin Moving(job[j])
  <2> SUFFICES ASSUME NEW j \in Jobs \ {k}, v \in Moving(job[j]) PROVE FALSE
    OBVIOUS
  <2>1. job[j].page = job[k].page
    BY <1>5 DEF ProtocolSound, VersionsExpected
  <2>2. Owning(job[j])
    BY DEF Moving, Owning, ProtocolSound, PhasesKnown, PhaseKnown
  <2>3. QED
    BY <1>15, <2>1, <2>2 DEF ProtocolSound, PagesApart, Working
<1>17. \A j \in Jobs : ~Lingering(job[j])
  <2> SUFFICES ASSUME NEW j \in Jobs, Lingering(job[j]) PROVE FALSE
    OBVIOUS
  <2>1. job[j].pc = "final" /\ ~job[j].held /\ Moving(job[j]) = {}
    BY DEF Lingering, ProtocolSound, PhasesKnown, PhaseKnown
  <2>2. ManualSwitch
    BY <2>1 DEF ProtocolSound, PhasesKnown, PhaseKnown
  <2>3. j = k
    BY <1>1, <2>1, <2>2 DEF CInv, SwitchesInOrder
  <2>4. QED
    BY <1>1, <2>1, <2>3
<1>18. PhasesKnown'
  <2>1. PhaseKnown(x)
    BY <1>1, <1>9, <1>11 DEF ProtocolSound, PhasesKnown, PhaseKnown
  <2>2. QED
    BY <1>10, <2>1 DEF ProtocolSound, PhasesKnown
<1>19. \A j \in Jobs : DOMAIN job[j].loc \subseteq Vertices
  BY JobFields, PartialElim
<1>20. VersionsExpected'
  <2> SUFFICES ASSUME NEW j \in Jobs, NEW u \in Moving(job'[j])
               PROVE  cur'[u] = job'[j].expect[u] /\ cur'[u].page = job'[j].page
    BY DEF VersionsExpected
  <2>1. u # v /\ u \in Moving(job[j])
    BY <1>10, <1>11, <1>16
  <2>2. u \in Vertices
    BY <1>19, <2>1 DEF Moving
  <2>3. QED
    BY <1>8, <1>12, <2>1, <2>2 DEF ProtocolSound, VersionsExpected
<1>21. VersionsPlaced'
  BY <1>12 DEF ProtocolSound, VersionsPlaced
<1>22. VersionsMoved'
  <2> SUFFICES ASSUME NEW j \in Jobs, Owning(job'[j]), NEW u \in job'[j].published
               PROVE  cur'[u].page # job'[j].page
    BY DEF VersionsMoved
  <2>1. CASE u = v
    BY <1>7, <1>8, <1>12, <2>1
  <2>2. CASE u # v
    <3>1. u \in job[j].published
      BY <1>9, <1>10, <2>2
    <3>2. u \in Vertices
      BY <3>1, JobFields
    <3>3. QED
      BY <1>8, <1>12, <2>2, <3>1, <3>2 DEF ProtocolSound, VersionsMoved
  <2>3. QED
    BY <2>1, <2>2
<1>23. VerticesStored'
  <2>1. \A u \in Vertices : u \in DOMAIN csr[cur'[u].page]
    BY <1>7, <1>8 DEF ProtocolSound, VerticesStored
  <2>2. \A j \in Jobs : \A u \in Moving(job'[j]) : u \in DOMAIN csr[job'[j].loc[u]]
    BY <1>12 DEF ProtocolSound, VerticesStored
  <2>3. QED
    BY <1>6, <2>1, <2>2 DEF VerticesStored
<1>24. ChainsStored'
  <2>1. \A q \in Pages : \A i \in 1 .. Len(chain[q]) : chain[q][i] \in 1 .. Len(recs)
    BY DEF CInv, TypeOK, LocsValid
  <2>2. QED
    BY <1>6, <1>13, <2>1 DEF ProtocolSound, ChainsStored
<1>25. PagesCovered'
  BY <1>6, <1>12 DEF ProtocolSound, PagesCovered
<1>26. StraysCovered'
  <2>1. \A j \in Jobs : \A i \in 1 .. Len(job[j].stray) : job[j].stray[i] \in 1 .. Len(recs)
    BY DEF CInv, TypeOK, LocsValid
  <2>2. QED
    BY <1>12, <1>13, <2>1 DEF ProtocolSound, StraysCovered
<1>27. PagesApart' /\ TargetsApart' /\ ChainsDrained'
  BY <1>6, <1>12 DEF ProtocolSound, PagesApart, TargetsApart, ChainsDrained
<1>28. ForwardersKept'
  <2>1. \A q \in Pages : fwd[q] # 0 => fwd[q] \in Jobs
    BY QuietTypes, ConsolidationAssumption DEF Jobs
  <2>2. QED
    BY <1>6, <1>12, <2>1 DEF ProtocolSound, ForwardersKept
<1>29. LingeringAlone'
  BY <1>12, <1>17 DEF LingeringAlone
<1>30. WritersKnown'
  <2> SUFFICES ASSUME NEW w \in Writers, wr[w].pc # "idle" PROVE WriterKnown(w, wr[w])'
    BY <1>6 DEF WritersKnown, WriterKnown
  <2>1. WriterKnown(w, wr[w]) /\ wr[w].v \in Vertices
    BY WriterFields DEF ProtocolSound, WritersKnown
  <2>2. wr[w].pc \in {"probe", "append"} => wr[w].v # v
    BY <1>1, <2>1, ConsolidationAssumption DEF WriterKnown
  <2>3. wr[w].pc \in {"probe", "append"} => wr[w].ver = cur'[wr[w].v] /\ vlatch[wr[w].v] = w
    BY <1>8, <2>1, <2>2 DEF WriterKnown
  <2>4. (wr[w].pc = "append" /\ wr[w].rerouted) =>
          job'[wr[w].fwd].pc \in Forwarding /\ wr[w].v \in Moving(job'[wr[w].fwd])
    <3>1. (wr[w].pc = "append" /\ wr[w].rerouted) => wr[w].fwd \in Jobs
      BY DEF CInv, RoutesResolve
    <3>2. QED
      BY <1>10, <1>11, <1>12, <2>1, <2>2, <3>1 DEF WriterKnown
  <2>5. \/ wr[w].ver = cur'[wr[w].v]
        \/ \E j \in Jobs : /\ Owning(job'[j]) /\ job'[j].page = wr[w].ver.page
                           /\ wr[w].v \in DOMAIN job'[j].loc /\ wr[w].ver = job'[j].expect[wr[w].v]
    <3>1. CASE wr[w].ver = cur[wr[w].v] /\ wr[w].v # v
      BY <1>8, <2>1, <3>1
    <3>2. CASE wr[w].ver = cur[wr[w].v] /\ wr[w].v = v
      BY <1>5, <1>11, <1>12, <1>15, <3>2
    <3>3. CASE \E j \in Jobs : /\ Owning(job[j]) /\ job[j].page = wr[w].ver.page
                           /\ wr[w].v \in DOMAIN job[j].loc /\ wr[w].ver = job[j].expect[wr[w].v]
      BY <1>12, <3>3
    <3>4. QED
      BY <2>1, <3>1, <3>2, <3>3 DEF WriterKnown
  <2>6. QED
    BY <1>6, <2>3, <2>4, <2>5 DEF WriterKnown
<1>31. SlotsDistinct'
  BY <1>6 DEF ProtocolSound, SlotsDistinct
<1>32. FreeUnused'
  <2> SUFFICES ASSUME NEW q \in Pages, Unallocated(q) PROVE PageUnused(q)'
    BY <1>6 DEF FreeUnused, Unallocated
  <2>1. PageUnused(q) /\ q # p
    BY <1>7 DEF ProtocolSound, FreeUnused
  <2>2. \A u \in Vertices : cur'[u].page # q
    BY <1>8, <2>1 DEF PageUnused
  <2>3. \A r \in Readers : rd'[r].pc # "idle" => rd'[r].page # q
    BY <1>14, <2>1 DEF PageUnused
  <2>4. \A j \in Jobs : \A u \in Moving(job'[j]) : job'[j].loc[u] # q
    BY <1>12, <2>1 DEF PageUnused
  <2>5. QED
    BY <1>6, <1>12, <2>1, <2>2, <2>3, <2>4 DEF PageUnused
<1>33. QED
  BY <1>18, <1>20, <1>21, <1>22, <1>23, <1>24, <1>25, <1>26, <1>27, <1>28, <1>29, <1>30, <1>31,
     <1>32 DEF ProtocolSound

\* Allocation hands out page numbers that were unallocated, each of them once.
LEMMA AllocatedFresh ==
  ASSUME CInv, SlotsDistinct, NEW n \in Nat, Allocated(n)
  PROVE  /\ \A i \in 1 .. n : Unallocated(allocate_page(n)[i])
         /\ \A p \in Nat : Unallocated(p)' =>
              Unallocated(p) /\ \A i \in 1 .. n : allocate_page(n)[i] # p
         /\ SlotsDistinct'
<1>1. PICK f \in Nat : f = Len(freeSlots) /\ DOMAIN freeSlots = 1 .. f
  BY QuietTypes
<1>2. nextPage \in Nat /\ freeSlots \in Seq(Pages) /\ \A i \in 1 .. f : freeSlots[i] \in Nat
  <2>1. nextPage \in Nat /\ freeSlots \in Seq(Pages)
    BY QuietTypes
  <2>2. \A i \in 1 .. f : freeSlots[i] \in Pages
    BY <1>1, <2>1
  <2>3. QED
    BY <2>1, <2>2 DEF Pages
<1>3. \A i, j \in 1 .. f : freeSlots[i] = freeSlots[j] => i = j
  BY <1>1 DEF SlotsDistinct
<1>4. \A i \in 1 .. f : freeSlots[i] < nextPage
  BY <1>1 DEF SlotsDistinct
<1>5. PICK new : new = allocate_page(n)
  OBVIOUS
<1>6. CASE n <= f
  <2>1. \A i \in 1 .. n : new[i] = freeSlots[f + 1 - i] /\ f + 1 - i \in 1 .. f
    BY <1>1, <1>5, <1>6 DEF allocate_page
  <2>2. freeSlots' = SubSeq(freeSlots, 1, f - n) /\ nextPage' = nextPage
    BY <1>1, <1>6 DEF Allocated
  <2>3. f - n \in Nat /\ \A i \in 1 .. f - n : i \in 1 .. f
    BY <1>6
  <2>4. DOMAIN freeSlots' = 1 .. f - n /\ \A i \in 1 .. f - n : freeSlots'[i] = freeSlots[i]
    BY <1>1, <1>2, <1>6, <2>2, <2>3
  <2>5. \A i \in 1 .. n : Unallocated(new[i])
    BY <1>1, <2>1 DEF Unallocated
  <2>6. ASSUME NEW p \in Nat, Unallocated(p)' PROVE Unallocated(p) /\ \A i \in 1 .. n : new[i] # p
    <3>1. CASE p >= nextPage
      <4>1. \A i \in 1 .. n : new[i] < nextPage /\ new[i] \in Nat
        BY <1>2, <1>4, <2>1
      <4>2. QED
        BY <1>2, <3>1, <4>1 DEF Unallocated
    <3>2. CASE \E m \in 1 .. f - n : freeSlots[m] = p
      <4>1. PICK m \in 1 .. f - n : freeSlots[m] = p
        BY <3>2
      <4>2. m \in 1 .. f /\ \A i \in 1 .. n : f + 1 - i # m
        BY <1>6, <4>1
      <4>3. \A i \in 1 .. n : new[i] # p
        BY <1>3, <2>1, <4>1, <4>2
      <4>4. QED
        BY <1>1, <4>1, <4>2, <4>3 DEF Unallocated
    <3>3. QED
      BY <2>2, <2>4, <2>6, <3>1, <3>2 DEF Unallocated
  <2>7. SlotsDistinct'
    BY <1>3, <1>4, <2>2, <2>3, <2>4 DEF SlotsDistinct
  <2>8. QED
    BY <1>5, <2>5, <2>6, <2>7
<1>7. CASE ~(n <= f)
  <2>1. \A i \in 1 .. n : new[i] = IF i <= f THEN freeSlots[f + 1 - i] ELSE nextPage + (i - f) - 1
    BY <1>1, <1>5, <1>7 DEF allocate_page
  <2>2. \A i \in 1 .. n : \/ new[i] = freeSlots[f + 1 - i] /\ f + 1 - i \in 1 .. f
                          \/ new[i] \in Nat /\ new[i] >= nextPage /\ new[i] < nextPage + (n - f)
    BY <1>2, <1>7, <2>1
  <2>3. freeSlots' = <<>> /\ nextPage' = nextPage + (n - f)
    BY <1>1, <1>7 DEF Allocated
  <2>4. DOMAIN freeSlots' = {}
    BY <2>3
  <2>5. \A i \in 1 .. n : Unallocated(new[i])
    BY <1>1, <2>2 DEF Unallocated
  <2>6. ASSUME NEW p \in Nat, Unallocated(p)' PROVE Unallocated(p) /\ \A i \in 1 .. n : new[i] # p
    <3>1. p >= nextPage + (n - f)
      BY <2>3, <2>4, <2>6 DEF Unallocated
    <3>2. \A i \in 1 .. n : new[i] \in Nat /\ new[i] < nextPage + (n - f)
      <4> SUFFICES ASSUME NEW i \in 1 .. n
                   PROVE  new[i] \in Nat /\ new[i] < nextPage + (n - f)
        OBVIOUS
      <4>1. CASE new[i] = freeSlots[f + 1 - i] /\ f + 1 - i \in 1 .. f
        <5>1. new[i] \in Nat /\ new[i] < nextPage
          BY <1>2, <1>4, <4>1
        <5>2. QED
          BY <1>2, <1>7, <5>1
      <4>2. QED
        BY <2>2, <4>1
    <3>3. QED
      BY <1>2, <1>7, <3>1, <3>2 DEF Unallocated
  <2>7. SlotsDistinct'
    BY <2>4 DEF SlotsDistinct
  <2>8. QED
    BY <1>5, <2>5, <2>6, <2>7
<1>8. QED
  BY <1>1, <1>6, <1>7

\* A preparation that throws ends its job with nothing placed; the page numbers
\* it took are lost.
LEMMA SmoThrowSound ==
  ASSUME CInv, ProtocolSound, NEW k \in Jobs, NEW n \in 0 .. MaxParts, SmoThrow(k, n)
  PROVE  ProtocolSound'
<1>1. PICK x : x = [job[k] EXCEPT !.pc = "threw", !.held = FALSE]
  OBVIOUS
<1>2. /\ job[k].pc = "build" /\ n \in Nat /\ Allocated(n) /\ job' = [job EXCEPT ![k] = x]
      /\ UNCHANGED <<chain, fwd, cur, csr, recs, wr, rd, vlatch>>
  <2>1. n \in Nat
    BY DEF MaxParts
  <2>2. job' = [job EXCEPT ![k] = x]
    BY <1>1 DEF SmoThrow, EndJob
  <2>3. QED
    BY <2>1, <2>2 DEF SmoThrow, wvars, rvars
<1>3. x.pc = "threw" /\ ~x.held /\ SameFootprint(job[k], x)
  BY <1>1, JobFields DEF JobType, SameFootprint
<1>4. \A j \in Jobs : job'[j] = IF j = k THEN x ELSE job[j]
  BY <1>2, OneJob, Zenon
<1>5. DOMAIN x.loc = {} /\ x.page = job[k].page /\ x.published = job[k].published
        /\ x.freed = job[k].freed
  BY <1>2, <1>3 DEF CInv, LocsInPhase, SameFootprint
<1>6. PhaseKnown(x) /\ ~Owning(x) /\ ~Running(x)
  BY <1>2, <1>3, <1>5 DEF ProtocolSound, PhasesKnown, PhaseKnown, Moving, Owning, Running, Forwarding
<1>7. ForwardersKept'
  BY <1>2, <1>3, <1>4, <1>5, ForwardersStay DEF Forwarding
<1>8. SlotsDistinct' /\ \A p \in Pages : Unallocated(p)' => Unallocated(p)
  BY <1>2, AllocatedFresh DEF ProtocolSound, Pages
<1>9. QED
  BY <1>2, <1>3, <1>4, <1>6, <1>7, <1>8, JobAdvancesAndTakes DEF Forwarding

\* No page number that is handed out is in use.
LEMMA UnallocatedFree ==
  ASSUME CInv, ProtocolSound, NEW p \in Pages, Unallocated(p)
  PROVE  ~InUse(p)
<1>1. PageUnused(p)
  BY DEF ProtocolSound, FreeUnused
<1>2. ~Pinned(p)
  <2>1. \A k \in Jobs : job[k].held => Running(job[k]) /\ ~job[k].freed
    BY DEF ProtocolSound, PhasesKnown, PhaseKnown, Running
  <2>2. QED
    BY <1>1, <2>1 DEF Pinned, PageUnused, Lingering
<1>3. DOMAIN cur = Vertices
  BY QuietTypes
<1>4. QED
  BY <1>1, <1>2, <1>3 DEF InUse, PageUnused, Moving

\* What a build does: unused pages take the merged vertices,
\* each of which is still on the old page.
LEMMA BuildTakes ==
  ASSUME CInv, ProtocolSound, NEW k \in Jobs, NEW place \in Placements, SmoBuild(k, place),
         Healthy, Healthy'
  PROVE  \E pgs, x :
           /\ pgs \subseteq Pages
           /\ \A p \in pgs : Unallocated(p) /\ PageUnused(p)
           /\ \A p \in Pages : Unallocated(p)' => Unallocated(p) /\ p \notin pgs
           /\ \A p \in Pages \ pgs : csr'[p] = csr[p]
           /\ \A v \in DOMAIN job[k].graph :
                /\ x.loc[v] \in pgs /\ v \in DOMAIN csr'[x.loc[v]]
                /\ csr'[x.loc[v]][v] = job[k].graph[v]
                /\ cur[v].page = job[k].page /\ x.expect[v] = cur[v]
           /\ DOMAIN x.loc = DOMAIN job[k].graph /\ DOMAIN x.expect = DOMAIN job[k].graph
           /\ x.page = job[k].page /\ x.pc = "install" /\ x.held = job[k].held
           /\ x.published = job[k].published /\ x.freed = job[k].freed /\ x.ds = job[k].ds
           /\ x.graph = job[k].graph /\ x.stray = job[k].stray /\ x.tail = job[k].tail
           /\ job'[k] = x /\ \A j \in Jobs \ {k} : job'[j] = job[j]
           /\ SlotsDistinct' /\ hist' = hist /\ job[k].pc = "build"
<1> DEFINE g == job[k].graph
           n == Cardinality({place[v] : v \in DOMAIN g})
           new == allocate_page(n)
<1>1. g = job[k].graph
  OBVIOUS
<1>2. n = Cardinality({place[v] : v \in DOMAIN g})
  OBVIOUS
<1>3. new = allocate_page(n)
  OBVIOUS
<1>4. PICK loc : loc = [v \in DOMAIN g |-> new[place[v]]]
  OBVIOUS
<1>5. PICK exp : exp = [v \in DOMAIN g |-> cur[v]]
  OBVIOUS
<1>6. PICK x : x = [job[k] EXCEPT !.pc = "install", !.loc = loc, !.expect = exp]
  OBVIOUS
<1>6a. \/ /\ csr' = [p \in Pages |->
                     IF p \in {new[i] : i \in 1 .. n}
                     THEN [v \in {u \in DOMAIN g : new[place[u]] = p} |-> g[v]]
                     ELSE csr[p]]
          /\ job' = [job EXCEPT ![k] = x]
          /\ hist' = IF \A v \in DOMAIN g : cur[v].page = job[k].page THEN hist
                     ELSE [hist EXCEPT !.races = @ \cup {"early build"}]
       \/ \E p \in {new[i] : i \in 1 .. n} : InUse(p)
  BY <1>4, <1>5, <1>6 DEF SmoBuild
<1> HIDE DEF g, n, new
<1>7. DOMAIN g \subseteq Vertices
  BY <1>1, JobFields, PartialElim
<1>8. n \in Nat
  <2>1. {place[v] : v \in DOMAIN g} \in SUBSET (1 .. 2)
    BY <1>7 DEF Placements, MaxParts
  <2>2. IsFiniteSet(1 .. 2)
    <3>1. 1 \in Int /\ 2 \in Int
      OBVIOUS
    <3>2. QED
      BY <3>1, FS_Interval, Zenon
  <2>3. QED
    BY <1>2, <2>1, <2>2, FS_Subset, FS_CardinalityType
<1>9. /\ job[k].pc = "build" /\ {place[v] : v \in DOMAIN g} = 1 .. n
      /\ Allocated(n) /\ {new[i] : i \in 1 .. n} \subseteq Pages
      /\ UNCHANGED <<wr, rd, vlatch, cur, recs, chain, fwd>>
  BY <1>1, <1>2, <1>3 DEF SmoBuild, wvars, rvars
<1>10. /\ \A i \in 1 .. n : Unallocated(new[i]) /\ new[i] \in Pages
       /\ \A p \in Nat : Unallocated(p)' => Unallocated(p) /\ \A i \in 1 .. n : new[i] # p
       /\ SlotsDistinct'
  <2>1. SlotsDistinct
    BY DEF ProtocolSound
  <2>2. \A i \in 1 .. n : new[i] \in Pages
    BY <1>9
  <2>3. QED
    BY <1>3, <1>8, <1>9, <2>1, <2>2, AllocatedFresh
<1>11. /\ csr' = [p \in Pages |->
                    IF p \in {new[i] : i \in 1 .. n}
                    THEN [v \in {u \in DOMAIN g : new[place[u]] = p} |-> g[v]]
                    ELSE csr[p]]
       /\ job' = [job EXCEPT ![k] = x]
       /\ hist' = IF \A v \in DOMAIN g : cur[v].page = job[k].page THEN hist
                  ELSE [hist EXCEPT !.races = @ \cup {"early build"}]
  <2>1. \A i \in 1 .. n : ~InUse(new[i])
    BY <1>10, UnallocatedFree
  <2>2. ~\E p \in {new[i] : i \in 1 .. n} : InUse(p)
    BY <2>1
  <2>3. QED
    BY <1>6a, <2>2
<1>12. \A v \in DOMAIN g : cur[v].page = job[k].page
  <2> SUFFICES ASSUME ~(\A v \in DOMAIN g : cur[v].page = job[k].page) PROVE FALSE
    OBVIOUS
  <2>1. hist' = [hist EXCEPT !.races = @ \cup {"early build"}] /\ hist \in Histories
    BY <1>11, QuietTypes
  <2>2. hist'.races = hist.races \cup {"early build"}
    BY <2>1 DEF Histories
  <2>3. QED
    BY <2>2 DEF Healthy
<1>13. PICK pgs : pgs = {new[i] : i \in 1 .. n}
  OBVIOUS
<1>14. /\ pgs \subseteq Pages /\ \A p \in pgs : Unallocated(p) /\ PageUnused(p)
       /\ \A p \in Pages : Unallocated(p)' => Unallocated(p) /\ p \notin pgs
  BY <1>10, <1>13 DEF ProtocolSound, FreeUnused, Pages
<1>15. \A v \in DOMAIN g : loc[v] = new[place[v]] /\ loc[v] \in pgs
  BY <1>4, <1>9, <1>13
<1>16. /\ \A p \in Pages \ pgs : csr'[p] = csr[p]
       /\ \A v \in DOMAIN g : v \in DOMAIN csr'[loc[v]] /\ csr'[loc[v]][v] = g[v]
  BY <1>11, <1>13, <1>14, <1>15
<1>17. /\ x.page = job[k].page /\ x.loc = loc /\ x.expect = exp /\ x.pc = "install"
       /\ x.held = job[k].held /\ x.published = job[k].published /\ x.freed = job[k].freed
       /\ x.graph = g /\ x.stray = job[k].stray /\ x.ds = job[k].ds /\ x.tail = job[k].tail
  BY <1>1, <1>6, JobFields DEF JobType
<1>18. job'[k] = x /\ \A j \in Jobs \ {k} : job'[j] = job[j]
  <2>1. \A j \in Jobs : job'[j] = IF j = k THEN x ELSE job[j]
    BY <1>11, OneJob, Zenon
  <2>2. QED
    BY <2>1
<1>19. /\ DOMAIN loc = DOMAIN g /\ DOMAIN exp = DOMAIN g /\ \A v \in DOMAIN g : exp[v] = cur[v]
  BY <1>4, <1>5
<1>20. hist' = hist
  BY <1>11, <1>12
<1>21. QED
  BY <1>1, <1>9, <1>10, <1>12, <1>14, <1>15, <1>16, <1>17, <1>18, <1>19, <1>20

LEMMA SmoBuildSound ==
  ASSUME CInv, ProtocolSound, NEW k \in Jobs, NEW place \in Placements, SmoBuild(k, place),
         Healthy, Healthy'
  PROVE  ProtocolSound'
<1>1. PICK g : g = job[k].graph
  OBVIOUS
<1>2. PICK pgs, x :
           /\ pgs \subseteq Pages
           /\ \A p \in pgs : Unallocated(p) /\ PageUnused(p)
           /\ \A p \in Pages : Unallocated(p)' => Unallocated(p) /\ p \notin pgs
           /\ \A p \in Pages \ pgs : csr'[p] = csr[p]
           /\ \A v \in DOMAIN g :
                /\ x.loc[v] \in pgs /\ v \in DOMAIN csr'[x.loc[v]]
                /\ cur[v].page = job[k].page /\ x.expect[v] = cur[v]
           /\ DOMAIN x.loc = DOMAIN g /\ DOMAIN x.expect = DOMAIN g
           /\ x.page = job[k].page /\ x.pc = "install" /\ x.held = job[k].held
           /\ x.published = job[k].published /\ x.freed = job[k].freed
           /\ x.graph = g /\ x.stray = job[k].stray
           /\ job'[k] = x /\ \A j \in Jobs \ {k} : job'[j] = job[j]
           /\ SlotsDistinct' /\ job[k].pc = "build"
  BY <1>1, BuildTakes
<1>3. PICK loc : loc = x.loc
  OBVIOUS
<1>4. PICK exp : exp = x.expect
  OBVIOUS
<1>7. DOMAIN g \subseteq Vertices
  BY <1>1, JobFields, PartialElim
<1>9. /\ job[k].pc = "build"
      /\ UNCHANGED <<wr, rd, vlatch, cur, recs, chain, fwd>>
  BY <1>2 DEF SmoBuild, wvars, rvars
<1>10. SlotsDistinct'
  BY <1>2
<1>12. \A v \in DOMAIN g : cur[v].page = job[k].page
  BY <1>2
<1>14. /\ pgs \subseteq Pages /\ \A p \in pgs : Unallocated(p) /\ PageUnused(p)
       /\ \A p \in Pages : Unallocated(p)' => Unallocated(p) /\ p \notin pgs
  BY <1>2
<1>15. \A v \in DOMAIN g : loc[v] \in pgs
  BY <1>2, <1>3
<1>16. /\ \A p \in Pages \ pgs : csr'[p] = csr[p]
       /\ \A v \in DOMAIN g : v \in DOMAIN csr'[loc[v]]
  BY <1>2, <1>3
<1>17. /\ x.page = job[k].page /\ x.loc = loc /\ x.expect = exp /\ x.pc = "install"
       /\ x.held = job[k].held /\ x.published = job[k].published /\ x.freed = job[k].freed
       /\ x.graph = g /\ x.stray = job[k].stray
  BY <1>2, <1>3, <1>4
<1>18. job'[k] = x /\ \A j \in Jobs \ {k} : job'[j] = job[j]
  BY <1>2
<1>19. /\ DOMAIN loc = DOMAIN g /\ DOMAIN exp = DOMAIN g /\ \A v \in DOMAIN g : exp[v] = cur[v]
  BY <1>2, <1>3, <1>4
<1>20. /\ job[k].held /\ ~job[k].freed /\ job[k].published = {} /\ DOMAIN g # {}
       /\ DOMAIN job[k].loc = {}
  BY <1>1, <1>9 DEF ProtocolSound, PhasesKnown, PhaseKnown, CInv, LocsInPhase
<1>21. /\ Moving(x) = DOMAIN g /\ Owning(x) /\ Working(x) /\ Running(x) /\ ~Lingering(x)
       /\ Moving(job[k]) = {} /\ ~Owning(job[k]) /\ Working(job[k]) /\ Running(job[k])
       /\ ~Lingering(job[k])
  BY <1>9, <1>17, <1>19, <1>20 DEF Moving, Owning, Working, Running, Lingering
<1>22. \A j \in Jobs : job[j].page \in Pages
  BY JobFields
<1>23. \A j \in Jobs : (Running(job[j]) /\ ~Lingering(job[j])) \/ Owning(job[j]) => job[j].page \notin pgs
  BY <1>14 DEF PageUnused
<1>24. PhasesKnown'
  <2>1. PhaseKnown(x)
    BY <1>17, <1>19, <1>20 DEF PhaseKnown, Forwarding
  <2>2. QED
    BY <1>18, <2>1 DEF ProtocolSound, PhasesKnown
<1>25. VersionsExpected'
  BY <1>9, <1>12, <1>17, <1>18, <1>19, <1>21 DEF ProtocolSound, VersionsExpected
<1>26. VersionsPlaced'
  <2>1. job[k].page \notin pgs
    BY <1>21, <1>23
  <2>2. \A v \in DOMAIN x.loc : x.loc[v] # x.page /\ x.expect[v].page = x.page
    BY <1>12, <1>15, <1>17, <1>19, <2>1
  <2>3. QED
    BY <1>18, <2>2 DEF ProtocolSound, VersionsPlaced
<1>27. VersionsMoved'
  BY <1>9, <1>17, <1>18, <1>20 DEF ProtocolSound, VersionsMoved
<1>28. VerticesStored'
  <2>1. \A v \in Vertices : cur[v].page \in Pages \ pgs
    <3>1. \A v \in Vertices : cur[v].page \in Pages
      BY QuietTypes DEF Versions
    <3>2. QED
      BY <1>14, <3>1 DEF PageUnused
  <2>2. \A v \in Vertices : v \in DOMAIN csr'[cur[v].page]
    BY <1>16, <2>1 DEF ProtocolSound, VerticesStored
  <2>3. \A j \in Jobs \ {k} : \A v \in Moving(job[j]) : v \in DOMAIN csr'[job[j].loc[v]]
    <3> SUFFICES ASSUME NEW j \in Jobs \ {k}, NEW v \in Moving(job[j])
                 PROVE  v \in DOMAIN csr'[job[j].loc[v]]
      OBVIOUS
    <3>1. job[j].loc[v] \in Pages /\ v \in DOMAIN csr[job[j].loc[v]] /\ ~Unallocated(job[j].loc[v])
      BY TargetOpen
    <3>2. job[j].loc[v] \notin pgs
      BY <1>14, <3>1
    <3>3. QED
      BY <1>16, <3>1, <3>2
  <2>4. QED
    BY <1>9, <1>16, <1>17, <1>18, <1>21, <2>2, <2>3 DEF VerticesStored
<1>29. ChainsStored'
  <2> SUFFICES ASSUME NEW p \in Pages, NEW i \in 1 .. Len(chain[p])
               PROVE  recs[chain[p][i]].src \in DOMAIN csr'[p]
    BY <1>9 DEF ChainsStored
  <2>1. p \notin pgs
    <3> SUFFICES ASSUME p \in pgs PROVE FALSE
      OBVIOUS
    <3>1. chain[p] = <<>>
      BY <1>14 DEF PageUnused
    <3>2. Len(chain[p]) = 0
      BY <3>1
    <3>3. QED
      BY <3>2
  <2>2. QED
    BY <1>16, <2>1 DEF ProtocolSound, ChainsStored
<1>30. PagesCovered' /\ StraysCovered'
  <2>1. \A j \in Jobs : job[j].pc = "build" => job[j].page \notin pgs
    <3>1. \A j \in Jobs : job[j].pc = "build" => Running(job[j]) /\ ~Lingering(job[j])
      BY DEF Running, Lingering
    <3>2. QED
      BY <1>23, <3>1
  <2>2. DOMAIN csr'[x.page] \subseteq DOMAIN x.loc
    BY <1>1, <1>9, <1>16, <1>17, <1>19, <1>22, <2>1 DEF ProtocolSound, PagesCovered
  <2>3. PagesCovered'
    BY <1>16, <1>17, <1>18, <1>22, <1>23, <2>1, <2>2 DEF ProtocolSound, PagesCovered
  <2>4. StraysCovered'
    BY <1>9, <1>17, <1>18 DEF ProtocolSound, StraysCovered
  <2>5. QED
    BY <2>3, <2>4
<1>31. PagesApart'
  BY <1>17, <1>18, <1>21 DEF ProtocolSound, PagesApart
<1>32. TargetsApart'
  <2>1. ASSUME NEW j \in Jobs \ {k}, NEW v \in Moving(job[j]), job[j].loc[v] = job[k].page PROVE FALSE
    <3>1. v \in DOMAIN g
      <4>1. v \in DOMAIN csr[job[k].page]
        BY <2>1, TargetOpen
      <4>2. QED
        BY <1>1, <1>9, <4>1 DEF ProtocolSound, PagesCovered
    <3>2. job[j].page = job[k].page
      BY <1>12, <3>1 DEF ProtocolSound, VersionsExpected
    <3>3. Owning(job[j])
      BY DEF Moving, Owning, ProtocolSound, PhasesKnown, PhaseKnown
    <3>4. QED
      BY <1>21, <3>2, <3>3 DEF ProtocolSound, PagesApart, Working
  <2>2. \A j \in Jobs : Owning(job'[j]) => job'[j].page \notin pgs
    BY <1>17, <1>18, <1>21, <1>23
  <2>3. \A v \in Moving(x) : x.loc[v] \in pgs
    BY <1>15, <1>17, <1>21
  <2>4. \A i \in Jobs \ {k} : \A v \in Moving(job[i]) : job[i].loc[v] # x.page
    BY <1>17, <2>1
  <2>5. \A i, j \in Jobs \ {k} : \A v \in Moving(job[i]) : Owning(job[j]) => job[i].loc[v] # job[j].page
    BY DEF ProtocolSound, TargetsApart
  <2>6. QED
    BY <1>18, <2>2, <2>3, <2>4, <2>5 DEF TargetsApart
<1>33. ChainsDrained'
  BY <1>9, <1>17, <1>18 DEF ProtocolSound, ChainsDrained, Drained
<1>34. ForwardersKept'
  <2>1. \A q \in Pages : fwd[q] # 0 => fwd[q] \in Jobs
    BY QuietTypes, ConsolidationAssumption DEF Jobs
  <2>2. \A q \in Pages : fwd[q] # 0 => fwd[q] # k
    BY <1>9 DEF ProtocolSound, ForwardersKept, Forwarding
  <2>3. QED
    BY <1>9, <1>17, <1>18, <2>1, <2>2 DEF ProtocolSound, ForwardersKept, Forwarding
<1>35. LingeringAlone'
  BY <1>9, <1>17, <1>18, <1>21 DEF ProtocolSound, LingeringAlone
<1>36. WritersKnown'
  <2> SUFFICES ASSUME NEW w \in Writers, wr[w].pc # "idle" PROVE WriterKnown(w, wr[w])'
    BY <1>9 DEF WritersKnown, WriterKnown
  <2>1. WriterKnown(w, wr[w])
    BY DEF ProtocolSound, WritersKnown
  <2>2. (wr[w].pc = "append" /\ wr[w].rerouted) => wr[w].fwd \in Jobs \ {k}
    BY <1>9, <2>1 DEF CInv, RoutesResolve, WriterKnown, Forwarding
  <2>3. QED
    BY <1>9, <1>18, <1>21, <2>1, <2>2 DEF WriterKnown
<1>37. FreeUnused'
  <2> SUFFICES ASSUME NEW p \in Pages, Unallocated(p)' PROVE PageUnused(p)'
    BY DEF FreeUnused
  <2>1. PageUnused(p) /\ p \notin pgs
    BY <1>14 DEF ProtocolSound, FreeUnused
  <2>2. \A v \in Moving(x) : x.loc[v] # p
    BY <1>15, <1>17, <1>21, <2>1
  <2>3. x.page # p
    BY <1>17, <1>21, <2>1 DEF PageUnused
  <2>4. \A j \in Jobs : \A v \in Moving(job'[j]) : job'[j].loc[v] # p
    BY <1>18, <2>1, <2>2 DEF PageUnused
  <2>5. \A j \in Jobs : (Running(job'[j]) /\ job'[j].page = p) => Lingering(job'[j])
    BY <1>18, <2>1, <2>3 DEF PageUnused
  <2>6. \A j \in Jobs : Owning(job'[j]) => job'[j].page # p
    BY <1>18, <2>1, <2>3 DEF PageUnused
  <2>7. QED
    BY <1>9, <2>1, <2>4, <2>5, <2>6 DEF PageUnused
<1>38. QED
  BY <1>10, <1>24, <1>25, <1>26, <1>27, <1>28, <1>29, <1>30, <1>31, <1>32, <1>33, <1>34, <1>35,
     <1>36, <1>37 DEF ProtocolSound

-----------------------------------------------------------------------------
(* The protocol invariant *)

\* An event that has happened stays on record.
LEMMA RacesStay ==
  ASSUME CInv, [Next]_vars PROVE hist.races \subseteq hist'.races
<1>1. hist \in Histories
  BY QuietTypes
<1>2. CASE UNCHANGED hist
  BY <1>2
<1>3. ASSUME NEW w \in Writers, WriterAppend(w) PROVE hist.races \subseteq hist'.races
  <2>1. \E a, b, c : hist' = [hist EXCEPT !.graph = a, !.races = b, !.rerouted = c]
                     /\ hist.races \subseteq b
    <3> DEFINE v == wr[w].v
               p == IF wr[w].rerouted THEN job[wr[w].fwd].loc[v] ELSE wr[w].ver.page
               a == [hist.graph EXCEPT ![v] = IF wr[w].typ = "INSERT" THEN @ \cup {wr[w].d}
                                              ELSE @ \ {wr[w].d}]
               b == IF fwd[p] # 0 THEN hist.races \cup {"late append"} ELSE hist.races
               c == IF wr[w].rerouted THEN hist.rerouted \cup {<<wr[w].fwd, v, wr[w].d>>}
                    ELSE hist.rerouted
    <3>1. hist' = [hist EXCEPT !.graph = a, !.races = b, !.rerouted = c]
      BY <1>3 DEF WriterAppend
    <3>2. hist.races \subseteq b
      OBVIOUS
    <3> HIDE DEF a, b, c
    <3>3. QED
      BY <3>1, <3>2
  <2>2. PICK a, b, c : /\ hist' = [hist EXCEPT !.graph = a, !.races = b, !.rerouted = c]
                       /\ hist.races \subseteq b
    BY <2>1
  <2>3. hist'.races = b
    BY <1>1, <2>2 DEF Histories
  <2>4. QED
    BY <2>2, <2>3
<1>4. ASSUME NEW e, hist' = [hist EXCEPT !.races = @ \cup {e}] PROVE hist.races \subseteq hist'.races
  BY <1>1, <1>4 DEF Histories
<1>5. ASSUME NEW a, hist' = [hist EXCEPT !.overtaken = a] PROVE hist.races \subseteq hist'.races
  BY <1>1, <1>5 DEF Histories
<1>6. ASSUME NEW k \in Jobs, NEW place \in Placements, SmoBuild(k, place)
      PROVE  hist.races \subseteq hist'.races
  <2>1. UNCHANGED hist \/ \E e : hist' = [hist EXCEPT !.races = @ \cup {e}]
    BY <1>6 DEF SmoBuild
  <2>2. QED
    BY <1>2, <1>4, <2>1
<1>7. ASSUME NEW k \in Jobs, NEW n \in 0 .. MaxParts, SmoThrow(k, n)
      PROVE  hist.races \subseteq hist'.races
  <2>1. \E e : hist' = [hist EXCEPT !.races = @ \cup {e}]
    BY <1>7 DEF SmoThrow
  <2>2. QED
    BY <1>4, <2>1
<1>8. ASSUME NEW k \in Jobs, SmoStray(k) PROVE hist.races \subseteq hist'.races
  <2>1. \/ UNCHANGED hist \/ \E e : hist' = [hist EXCEPT !.races = @ \cup {e}]
        \/ \E a : hist' = [hist EXCEPT !.overtaken = a]
    BY <1>8 DEF SmoStray
  <2>2. QED
    BY <1>2, <1>4, <1>5, <2>1
<1>9. CASE \E w \in Writers : WriterStep(w)
  BY <1>2, <1>3, <1>9
  DEF WriterStep, WriterProbe, WriterCheck, WriterClaim, WriterThrows, WriterReturn
<1>10. CASE \E k \in Jobs : JobStep(k)
  BY <1>2, <1>6, <1>7, <1>8, <1>10
  DEF JobStep, SmoFetch, SmoMerge, SmoInstall, SmoDrain, SmoStage, PublishNext, SmoDetach,
      SmoFinalize
<1>11. QED
  BY <1>2, <1>9, <1>10
  DEF Next, vars, WriterLock, ReaderSnapshot, ReaderStep, ReaderFinish, PublishPending, Reclaim

LEMMA InitProtocol == Init => ProtocolInv
<1> SUFFICES ASSUME Init PROVE ProtocolSound
  BY DEF ProtocolInv
<1> USE ConsolidationAssumption
<1>1. 1 \in Pages
  BY DEF Pages
<1>2. PICK b : b = [NewJob(1) EXCEPT !.pc = "none", !.held = FALSE]
  OBVIOUS
<1>3. /\ b.pc = "none" /\ ~b.held /\ b.published = {} /\ ~b.freed /\ DOMAIN b.loc = {}
  <2>1. b = [page |-> 1, pc |-> "none", held |-> FALSE, ds |-> <<>>, graph |-> Nothing,
             loc |-> Nothing, expect |-> Nothing, stray |-> <<>>,
             tail |-> [v \in Vertices |-> 0], published |-> {}, freed |-> FALSE]
    BY <1>2 DEF NewJob
  <2>2. b.loc = Nothing /\ DOMAIN Nothing = {}
    BY <2>1 DEF Nothing
  <2>3. QED
    BY <2>1, <2>2
<1>4. \A k \in Jobs : job[k] = b
  BY <1>2 DEF Init
<1>5. PhaseKnown(b) /\ Moving(b) = {} /\ ~Owning(b) /\ ~Working(b) /\ ~Running(b) /\ ~Lingering(b)
  BY <1>3 DEF PhaseKnown, Moving, Owning, Working, Running, Lingering, Forwarding
<1>6. /\ \A v \in Vertices : cur[v].page = 1
      /\ csr[1] = BaseGraph /\ \A p \in Pages : chain[p] = <<>> /\ fwd[p] = 0
      /\ freeSlots = <<>> /\ nextPage = 2
      /\ \A w \in Writers : wr[w].pc = "idle"
      /\ \A r \in Readers : rd[r].pc = "idle"
  BY <1>1 DEF Init, IdleWriter, IdleReader
<1>7. PhasesKnown /\ VersionsExpected /\ VersionsMoved
  BY <1>4, <1>5 DEF PhasesKnown, VersionsExpected, VersionsMoved
<1>8. VersionsPlaced
  BY <1>3, <1>4 DEF VersionsPlaced
<1>9. VerticesStored
  BY <1>4, <1>5, <1>6 DEF VerticesStored
<1>10. ChainsStored
  BY <1>6 DEF ChainsStored
<1>11. PagesCovered /\ StraysCovered
  BY <1>3, <1>4, <1>5 DEF PagesCovered, StraysCovered
<1>12. PagesApart /\ TargetsApart /\ ChainsDrained
  BY <1>4, <1>5 DEF PagesApart, TargetsApart, ChainsDrained
<1>13. ForwardersKept /\ LingeringAlone
  BY <1>3, <1>4, <1>5, <1>6 DEF ForwardersKept, LingeringAlone, Forwarding
<1>14. WritersKnown
  BY <1>6 DEF WritersKnown, WriterKnown
<1>15. DOMAIN freeSlots = {}
  BY <1>6
<1>16. SlotsDistinct
  BY <1>15 DEF SlotsDistinct
<1>17. FreeUnused
  <2> SUFFICES ASSUME NEW p \in Pages, Unallocated(p) PROVE PageUnused(p)
    BY DEF FreeUnused
  <2>1. p # 1
    BY <1>6, <1>15 DEF Unallocated
  <2>2. QED
    BY <1>4, <1>5, <1>6, <2>1 DEF PageUnused
<1>18. QED
  BY <1>7, <1>8, <1>9, <1>10, <1>11, <1>12, <1>13, <1>14, <1>16, <1>17 DEF ProtocolSound

LEMMA NextProtocol == CInv /\ ProtocolInv /\ [Next]_vars => ProtocolInv'
<1> SUFFICES ASSUME CInv, ProtocolInv, [Next]_vars, Healthy' PROVE ProtocolSound'
  BY DEF ProtocolInv
<1>h. Healthy /\ ProtocolSound
  BY RacesStay DEF ProtocolInv, Healthy
<1>u. CASE UNCHANGED vars
  <2>1. WritersKnown'
    BY <1>h, <1>u DEF vars, ProtocolSound, WritersKnown, WriterKnown
  <2>2. QED
    BY <1>h, <1>u, <2>1, CallsMove DEF vars
<1>1. CASE \E w \in Writers, v \in Vertices, typ \in Ops, d \in Dsts : WriterLock(w, v, typ, d)
  BY <1>h, <1>1, WriterLockSound
<1>2. CASE \E w \in Writers : WriterStep(w)
  BY <1>h, <1>2, WriterProbeSound, WriterAppendSound, WriterCheckSound, WriterClaimSound,
     WriterThrowsSound, WriterReturnSound
  DEF WriterStep
<1>3. CASE \E r \in Readers, v \in Vertices : ReaderSnapshot(r, v)
  BY <1>h, <1>3, ReaderSnapshotSound
<1>4. CASE \E r \in Readers : ReaderStep(r) \/ ReaderFinish(r)
  BY <1>h, <1>4, ReaderStepSound
<1>5. CASE \E k \in Jobs : JobStep(k)
  BY <1>h, <1>5, SmoFetchSound, SmoMergeSound, SmoInstallSound, SmoDrainSound, SmoStraySound,
     SmoStageSound, PublishNextSound, SmoDetachSound, SmoThrowSound, SmoBuildSound,
     SmoFinalizeSound
  DEF JobStep
<1>6. CASE PublishPending
  BY <1>h, <1>6, PublishPendingSound
<1>7. CASE \E k \in Jobs : Reclaim(k)
  BY <1>h, <1>7, ReclaimSound
<1>8. QED
  BY <1>u, <1>1, <1>2, <1>3, <1>4, <1>5, <1>6, <1>7 DEF Next

\* As long as no recorded event but a thrown preparation has happened, the
\* protocol invariant holds: jobs, versions, forwarders, writers and free pages
\* agree with each other whatever the interleaving and whichever calls throw,
\* with the versions switched at once or by hand.
THEOREM ConsolidationProtocol == Spec => []ProtocolInv
  BY ConsolidationInvariant, InitProtocol, NextProtocol, PTL DEF Spec

\* A consolidation that was not upset by a late append, an early build or a throw
\* between two strays fails nowhere but where it runs short of something: every
\* version exchange of finalize_consolidation wins, every stray finds its vertex
\* and every page number the disk manager hands out is unused.  When it throws,
\* in the preparation or in the index update, all its vertices are switched or
\* none is, and its forwarder is on no entry.
THEOREM ConsolidationJobsSucceed == Spec => []JobsSucceed
<1>1. CInv /\ ProtocolInv => JobsSucceed
  <2> SUFFICES ASSUME CInv, ProtocolSound, NEW k \in Jobs
               PROVE  /\ job[k].pc # "failed"
                      /\ job[k].pc = "threw" => /\ job[k].published = DOMAIN job[k].loc
                                               /\ \A p \in Pages : fwd[p] # k
    BY DEF ProtocolInv, JobsSucceed
  <2>1. PhaseKnown(job[k])
    BY DEF ProtocolSound, PhasesKnown
  <2>2. job[k].pc = "threw" => job[k].published = DOMAIN job[k].loc
    BY <2>1 DEF PhaseKnown, Moving
  <2>3. ASSUME job[k].pc = "threw", NEW p \in Pages, fwd[p] = k PROVE FALSE
    <3>1. k # 0
      BY DEF Jobs
    <3>2. QED
      BY <2>3, <3>1 DEF ProtocolSound, ForwardersKept, Forwarding
  <2>4. QED
    BY <2>1, <2>2, <2>3 DEF PhaseKnown
<1>2. QED
  BY ConsolidationInvariant, ConsolidationProtocol, <1>1, PTL

\* As long as nothing but thrown preparations is on record, the forwarder on a
\* page entry belongs, from its installation to its removal, to the one job that
\* consolidates the page.
THEOREM ConsolidationForwarderOwned == Spec => []ForwarderOwned
<1>1. ProtocolInv => ForwarderOwned
  BY DEF ProtocolInv, ProtocolSound, ForwardersKept, Forwarding, ForwarderOwned
<1>2. QED
  BY ConsolidationProtocol, <1>1, PTL

\* As long as nothing but thrown preparations is on record, a page number returns
\* to the disk manager once, and when no version, no job, no reader and no delta record can reach it any more;
\* only a job that has switched all its versions may still have its forwarder on
\* the entry.
THEOREM ConsolidationFreePages == Spec => []FreePagesUnreachable
<1>1. CInv /\ ProtocolInv => FreePagesUnreachable
  <2> SUFFICES ASSUME CInv, ProtocolSound
               PROVE  /\ \A i, j \in DOMAIN freeSlots : freeSlots[i] = freeSlots[j] => i = j
                      /\ \A i \in DOMAIN freeSlots :
                           LET p == freeSlots[i]
                           IN /\ ~InUse(p) /\ chain[p] = <<>>
                              /\ fwd[p] # 0 => /\ job[fwd[p]].published = DOMAIN job[fwd[p]].loc
                                               /\ ~job[fwd[p]].held
    BY DEF ProtocolInv, FreePagesUnreachable
  <2>1. \A i, j \in DOMAIN freeSlots : freeSlots[i] = freeSlots[j] => i = j
    BY DEF ProtocolSound, SlotsDistinct
  <2>2. ASSUME NEW p \in Pages, Unallocated(p)
        PROVE  /\ ~InUse(p) /\ chain[p] = <<>>
               /\ fwd[p] # 0 => /\ job[fwd[p]].published = DOMAIN job[fwd[p]].loc
                                /\ ~job[fwd[p]].held
    <3>1. PageUnused(p)
      BY <2>2 DEF ProtocolSound, FreeUnused
    <3>2. ASSUME fwd[p] # 0
          PROVE  job[fwd[p]].published = DOMAIN job[fwd[p]].loc /\ ~job[fwd[p]].held
      <4>1. PICK k \in Jobs : k = fwd[p]
        BY <3>2, QuietTypes, ConsolidationAssumption DEF Jobs
      <4>2. job[k].pc \in Forwarding /\ job[k].page = p
        BY <3>2, <4>1 DEF ProtocolSound, ForwardersKept
      <4>3. Running(job[k])
        BY <4>2 DEF Running, Forwarding
      <4>4. job[k].freed
        BY <3>1, <4>2, <4>3 DEF PageUnused, Lingering
      <4>5. Moving(job[k]) = {} /\ job[k].published \subseteq DOMAIN job[k].loc /\ ~job[k].held
        BY <4>4 DEF ProtocolSound, PhasesKnown, PhaseKnown
      <4>6. QED
        BY <4>1, <4>5 DEF Moving
    <3>3. QED
      BY <2>2, <3>1, <3>2, UnallocatedFree DEF PageUnused
  <2>3. \A i \in DOMAIN freeSlots : freeSlots[i] \in Pages /\ Unallocated(freeSlots[i])
    BY QuietTypes DEF Unallocated
  <2>4. QED
    BY <2>1, <2>2, <2>3
<1>2. QED
  BY ConsolidationInvariant, ConsolidationProtocol, <1>1, PTL
=============================================================================
