-------------------------------- MODULE Tat --------------------------------
(***************************************************************************)
(* The topology-aware tree of index pages over the CSR pages: its          *)
(* construction (db_build.cc), its maintenance after a consolidation       *)
(* (smo.cc), its file (db.cc) and the index pages themselves (io_index.cc).*)
(* An index page is the adjacency of its blocks, its parent and its        *)
(* neighbour list; `gen` tells a page object from its replacement, which   *)
(* has the same number: the root pointer names an object.                  *)
(***************************************************************************)
EXTENDS Integers, Sequences, SequencesExt, FiniteSets, FiniteSetsExt

CONSTANTS PageGraphs,   \* symmetric adjacency of the CSR pages
          Groups,       \* for build_reorder_tat_db: the pages of each part
          Top,          \* first index page number of build_reorder_tat_db
          MaxBlocks,    \* BW_GRAPH_INDEX_MAX_BLOCKS
          MaxUpdates    \* bound on consolidations

VARIABLES builder, pgraph, waiting, roots, level, badj, next, csr, idx, root, updates, file, phase

vars == <<builder, pgraph, waiting, roots, level, badj, next, csr, idx, root, updates, file, phase>>
Pages == DOMAIN pgraph
Target == (MaxBlocks * 6) \div 10
Put(f, k, x) == [y \in DOMAIN f \cup {k} |-> IF y = k THEN x ELSE f[y]]
Without(f, k) == [y \in DOMAIN f \ {k} |-> f[y]]

(* index_page_t: built from a block adjacency map; edges to other pages' blocks are skipped. *)
build_from_block_adjmap(adj, par, nbr, gen) ==
  [adj |-> [b \in DOMAIN adj |-> adj[b] \cap DOMAIN adj], par |-> par, nbr |-> nbr, gen |-> gen]
get_block_adj_map(p) == p.adj
NoPages == [n \in {} |-> n]

(* absolute_weight_block_partition (module Partition): numbers for the blocks of a part. *)
absolute_weight_block_partition(S) ==
  {f \in [S -> 0 .. Cardinality(S) \div 2] :
     /\ {f[b] : b \in S} = 0 .. Max({f[b] : b \in S})
     /\ \A k \in {f[b] : b \in S} : Cardinality({b \in S : f[b] = k}) <= Target}

Init ==
  /\ builder \in {"csr", "reorder"} /\ pgraph \in PageGraphs
  /\ builder = "reorder" => Pages = UNION Range(Groups)
  /\ waiting = IF builder = "csr" THEN <<Pages>> ELSE Groups
  /\ next = IF builder = "csr" THEN Max(Pages) + 1 ELSE Top
  /\ roots = {} /\ level = [pages |-> {}, csr |-> TRUE, last |-> FALSE] /\ badj = NoPages
  /\ csr = [p \in Pages |-> [par |-> 0, nbr |-> {}]] /\ idx = NoPages
  /\ root = [no |-> 0, gen |-> 0] /\ updates = 0 /\ file = [pages |-> NoPages, root |-> 0] /\ phase = "start"

-----------------------------------------------------------------------------
(* Step 1 of a tree over CSR pages: pages of other parts adjacent to this     *)
(* part become blocks too.  Once the parts are done, a tree over their roots; *)
(* the roots list no neighbours, so it has no edges.                          *)
build_tat_from_csr_pages ==
  /\ phase = "start" /\ waiting # <<>>
  /\ LET own == Head(waiting)
         all == own \cup UNION {pgraph[p] : p \in own}
     IN /\ badj' = [p \in all |-> {q \in pgraph[p] : p \in own \/ q \in own}]
        /\ level' = [pages |-> own, csr |-> TRUE, last |-> builder = "csr"]
  /\ waiting' = Tail(waiting) /\ phase' = "levels"
  /\ UNCHANGED <<builder, pgraph, roots, next, csr, idx, root, updates, file>>

build_tat_from_index_pages ==
  /\ phase = "start" /\ waiting = <<>>
  /\ badj' = [p \in roots |-> {q \in idx[p].nbr : q \in roots}]
  /\ level' = [pages |-> roots, csr |-> FALSE, last |-> TRUE] /\ phase' = "levels"
  /\ UNCHANGED <<builder, pgraph, waiting, roots, next, csr, idx, root, updates, file>>

(* Subprocess 2: parent and sampled neighbours of the level below. *)
Linked(pages, parent(_), links) ==
  [p \in DOMAIN pages |-> IF p \in level.pages
                          THEN [pages[p] EXCEPT !.par = parent(p), !.nbr = links[p]] ELSE pages[p]]
(* One round of the loop: partition the blocks, one index page per part, numbered downwards. *)
ParentOffByOne(n, k) == n - k - 1
ParentNumber(n, k) == n - k
BuildLevel ==
  /\ phase = "levels" /\ Cardinality(DOMAIN badj) > MaxBlocks
  /\ IF level.pages \subseteq DOMAIN badj
     THEN \E f \in absolute_weight_block_partition(DOMAIN badj) :
            LET ks == {f[b] : b \in DOMAIN badj}
                no(k) == next - k
                up(p) == ParentNumber(next, f[p])
                part(k) == {b \in DOMAIN badj : f[b] = k}
                near(k) == {no(f[c]) : c \in UNION {badj[b] : b \in part(k)}} \ {no(k)}
                made == [n \in {no(k) : k \in ks} |->
                           build_from_block_adjmap([b \in part(next - n) |-> badj[b]], 0, {}, 0)]
                below == IF level.csr THEN idx ELSE Linked(idx, up, badj)
            IN /\ csr' = IF level.csr THEN Linked(csr, up, badj) ELSE csr
               /\ idx' = [n \in DOMAIN below \cup DOMAIN made |-> IF n \in DOMAIN made THEN made[n] ELSE below[n]]
               /\ badj' = [n \in {no(k) : k \in {k \in ks : near(k) # {}}} |-> near(next - n)]
               /\ level' = [pages |-> DOMAIN made, csr |-> FALSE, last |-> level.last]
               /\ next' = next - Cardinality(ks) /\ UNCHANGED phase
     (* a page without neighbours left the map: block_part_map.at() throws *)
     ELSE phase' = "threw" /\ UNCHANGED <<csr, idx, badj, level, next>>
  /\ UNCHANGED <<builder, pgraph, waiting, roots, root, updates, file>>

(* Step 3: the root over the blocks that are left, and the links of the level below. *)
BuildRoot ==
  /\ phase = "levels" /\ Cardinality(DOMAIN badj) <= MaxBlocks
  /\ LET links == [p \in level.pages |-> IF p \in DOMAIN badj THEN badj[p] ELSE {}]
         up(p) == next
         below == IF level.csr THEN idx ELSE Linked(idx, up, links)
     IN /\ csr' = IF level.csr THEN Linked(csr, up, links) ELSE csr
        /\ idx' = Put(below, next, build_from_block_adjmap(badj, 0, {}, 0))
        /\ next' = next - 1 /\ roots' = roots \cup {next}
        /\ IF level.last THEN root' = [no |-> next, gen |-> 0] /\ phase' = "ready"
           ELSE phase' = "start" /\ UNCHANGED root
  /\ UNCHANGED <<builder, pgraph, waiting, level, badj, updates, file>>

-----------------------------------------------------------------------------
(* Maintenance, under index_mutex_, when a consolidation replaces page p.  Only *)
(* build_tat_hierarchy wires the map.  The replacement pages have parent 0.     *)
(* The pages of a consolidation are numbered by the disk manager, from the last *)
(* CSR page on: their numbers are those of index pages too.                     *)
Fresh(k) == Max(Pages) + 1 + 2 * updates + k
Maintains(p) == builder = "csr" /\ phase = "ready" /\ updates < MaxUpdates /\ p \in DOMAIN csr
Known(p) == csr[p].par # 0 /\ csr[p].par \in DOMAIN idx
Replaced(p, news) == [q \in (DOMAIN csr \ {p}) \cup news |-> IF q \in news THEN [par |-> 0, nbr |-> {}] ELSE csr[q]]
Rename(adj, p, q) ==
  LET r(x) == IF x = p THEN q ELSE x IN
  [b \in {r(x) : x \in DOMAIN adj} |-> {r(x) : x \in adj[IF b = q /\ p \in DOMAIN adj THEN p ELSE b]}]
Recreate(n, adj) == build_from_block_adjmap(adj, idx[n].par, idx[n].nbr, idx[n].gen + 1)

update_index_no_split(p) ==
  /\ Maintains(p)
  /\ LET q == Fresh(0) IN
       /\ csr' = Replaced(p, {q})
       /\ idx' = IF Known(p) THEN [idx EXCEPT ![csr[p].par] = Recreate(csr[p].par, Rename(@.adj, p, q))] ELSE idx
  /\ updates' = updates + 1
  /\ UNCHANGED <<builder, pgraph, waiting, roots, level, badj, next, root, file, phase>>

(* The map of the parent after the split: p leaves, the new pages enter with    *)
(* the edges the merged graph now has between pages.                            *)
AfterSplit(adj, p, news, cross) ==
  LET keys == (DOMAIN adj \ {p}) \cup news
  IN [b \in keys |-> ((IF b \in DOMAIN adj THEN adj[b] \ {p} ELSE {})
                      \cup {c \in keys : {b, c} \in cross}) \ {b}]
Mesh(ns) == [n \in ns |-> ns \ {n}]

(* do_index_split: new index pages in place of n, under its parent or a new root. *)
do_index_split(n, adj) ==
  \E f \in absolute_weight_block_partition(DOMAIN adj) :
    LET ks == {f[b] : b \in DOMAIN adj}
        g == idx[n].par
        made == {next - k : k \in ks}
        page(m, par) == build_from_block_adjmap([b \in {b \in DOMAIN adj : f[b] = next - m} |-> adj[b]], par, {}, 0)
        with(par) == [m \in (DOMAIN idx \ {n}) \cup made |-> IF m \in made THEN page(m, par) ELSE idx[m]]
        gp == [m \in (DOMAIN idx[g].adj \ {n}) \cup made |->
                 IF m \in made THEN made \ {m} ELSE idx[g].adj[m] \ {n}]
        above == Min(made) - 1
    IN IF g # 0
       THEN /\ next' = next - Cardinality(ks) /\ UNCHANGED root
            (* index_page_t throws when the parent is over its capacity *)
            /\ IF Cardinality(DOMAIN gp) > MaxBlocks THEN idx' = with(g) /\ phase' = "threw"
               ELSE idx' = [with(g) EXCEPT ![g] = Recreate(g, gp)] /\ UNCHANGED phase
       ELSE /\ UNCHANGED phase
            /\ IF Cardinality(made) = 1
               THEN idx' = with(0) /\ root' = [no |-> Min(made), gen |-> 0] /\ next' = next - 1
               ELSE /\ idx' = Put(with(above), above, build_from_block_adjmap(Mesh(made), 0, {}, 0))
                    /\ root' = [no |-> above, gen |-> 0] /\ next' = above - 1

update_index_split(p) ==
  /\ Maintains(p)
  /\ LET news == {Fresh(0), Fresh(1)} IN
       /\ csr' = Replaced(p, news)
       /\ IF ~Known(p) THEN UNCHANGED <<idx, root, next, phase>>
          ELSE LET n == csr[p].par
                   old == get_block_adj_map(idx[n])
                   near == IF p \in DOMAIN old THEN old[p] ELSE {}
               IN \E cross \in SUBSET ({news} \cup {{b, c} : b \in near, c \in news}) :
                    LET adj == AfterSplit(old, p, news, cross)
                    IN IF Cardinality(DOMAIN adj) <= Target
                       THEN idx' = [idx EXCEPT ![n] = Recreate(n, adj)] /\ UNCHANGED <<root, next, phase>>
                       ELSE do_index_split(n, adj)
  /\ updates' = updates + 1
  /\ UNCHANGED <<builder, pgraph, waiting, roots, level, badj, file>>

-----------------------------------------------------------------------------
(* The file holds the pages' bytes.  Loading constructs each page from an empty *)
(* map, which marks it parsed, copies the bytes and calls self_parse, which     *)
(* then returns at once: the members stay those of an empty page.               *)
(* The root's number is read through the root pointer, which Recreate leaves on *)
(* the deleted object: then the file may name any root.                         *)
Dangling == root.no \in DOMAIN idx /\ root.gen # idx[root.no].gen
Garbage == -1
save_index_pages_to_file ==
  /\ phase = "ready" /\ root.no # 0
  /\ \E no \in {root.no} \cup (IF Dangling THEN {Garbage} ELSE {}) : file' = [pages |-> idx, root |-> no]
  /\ phase' = "saved"
  /\ UNCHANGED <<builder, pgraph, waiting, roots, level, badj, next, csr, idx, root, updates>>

self_parse(p, bytes) == p
load_index_pages_from_file ==
  /\ phase = "saved"
  /\ idx' = [n \in DOMAIN file.pages |-> self_parse(build_from_block_adjmap(NoPages, 0, {}, 0), file.pages[n])]
  /\ root' = [no |-> IF file.root \in DOMAIN file.pages THEN file.root ELSE 0, gen |-> 0]
  /\ phase' = "loaded"
  /\ UNCHANGED <<builder, pgraph, waiting, roots, level, badj, next, csr, updates, file>>

Next == \/ build_tat_from_csr_pages \/ build_tat_from_index_pages \/ BuildLevel \/ BuildRoot
        \/ \E p \in DOMAIN csr : update_index_no_split(p) \/ update_index_split(p)
        \/ save_index_pages_to_file \/ load_index_pages_from_file
Spec == Init /\ [][Next]_vars

-----------------------------------------------------------------------------
Climb(n) == LET C[k \in 0 .. Cardinality(DOMAIN idx)] == IF k = 0 THEN n ELSE
                  LET m == C[k - 1] IN IF m \in DOMAIN idx /\ idx[m].par # 0 THEN idx[m].par ELSE m
            IN C[Cardinality(DOMAIN idx)]
(* A page over CSR pages: no index page has it as parent. *)
Leaf(n) == \A m \in DOMAIN idx : idx[m].par # n
(* The tree stays a tree while consolidations rename and split its blocks, with *)
(* CSR pages that carry the numbers of index pages: from every index page the   *)
(* parents lead to the root; no page holds more blocks than fit; block          *)
(* adjacency is symmetric; a CSR page whose parent exists is a block of that    *)
(* parent, and in the wired tree of no other page over CSR pages; and the saved *)
(* file names a root it holds, unless the root's own object had been replaced   *)
(* and the pointer through which its number is read dangles.                    *)
IndexTree ==
  phase \in {"ready", "saved"} =>
    /\ root.no \in DOMAIN idx
    /\ \A n \in DOMAIN idx :
         /\ Climb(n) = root.no /\ Cardinality(DOMAIN idx[n].adj) <= MaxBlocks
         /\ \A b \in DOMAIN idx[n].adj : \A c \in idx[n].adj[b] : b \in idx[n].adj[c]
    /\ \A p \in DOMAIN csr : csr[p].par \in DOMAIN idx => p \in DOMAIN idx[csr[p].par].adj
    /\ builder = "csr" => \A p \in DOMAIN csr :
         Cardinality({n \in DOMAIN idx : Leaf(n) /\ p \in DOMAIN idx[n].adj}) <= 1
    /\ phase = "saved" => file.root \in DOMAIN file.pages \/ Dangling
=============================================================================
