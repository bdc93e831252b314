---------------------------- MODULE ScanPipeline ----------------------------
(***************************************************************************)
(* The scanner: how a graph is built from a source tree and how it is then *)
(* kept up to date by reading only the files that changed                  *)
(* (scanner/core.py with scanner/frontends).                               *)
(*                                                                         *)
(* Each file has a row in the manifest: the hash it was extracted at, its  *)
(* type facts, its nodes and the edges that start in it.  A build extracts *)
(* the dirty files and restores the others from their rows and the         *)
(* previous graph.                                                         *)
(***************************************************************************)
EXTENDS NameResolution

CONSTANTS
  TextIds,    \* contents a file may have; an id is also the hash of the content
  Content,    \* Content[t]: what the parser makes of it
  TextsOf,    \* TextsOf[f]: what file f may become, Absent if it may be deleted
  Trees,      \* the source trees to begin with
  Requests,   \* the paths and the deleted paths that an update names
  Batches,    \* the sets of paths that a removal names
  MaxEdits    \* bound on the changes to the source tree

Absent == "absent"

ASSUME ScanAssumption ==
  /\ Content \in [TextIds -> Text]
  /\ TextsOf \in [Files -> SUBSET (TextIds \union {Absent})]
  /\ Trees \subseteq [Files -> TextIds \union {Absent}] /\ Batches \subseteq SUBSET Files
  /\ \A t \in Trees : \A f \in Files : t[f] \in TextsOf[f] \union {Absent}
  /\ Requests \subseteq (SUBSET Files) \X (SUBSET Files)
  /\ MaxEdits \in Nat /\ Absent \notin TextIds /\ None \notin Files

\* A project has finitely many files, and an __init__ finitely many lines.
ASSUME FiniteAssumption ==
  IsFiniteSet(Files) /\ \A t \in TextIds : IsFiniteSet(Content[t].snap.reexports)

\* A use is read in the body of a callable that the text defines.
ASSUME UseAssumption ==
  \A t \in TextIds : \A u \in Content[t].uses :
    \E d \in Content[t].defs : u.by = <<Owner(Content[t], d), d.name>>

\* What is defined as a type has the name of one.
ASSUME TypeNameAssumption ==
  \A t \in TextIds : \A d \in Content[t].defs : d.kind \in TypeKinds => d.name \in Types

\* The keys by which a receiver is typed are among the needs of its file: those of
\* the names that its top level imports, and every attribute that is read in it.
ASSUME NeedAssumption ==
  \A t \in TextIds : \A u \in {u \in Content[t].uses : u.form \in {"member", "attribute"}} :
    LET needs == Content[t].snap.needs
    IN /\ u.recv[1] = "self" => u.by[1] \in Types /\ AnyOwner(u.recv[2]) \in needs
       /\ u.recv[1] = "key"  => u.recv[2] \in needs
       /\ u.recv[1] = "path" => {u.recv[2], AnyOwner(u.recv[3])} \subseteq needs

VARIABLES
  tree,     \* the source tree: the content of each file, or Absent
  rows,     \* manifest.files
  project,  \* manifest.type_index: the joined facts
  graph,    \* the graph: nodes and edges
  read,     \* history: the content that each row's file was last extracted from
  view,     \* history: what that extraction was resolved against
  strayed,  \* history: was a file extracted that had changed since it was hashed?
  op,       \* the last operation
  edits

vars == <<tree, rows, project, graph, read, view, strayed, op, edits>>

NoFacts == [k \in FactKey |-> {}]
Empty   == <<>>  \* the function with no arguments
OnDisk  == {f \in Files : tree[f] # Absent}
FactsOf(rws) == [f \in DOMAIN rws |-> rws[f].facts]

TypeOK ==
  /\ tree \in [Files -> TextIds \union {Absent}]
  /\ DOMAIN rows \subseteq Files
  /\ \A f \in DOMAIN rows : /\ rows[f].hash \in TextsOf[f] \ {Absent}
                            /\ rows[f].facts \in {Content[t].snap : t \in TextsOf[f] \ {Absent}}
                            /\ FileNode(f) \in rows[f].nodes
  /\ DOMAIN read = DOMAIN rows /\ DOMAIN view = DOMAIN rows
  /\ project \in [FactKey -> Fact]
  /\ DOMAIN graph.nodes \subseteq (Files \union {None}) \X (Types \union Outsiders \union {None}) \X (Labels \union {None})
  /\ strayed \in BOOLEAN /\ edits \in 0 .. MaxEdits

-----------------------------------------------------------------------------
\* Which files to extract.

\* MUTANT of Referrers: only the files that the removed ones refer to.
ReferrersOfSources(g, removed) ==
  {PathOf(e[3]) : e \in {e \in g.edges : PathOf(e[1]) \in removed}}
\* _referrer_rels: the files with an edge to or from a node of a removed file.
Referrers(g, removed) ==
  {PathOf(e[1]) : e \in {e \in g.edges : PathOf(e[3]) \in removed}}
    \union {PathOf(e[3]) : e \in {e \in g.edges : PathOf(e[1]) \in removed}}

\* _promote_type_fact_dependents: the facts of the project after this change, and
\* the unchanged files that read one that is not what it was.
NewFacts(rws, removed, facts) ==
  Over(facts, [f \in DOMAIN rws \ removed |-> rws[f].facts])

Padded(snaps, files) == [f \in files |-> IF f \in DOMAIN snaps THEN snaps[f] ELSE NoSnapshot]

Promotion(rws, proj, dirty, removed, facts) ==
  LET old     == FactsOf(rws)
      new     == NewFacts(rws, removed, facts)
      changed == dirty \union removed
      joined  == Rejoin(proj, Padded(old, Files), Padded(new, Files), changed)
  IN [project |-> joined,
      files   |-> Affected(new, ChangedKeys(proj, joined), changed),
      facts   |-> new]

-----------------------------------------------------------------------------
\* _build_graph_from_split.

\* MUTANT of Restored: a synthetic path is not the path of an active file.
RestoredByPath(g, rws, skipped, dirty, active) ==
  {n \in UNION {rws[f].nodes : f \in skipped} :
     n \in DOMAIN g.nodes /\ PathOf(n) \notin dirty /\ PathOf(n) \in active}
\* MUTANT of Restored: nothing is asked of the path.
RestoredAll(g, rws, skipped, dirty, active) ==
  {n \in UNION {rws[f].nodes : f \in skipped} : n \in DOMAIN g.nodes /\ PathOf(n) \notin dirty}
\* The nodes that the rows of the skipped files restore: those of files that are
\* still active and not extracted anew, and those of no file.
Restored(g, rws, skipped, dirty, active) ==
  {n \in UNION {rws[f].nodes : f \in skipped} :
     n \in DOMAIN g.nodes /\ PathOf(n) \notin dirty /\ PathOf(n) \in active \union {None}}

\* A dirty file that cannot be read has a node and nothing else.
Readable(dirty) == {f \in dirty : tree[f] # Absent}

FileNodes(files) == [n \in {FileNode(f) : f \in files} |-> [kind |-> "file", parent |-> NoParent]]

\* What an extraction of a text saw of the project.
ViewOf(x, t, active) ==
  LET text    == Content[t]
      typed   == \E u \in text.uses : u.form \in {"member", "attribute"}
      modules == {i.module : i \in text.imports} \union {a[2] : a \in text.aliases}
      used    == {n \in DOMAIN x.index : LabelOf(n) \in UsedNames(text)}
  IN [defs      |-> {<<n, x.index[n].kind, MethodOwner(x.index, n)>> : n \in used},
      modules   |-> modules \intersect active,
      reexports |-> [pass \in {1, 2} |-> {r \in x.reexports[pass] : r[2] \in UsedNames(text)}],
      parents   |-> IF typed THEN x.parents ELSE {}]

NoView == [defs |-> {}, modules |-> {}, reexports |-> <<{}, {}>>, parents |-> {}]

Texts(files, contents) == [f \in files |-> Content[contents[f]]]

\* The dirty files extracted against the symbols of the restored ones.
ExtractDirty(dirty, restored, active, facts, proj) ==
  LET context == [n \in {n \in restored : graph.nodes[n].kind # "file"} |-> graph.nodes[n]]
      needed  == Context(proj, facts, dirty)
      texts   == Texts(Readable(dirty), tree)
  IN Extract(texts, context, needed, Parents(facts), active)

\* The rows' edges whose two ends are in the graph.
RestoredEdges(rws, skipped, nodes) ==
  {e \in UNION {rws[f].edges : f \in skipped} : e[1] \in DOMAIN nodes /\ e[3] \in DOMAIN nodes}

\* MUTANT of Row: the edges that leave the file are left to the graph.
RowOfInner(f, hash, facts, nodes, edges) ==
  LET own == {e \in edges : PathOf(e[1]) = f /\ PathOf(e[3]) = f}
  IN [hash |-> hash, facts |-> facts, edges |-> own,
      nodes |-> {n \in DOMAIN nodes : PathOf(n) = f} \union {e[1] : e \in own} \union {e[3] : e \in own}]
\* MUTANT of Row: only the ends of its edges.
RowOfEnds(f, hash, facts, nodes, edges) ==
  LET own == {e \in edges : PathOf(e[1]) = f}
  IN [hash |-> hash, facts |-> facts, edges |-> own, nodes |-> {e[1] : e \in own} \union {e[3] : e \in own}]
\* _persist_scan_manifest: the nodes of a file, and the edges of its nodes with
\* both their ends.
Row(f, hash, facts, nodes, edges) ==
  LET own == {e \in edges : PathOf(e[1]) = f}
  IN [hash |-> hash, facts |-> facts, edges |-> own,
      nodes |-> {n \in DOMAIN nodes : PathOf(n) = f} \union {e[1] : e \in own} \union {e[3] : e \in own}]

\* What a plan makes of the previous graph: a plan names the files to extract, the
\* active ones, and the hash and the facts that go into each row.
Built(plan, x, nodes, edges) ==
  [graph |-> [nodes |-> nodes, edges |-> edges],
   rows  |-> [f \in plan.active |->
                IF f \in plan.dirty THEN Row(f, plan.hashes[f], plan.facts[f], nodes, edges) ELSE rows[f]],
   read  |-> [f \in plan.active |-> IF f \in plan.dirty THEN tree[f] ELSE read[f]],
   view  |-> [f \in plan.active |-> IF f \in Readable(plan.dirty) THEN ViewOf(x, tree[f], plan.active)
                                   ELSE IF f \in plan.dirty THEN NoView ELSE view[f]]]

Build(plan) ==
  \E skipped \in {plan.active \ plan.dirty} :
  \E restored \in {Restored(graph, rows, skipped, plan.dirty, plan.active)} :
  \E x \in {ExtractDirty(plan.dirty, restored, plan.active, plan.facts, plan.project)} :
  \E nodes \in {Over(x.nodes, Over(FileNodes(plan.dirty), [n \in restored |-> graph.nodes[n]]))} :
  \E built \in {Built(plan, x, nodes, x.edges \union RestoredEdges(rows, skipped, nodes))} :
    /\ graph' = built.graph /\ rows' = built.rows
    /\ read' = built.read /\ view' = built.view
    /\ project' = plan.project
    /\ strayed' = (strayed \/ \E f \in plan.dirty : plan.hashes[f] # tree[f])
    /\ UNCHANGED <<tree, edits>>

-----------------------------------------------------------------------------
\* The operations.

\* The files to extract are the dirty ones and those that the change of type facts
\* wakes, which keep the hash and the facts of their rows.
PlanOf(dirty, removed, active) ==
  LET fresh    == [f \in dirty |-> Content[tree[f]].snap]
      promoted == Promotion(rows, project, dirty, removed, fresh)
  IN [dirty   |-> dirty \union promoted.files,
      active  |-> active,
      removed |-> removed,
      hashes  |-> [f \in active |-> IF f \in dirty THEN tree[f] ELSE rows[f].hash],
      facts   |-> promoted.facts,
      project |-> promoted.project]

Changed(files) == {f \in files : f \notin DOMAIN rows \/ rows[f].hash # tree[f]}

\* scan_directory: every file on disk is hashed; the files that refer to one that is
\* gone are extracted as well.
ScanPlan ==
  LET removed == DOMAIN rows \ OnDisk
  IN PlanOf(Changed(OnDisk) \union (Referrers(graph, removed) \intersect OnDisk), removed, OnDisk)

\* update_paths, _effective_update_rels: only the named files are looked at.
UpdatePlan(paths, deleted) ==
  LET existing == (paths \ deleted) \intersect OnDisk
      removed  == (deleted \union (paths \ existing)) \intersect DOMAIN rows
      dirty    == Changed(existing) \union ((Referrers(graph, removed) \intersect OnDisk) \ removed)
  IN PlanOf(dirty, removed, (DOMAIN rows \union dirty) \ removed)

NothingToDo == UNCHANGED <<tree, rows, project, graph, read, view, strayed, edits>>
Follow(plan) == IF plan.dirty \union plan.removed = {} THEN NothingToDo ELSE Build(plan)

Scan == op' = "scan" /\ \E plan \in {ScanPlan} : Follow(plan)

Update(paths, deleted) ==
  /\ DOMAIN rows # {}
  /\ op' = "update" /\ \E plan \in {UpdatePlan(paths, deleted)} : Follow(plan)

\* remove_paths: nothing is extracted but what the type facts wake.
Remove(paths) ==
  LET removed == paths \intersect DOMAIN rows
  IN /\ removed # {}
     /\ op' = "remove" /\ \E plan \in {PlanOf({}, removed, DOMAIN rows \ removed)} : Build(plan)

\* Somebody writes, creates or deletes a source file.
Edit(f, t) ==
  /\ edits < MaxEdits /\ tree[f] # t
  /\ tree' = [tree EXCEPT ![f] = t] /\ edits' = edits + 1 /\ op' = "edit"
  /\ UNCHANGED <<rows, project, graph, read, view, strayed>>

Init ==
  /\ tree \in Trees
  /\ rows = Empty /\ project = NoFacts /\ read = Empty /\ view = Empty
  /\ graph = [nodes |-> Empty, edges |-> {}]
  /\ strayed = FALSE /\ op = "none" /\ edits = 0

Next ==
  \/ Scan
  \/ \E r \in Requests : Update(r[1], r[2])
  \/ \E paths \in Batches : Remove(paths)
  \/ \E f \in Files : \E t \in TextsOf[f] : Edit(f, t)

Spec == Init /\ [][Next]_vars

-----------------------------------------------------------------------------
\* Properties.

OwnEdges(edges, f) == {e \in edges : PathOf(e[1]) = f}

\* An edge that the impl block of another file gave a type: no row holds it unless
\* the file of the type is extracted in the same build.
Lent(e) == e[2] = "implements" \/ (e[2] = "contains" /\ PathOf(e[1]) # PathOf(e[3]))

\* What a build from nothing makes of the texts that were read.
Clean(rd) ==
  LET files == {f \in DOMAIN rd : rd[f] # Absent}
      texts == Texts(files, rd)
      snaps == [f \in files |-> texts[f].snap]
  IN Extract(texts, Empty, ProjectOf(snaps), Parents(snaps), DOMAIN rd)

\* The persisted index is what joining the facts of all rows from nothing gives,
\* whatever was added to it and taken from it in between, re-exports included
\* (PersistentPythonTypeIndex.update against join_python_project_type_facts).
TypeIndexIsJoin == project = ProjectOf(FactsOf(rows))

\* A file whose extraction saw the definitions, modules, re-exports and parents that
\* a build from nothing would show it has the edges of a build from nothing: the
\* type facts of other files need not be seen, their changes wake their readers.
\* Unless one was woken that had changed on disk: its row keeps the facts of before,
\* while it and the files extracted with it are bound by those of its new content.
CurrentViewsAreClean ==
  ~ strayed =>
    \A clean \in {Clean(read)} : \A f \in DOMAIN rows :
         view[f] = ViewOf(clean, read[f], DOMAIN rows) =>
           {e \in OwnEdges(graph.edges, f) : ~ Lent(e)} = {e \in OwnEdges(clean.edges, f) : ~ Lent(e)}

\* An edge has both its ends, no node outlives its file, and what is in no file is
\* there because something refers to it.
NothingDangles ==
  /\ \A e \in graph.edges : {e[1], e[3]} \subseteq DOMAIN graph.nodes
  /\ \A n \in DOMAIN graph.nodes : IF PathOf(n) = None THEN \E e \in graph.edges : e[3] = n
                                   ELSE PathOf(n) \in DOMAIN rows

\* The rows can restore all that they will be asked to: the edges of a file are in
\* its row, but for those that another file lent to it.
RowsReproduceGraph ==
  \A f \in DOMAIN rows :
    /\ {e \in OwnEdges(graph.edges, f) : ~ Lent(e)} \subseteq rows[f].edges
    /\ RestoredEdges(rows, {f}, graph.nodes) \subseteq graph.edges

\* An operation leaves the edges of the files it does not extract alone: they lose
\* those into what is gone, and gain none but into what was not there before.
UpdateIsLocal ==
  [][\A f \in DOMAIN rows \intersect DOMAIN rows' :
       rows'[f] = rows[f] =>
         LET before == {e \in OwnEdges(graph.edges, f) : ~ Lent(e)}
             after  == {e \in OwnEdges(graph'.edges, f) : ~ Lent(e)}
         IN /\ \A e \in before \ after : PathOf(e[3]) # None /\ e[3] \notin DOMAIN graph'.nodes
            /\ \A e \in after \ before : e[3] \notin DOMAIN graph.nodes]_vars

\* When files go, the callers of what they defined are bound again to what has the
\* name now: they see the definitions that a build from nothing shows them.  Which
\* type a method belongs to they see as the row of its file has it.
Orphans(rws) ==
  {f \in DOMAIN rws \intersect OnDisk :
     \E e \in graph.edges : PathOf(e[1]) = f /\ PathOf(e[3]) \in DOMAIN rows \ DOMAIN rws}
Seen(defs) == {<<d[1], d[2]>> : d \in defs}
BoundAsClean(orphans, clean, rd, vw) ==
  \A f \in orphans : /\ rd[f] = tree[f]
                     /\ Seen({d \in vw[f].defs : PathOf(d[1]) # None}) = Seen(ViewOf(clean, rd[f], {}).defs)
RemovalRebindsCallers ==
  [][op' \in {"scan", "update"} =>
       \A rws \in {rows'}, rd \in {read'}, vw \in {view'} :
         \A orphans \in {Orphans(rws)} :
           orphans # {} => \A clean \in {Clean(rd)} : BoundAsClean(orphans, clean, rd, vw)]_vars

\* "Incremental results equal clean rebuilds": what the acceptance specification
\* asks of every operation that is not a removal, once the index is up to date.
UpToDate == DOMAIN rows = OnDisk /\ \A f \in OnDisk : rows[f].hash = tree[f] /\ read[f] = tree[f]
IncrementalEqualsClean == op = "scan" /\ UpToDate => graph.edges = Clean(read).edges
=============================================================================
