-------------------------- MODULE ScanPipelineProofs --------------------------
(***************************************************************************)
(* ScanPipeline proved for any files and texts, any use of names in them,  *)
(* and any number of scans, updates and removals in any order.             *)
(*                                                                         *)
(* Five parts.  The first goes through the resolution of names: whatever   *)
(* an import, a base, a return type or a call is bound to, an edge of a    *)
(* batch starts in a file of the batch (or is lent by one) and ends in a   *)
(* symbol of the index, in an active file, or outside the project.  It     *)
(* needs nothing of the facts on types: they choose among the symbols, and *)
(* whichever they choose is one of them.                                   *)
(*                                                                         *)
(* The second is the manifest.  Neither property is inductive: that a row  *)
(* restores the edges of its file rests on both their ends being among its *)
(* nodes, and that the graph keeps the ends rests on each row's own nodes, *)
(* and those outside the project, being in the graph as long as the row.   *)
(*                                                                         *)
(* The third is the index of type facts.  Both the join of everything and  *)
(* what is joined anew after a change are least fixed points, reached in   *)
(* as many rounds as there are re-exports; they agree off the keys that    *)
(* are downstream of the change, where nothing flows in from those that    *)
(* are, and hence on them too.                                             *)
(*                                                                         *)
(* The fourth is what the graph keeps of the texts that were read: exactly *)
(* their symbols, each of the kind that its text gives it and in the row   *)
(* of its file.  A build therefore binds against the symbols of all texts, *)
(* whichever it extracts, and the callers of what is removed see what a    *)
(* build from nothing shows them.                                          *)
(*                                                                         *)
(* The fifth is that a binding depends on what is seen.  Each operator of  *)
(* the resolution gives the same for two indexes that show the same under  *)
(* the names that a text uses, and for facts that agree where the file     *)
(* needs them.  So a row holds what its text was bound to by some          *)
(* resolution that shows it its view and whose facts the project still     *)
(* agrees with: a change of a fact that the file needs extracts it again.  *)
(* A build from nothing binds each file by such a resolution too.          *)
(***************************************************************************)
EXTENDS ScanPipeline, FiniteSetTheorems, FunctionTheorems, WellFoundedInduction, TLAPS

-----------------------------------------------------------------------------
(* What each operator of the resolution selects is in the index. *)

\* A name index lists symbols.
LEMMA NamedIn ==
  ASSUME NEW nodes, NEW name
  PROVE  Named(nodes, name) \subseteq DOMAIN nodes
BY DEF Named

\* Restricting to a language, or to what is outside, only takes away.
LEMMA FamilyIn ==
  ASSUME NEW f, NEW ns
  PROVE  SameFamily(f, ns) \subseteq ns /\ Outside(ns) \subseteq ns
BY DEF SameFamily, Outside

\* An import binds to a symbol of the index.
LEMMA SelectImportIn ==
  ASSUME NEW nodes, NEW f, NEW i, NEW reexports
  PROVE  SelectImport(nodes, f, i, reexports) \subseteq DOMAIN nodes
BY NamedIn, FamilyIn DEF SelectImport

\* So does the only callable of a name.
LEMMA UniqueCallableIn ==
  ASSUME NEW nodes, NEW f, NEW name
  PROVE  UniqueCallable(nodes, f, name) \subseteq DOMAIN nodes
BY NamedIn, FamilyIn DEF UniqueCallable

\* So does the type of an impl block.
LEMMA SelectOwnerTypeIn ==
  ASSUME NEW nodes, NEW f, NEW type
  PROVE  SelectOwnerType(nodes, f, type) \subseteq DOMAIN nodes
BY NamedIn DEF SelectOwnerType

\* So does a call through a module.
LEMMA ModuleCallIn ==
  ASSUME NEW nodes, NEW f, NEW text, NEW u, NEW reexports
  PROVE  ModuleCall(nodes, f, text, u, reexports) \subseteq DOMAIN nodes
BY NamedIn, FamilyIn DEF ModuleCall

\* So does a path-qualified call.
LEMMA PathQualifiedIn ==
  ASSUME NEW nodes, NEW u
  PROVE  PathQualified(nodes, u) \subseteq DOMAIN nodes
BY NamedIn DEF PathQualified

\* So does a member call, at whatever distance the ancestor is that answers it.
LEMMA MemberTargetsIn ==
  ASSUME NEW nodes, NEW f, NEW src, NEW name, NEW type, NEW parents
  PROVE  MemberTargets(nodes, f, src, name, type, parents) \subseteq DOMAIN nodes
BY NamedIn, FamilyIn DEF MemberTargets

\* So does the use of an attribute in a test.
LEMMA AttributeTargetsIn ==
  ASSUME NEW nodes, NEW f, NEW src, NEW name, NEW types
  PROVE  AttributeTargets(nodes, f, src, name, types) \subseteq DOMAIN nodes
BY NamedIn, FamilyIn DEF AttributeTargets

-----------------------------------------------------------------------------
(* The edges of a batch. *)

\* All definitions of the batch are in the index.
Defined(index, texts) ==
  \A f \in DOMAIN texts : \A d \in texts[f].defs : Node(f, texts[f], d) \in DOMAIN index

\* The texts of some files: a use is read in a callable of its text, and what is
\* defined as a type has the name of one.
Sourced(texts) ==
  \A f \in DOMAIN texts :
    /\ f \in Files /\ texts[f] \in Text
    /\ \A u \in texts[f].uses : \E d \in texts[f].defs : u.by = <<Owner(texts[f], d), d.name>>
    /\ \A d \in texts[f].defs : d.kind \in TypeKinds => d.name \in Types

\* Ids of nodes, and those of symbols outside the project.
NodeIds   == (Files \union {None}) \X (Types \union Outsiders \union {None}) \X (Labels \union {None})
Externals == {External(pkg, name) : pkg \in Outsiders, name \in Labels}

\* The parent of a symbol of the batch is in the index.
Owned(index, texts) ==
  \A n \in DOMAIN index :
    PathOf(n) \in DOMAIN texts /\ index[n].parent # NoParent => index[n].parent \in DOMAIN index

\* An edge starts in a symbol or a file of the batch, or is lent, and ends in a symbol,
\* an active file, or outside the project.
Anchored(e, index, texts, active) ==
  /\ e[1] \in DOMAIN index \union {FileNode(f) : f \in DOMAIN texts}
  /\ e[3] \in DOMAIN index \union {FileNode(g) : g \in active} \union Externals
  /\ PathOf(e[1]) \in DOMAIN texts \/ Lent(e)

\* One pass over the imports yields such edges, whatever packages re-export.
LEMMA ImportsAnchored ==
  ASSUME NEW index, NEW texts, NEW active, NEW reexports,
         NEW e \in ImportsOf(index, texts, reexports)
  PROVE  Anchored(e, index, texts, active)
<1>1. PICK f \in DOMAIN texts : \E n \in UNION {SelectImport(index, f, i, reexports) : i \in texts[f].imports} :
                                e = <<FileNode(f), "imports_from", n>>
  BY DEF ImportsOf
<1>2. PICK i \in texts[f].imports : \E n \in SelectImport(index, f, i, reexports) : e = <<FileNode(f), "imports_from", n>>
  BY <1>1
<1>3. QED
  BY <1>2, SelectImportIn DEF Anchored, PathOf, FileNode

\* So do the two passes of _add_imports_from.
LEMMA ImportEdgesAnchored ==
  ASSUME NEW index, NEW texts, NEW active, NEW e \in ImportEdges(index, texts)
  PROVE  Anchored(e, index, texts, active)
BY ImportsAnchored DEF ImportEdges

\* So do the imports of whole files.
LEMMA FileEdgesAnchored ==
  ASSUME NEW index, NEW texts, NEW active, NEW e \in FileEdges(texts, active)
  PROVE  Anchored(e, index, texts, active)
BY DEF FileEdges, Anchored, PathOf, FileNode

\* So do the containments: the one that leads into another file is lent by it.
LEMMA ContainsAnchored ==
  ASSUME NEW index, NEW texts, NEW active, Defined(index, texts), Owned(index, texts),
         NEW e \in ContainsEdges(index, texts)
  PROVE  Anchored(e, index, texts, active)
<1>1. CASE \E f \in DOMAIN texts : \E d \in texts[f].defs : e = <<FileNode(f), "contains", Node(f, texts[f], d)>>
  BY <1>1 DEF Defined, Anchored, PathOf, FileNode
<1>2. CASE \E n \in DOMAIN index : /\ PathOf(n) \in DOMAIN texts /\ index[n].parent # NoParent
                                  /\ e = <<index[n].parent, "contains", n>>
  BY <1>2 DEF Owned, Anchored, Lent
<1>3. \/ e \in UNION {{<<FileNode(f), "contains", Node(f, texts[f], d)>> : d \in texts[f].defs} : f \in DOMAIN texts}
     \/ e \in {<<index[n].parent, "contains", n>>
                : n \in {n \in DOMAIN index : PathOf(n) \in DOMAIN texts /\ index[n].parent # NoParent}}
  BY DEF ContainsEdges
<1>4. QED
  BY <1>1, <1>2, <1>3

\* So do the impl blocks and the base classes.
LEMMA ImplementsAnchored ==
  ASSUME NEW index, NEW texts, NEW active, Defined(index, texts), NEW e \in ImplementsEdges(index, texts)
  PROVE  Anchored(e, index, texts, active)
<1>1. e[1] \in DOMAIN index /\ e[2] = "implements" /\ e[3] \in DOMAIN index
  BY NamedIn DEF ImplementsEdges, Defined
<1>2. QED
  BY <1>1 DEF Anchored, Lent

\* So do the return types.
LEMMA ReturnsAnchored ==
  ASSUME NEW index, NEW texts, NEW active, Defined(index, texts), NEW e \in ReturnEdges(index, texts)
  PROVE  Anchored(e, index, texts, active)
<1>1. \E f \in DOMAIN texts : \E d \in texts[f].defs : e[1] = Node(f, texts[f], d) /\ e[3] \in DOMAIN index
  BY NamedIn DEF ReturnEdges
<1>2. QED
  BY <1>1 DEF Anchored, Defined, PathOf, Node

\* What a file binds a name to is in the index.
LEMMA BindingIn ==
  ASSUME NEW index, NEW texts, Defined(index, texts), NEW f \in DOMAIN texts, NEW name, NEW reexports
  PROVE  Binding(index, f, texts[f], name, reexports) \subseteq DOMAIN index
BY SelectImportIn, UniqueCallableIn DEF Binding, Defined

\* So is what a bare call reaches.
LEMMA BareTargetsIn ==
  ASSUME NEW index, NEW texts, Defined(index, texts), NEW f \in DOMAIN texts, NEW u, NEW reexports
  PROVE  BareTargets(index, f, texts[f], u, reexports) \subseteq DOMAIN index
BY PathQualifiedIn, BindingIn, FamilyIn DEF BareTargets

\* The uses of names yield such edges too, whatever is known of the receivers.
LEMMA CallsAnchored ==
  ASSUME NEW index, NEW texts, NEW active, Defined(index, texts), Sourced(texts),
         NEW f \in DOMAIN texts, NEW u \in texts[f].uses, NEW facts, NEW own, NEW parents, NEW reexports,
         NEW e \in CallEdges(index, f, texts[f], u, facts, own, parents, reexports)
  PROVE  Anchored(e, index, texts, active)
<1> DEFINE src == <<f, u.by[1], u.by[2]>>
<1>1. src \in DOMAIN index /\ PathOf(src) = f
  BY DEF Sourced, Defined, Node, PathOf
<1>2. e[1] = src /\ e[3] \in DOMAIN index \union Externals
  <2>1. CASE u.form \in {"bare", "path"}
    BY <2>1, BareTargetsIn DEF CallEdges
  <2>2. CASE u.form = "member" /\ ModuleCall(index, f, texts[f], u, reexports) # {}
    <3>1. CallEdges(index, f, texts[f], u, facts, own, parents, reexports)
            = {src} \X {"calls"} \X ModuleCall(index, f, texts[f], u, reexports)
      BY <2>2 DEF CallEdges
    <3>2. QED
      BY <3>1, ModuleCallIn
  <2>3. CASE u.form = "member" /\ ModuleCall(index, f, texts[f], u, reexports) = {} /\ u.recv[1] = "external"
    <3>1. CallEdges(index, f, texts[f], u, facts, own, parents, reexports)
            = {<<src, "calls", External(u.recv[2], u.name)>>}
      BY <2>3 DEF CallEdges
    <3>2. u.recv[2] \in Outsiders /\ u.name \in Labels
      <4>1. u.recv \in Receiver /\ u.name \in Labels
        BY DEF Sourced, Text, CallSite
      <4>2. QED
        BY <2>3, <4>1 DEF Receiver, None
    <3>3. QED
      BY <3>1, <3>2 DEF Externals
  <2>4. CASE u.form = "member" /\ ModuleCall(index, f, texts[f], u, reexports) = {} /\ u.recv[1] # "external"
    BY <2>4, MemberTargetsIn DEF CallEdges, MemberEdges
  <2>5. CASE u.form = "attribute"
    BY <2>5, AttributeTargetsIn DEF CallEdges
  <2>6. CASE u.form = "callback"
    BY <2>6, UniqueCallableIn DEF CallEdges
  <2>7. CASE u.form \notin {"bare", "path", "member", "attribute", "callback"}
    BY <2>7 DEF CallEdges
  <2>8. QED
    BY <2>1, <2>2, <2>3, <2>4, <2>5, <2>6, <2>7
<1>3. QED
  BY <1>1, <1>2 DEF Anchored

\* The symbols of a batch are of its files, and have no parent yet.
LEMMA SymbolsFacts ==
  ASSUME NEW texts
  PROVE  /\ \A n \in DOMAIN Symbols(texts) : /\ PathOf(n) \in DOMAIN texts
                                            /\ \E k : Symbols(texts)[n] = [kind |-> k, parent |-> NoParent]
         /\ Defined(Symbols(texts), texts)
         /\ Sourced(texts) => DOMAIN Symbols(texts) \subseteq NodeIds
<1> DEFINE names == UNION {{Node(f, texts[f], d) : d \in texts[f].defs} : f \in DOMAIN texts}
           first(n) == CHOOSE d \in DefsOf(texts, n) : TRUE
<1>1. Symbols(texts) = [n \in names |-> [kind |-> Kind(texts[PathOf(n)], first(n)), parent |-> NoParent]]
  BY DEF Symbols
<1>2. \A n \in names : PathOf(n) \in DOMAIN texts
  BY DEF Node, PathOf
<1>3. \A f \in DOMAIN texts : \A d \in texts[f].defs : Node(f, texts[f], d) \in names
  OBVIOUS
<1>4. ASSUME Sourced(texts), NEW f \in DOMAIN texts, NEW d \in texts[f].defs
      PROVE  Node(f, texts[f], d) \in NodeIds
  <2>1. f \in Files /\ d \in Def /\ \A t \in texts[f].defs : t.kind \in TypeKinds => t.name \in Types
    BY <1>4 DEF Sourced, Text
  <2>2. Owner(texts[f], d) \in Types \union {None}
    BY <2>1 DEF Owner, Def
  <2>3. d.name \in Labels
    BY <2>1 DEF Def
  <2>4. QED
    BY <2>1, <2>2, <2>3 DEF Node, NodeIds
<1>5. Sourced(texts) => \A n \in names : n \in NodeIds
  BY <1>4
<1> HIDE DEF names
<1>6. QED
  BY <1>1, <1>2, <1>3, <1>5 DEF Defined

\* The node that holds a definition is in the index.
LEMMA ParentNodeIn ==
  ASSUME NEW nodes, NEW texts, Defined(nodes, texts), NEW f \in DOMAIN texts, NEW d
  PROVE  ParentNode(nodes, texts, f, d) \subseteq DOMAIN nodes
BY SelectOwnerTypeIn DEF ParentNode, Defined

\* Giving the symbols their parents adds none.
LEMMA WithParentsFacts ==
  ASSUME NEW nodes, NEW texts, Defined(nodes, texts),
         \A n \in DOMAIN nodes : PathOf(n) \in DOMAIN texts => \E k : nodes[n] = [kind |-> k, parent |-> NoParent]
  PROVE  /\ DOMAIN WithParents(nodes, texts) = DOMAIN nodes
         /\ Owned(WithParents(nodes, texts), texts)
<1> DEFINE parents(n) == UNION {ParentNode(nodes, texts, PathOf(n), d) : d \in DefsOf(texts, n)}
           held       == {n \in DOMAIN nodes : PathOf(n) \in DOMAIN texts /\ parents(n) # {}}
           raised     == [n \in held |-> [nodes[n] EXCEPT !.parent = CHOOSE p \in parents(n) : TRUE]]
<1>1. WithParents(nodes, texts) = Over(raised, nodes)
  BY DEF WithParents
<1>2. DOMAIN Over(raised, nodes) = DOMAIN nodes
  BY DEF Over
<1>3. ASSUME NEW n \in DOMAIN nodes, PathOf(n) \in DOMAIN texts, Over(raised, nodes)[n].parent # NoParent
      PROVE  Over(raised, nodes)[n].parent \in DOMAIN nodes
  <2>1. PICK k : nodes[n] = [kind |-> k, parent |-> NoParent]
    BY <1>3
  <2>2. CASE n \in held
    <3>1. \A p \in parents(n) : p \in DOMAIN nodes
      BY <1>3, ParentNodeIn
    <3>2. (CHOOSE p \in parents(n) : TRUE) \in parents(n)
      BY <2>2
    <3>3. Over(raised, nodes)[n] = [nodes[n] EXCEPT !.parent = CHOOSE p \in parents(n) : TRUE]
      BY <2>2 DEF Over
    <3> HIDE DEF parents
    <3>4. Over(raised, nodes)[n].parent = CHOOSE p \in parents(n) : TRUE
      BY <2>1, <3>3
    <3>5. QED
      BY <3>1, <3>2, <3>4
  <2>3. CASE n \notin held
    <3>1. Over(raised, nodes)[n] = nodes[n]
      BY <2>3, <1>3 DEF Over
    <3>2. QED
      BY <3>1, <2>1, <1>3
  <2>4. QED
    BY <2>2, <2>3
<1>4. QED
  BY <1>1, <1>2, <1>3 DEF Owned

\* The index of an extraction is its definitions and its context.
LEMMA IndexFacts ==
  ASSUME NEW texts, NEW context, \A n \in DOMAIN context : PathOf(n) \notin DOMAIN texts,
         NEW index, index = WithParents(Over(Symbols(texts), context), texts)
  PROVE  /\ Defined(index, texts) /\ Owned(index, texts)
         /\ \A n \in DOMAIN index : PathOf(n) \in DOMAIN texts \/ n \in DOMAIN context
         /\ Sourced(texts) => \A n \in DOMAIN index : n \in NodeIds \union DOMAIN context
<1> DEFINE nodes == Over(Symbols(texts), context)
<1>1. DOMAIN nodes = DOMAIN Symbols(texts) \union DOMAIN context
  BY DEF Over
<1>2. Defined(nodes, texts)
  BY <1>1, SymbolsFacts DEF Defined
<1>3. ASSUME NEW n \in DOMAIN nodes, PathOf(n) \in DOMAIN texts
      PROVE  \E k : nodes[n] = [kind |-> k, parent |-> NoParent]
  <2>1. n \in DOMAIN Symbols(texts)
    BY <1>1, <1>3
  <2>2. nodes[n] = Symbols(texts)[n]
    BY <2>1 DEF Over
  <2>3. QED
    BY <2>1, <2>2, SymbolsFacts
<1> HIDE DEF nodes
<1>4. DOMAIN index = DOMAIN nodes /\ Owned(index, texts)
  BY <1>2, <1>3, WithParentsFacts DEF nodes
<1>5. QED
  BY <1>1, <1>2, <1>4, SymbolsFacts DEF Defined

\* What is said of an extraction from here on.
Batch(x, texts, context, active) ==
  /\ \A e \in x.edges : Anchored(e, x.index, texts, active)
  /\ \A n \in DOMAIN x.index : PathOf(n) \in DOMAIN texts \/ n \in DOMAIN context
  /\ \A n \in DOMAIN x.index : n \in NodeIds \union DOMAIN context
  /\ DOMAIN x.nodes = {n \in DOMAIN x.index : PathOf(n) \in DOMAIN texts}
                         \union {e[3] : e \in {e \in x.edges : PathOf(e[3]) = None}}

\* The passes over a batch make such an extraction.
LEMMA LinkedFacts ==
  ASSUME NEW texts, NEW context, NEW active, NEW index, NEW imports, NEW passed, NEW facts, NEW parents,
         Sourced(texts), Defined(index, texts), Owned(index, texts),
         \A n \in DOMAIN index : PathOf(n) \in DOMAIN texts \/ n \in DOMAIN context,
         \A n \in DOMAIN index : n \in NodeIds \union DOMAIN context,
         \A e \in imports : Anchored(e, index, texts, active)
  PROVE  Batch(Linked(texts, active, index, imports, passed, facts, parents), texts, context, active)
<1> DEFINE calls == UNION {UNION {CallEdges(index, f, texts[f], u, facts, [g \in {f} |-> texts[f].snap], parents, passed)
                                    : u \in texts[f].uses} : f \in DOMAIN texts}
           edges == imports \union calls \union ContainsEdges(index, texts) \union FileEdges(texts, active)
                      \union ImplementsEdges(index, texts) \union ReturnEdges(index, texts)
           x == Linked(texts, active, index, imports, passed, facts, parents)
<1>1. x = GraphOf(index, edges, DOMAIN texts, parents, <<Reexported(texts, ImportsOf(index, texts, {})), passed>>)
  BY DEF Linked
<1>2. \A e \in calls : Anchored(e, index, texts, active)
  <2> DEFINE here(f, u) == CallEdges(index, f, texts[f], u, facts, [g \in {f} |-> texts[f].snap], parents, passed)
  <2>1. \A f \in DOMAIN texts : \A u \in texts[f].uses : \A e \in here(f, u) : Anchored(e, index, texts, active)
    BY CallsAnchored
  <2>2. calls = UNION {UNION {here(f, u) : u \in texts[f].uses} : f \in DOMAIN texts}
    OBVIOUS
  <2> HIDE DEF here, calls
  <2>3. QED
    BY <2>1, <2>2
<1> HIDE DEF calls
<1>3. \A e \in edges : Anchored(e, index, texts, active)
  BY <1>2, ContainsAnchored, FileEdgesAnchored, ImplementsAnchored, ReturnsAnchored
<1> HIDE DEF edges, x
<1>4. /\ x.edges = edges /\ x.index = index
      /\ DOMAIN x.nodes = {n \in DOMAIN index : PathOf(n) \in DOMAIN texts}
                            \union {e[3] : e \in {e \in edges : PathOf(e[3]) = None}}
  BY <1>1 DEF GraphOf
<1>5. QED
  BY <1>3, <1>4 DEF Batch, x

\* extract_symbols makes one, of any texts and in any context outside the batch.
LEMMA ExtractFacts ==
  ASSUME NEW texts, NEW context, NEW typeContext, NEW typeParents, NEW active,
         Sourced(texts), \A n \in DOMAIN context : PathOf(n) \notin DOMAIN texts
  PROVE  Batch(Extract(texts, context, typeContext, typeParents, active), texts, context, active)
<1> DEFINE index == WithParents(Over(Symbols(texts), context), texts)
           snaps == [f \in DOMAIN texts |-> texts[f].snap]
           new   == ProjectOf(snaps)
           imports == ImportEdges(index, texts)
<1>1. \E facts, parents, passed :
         Extract(texts, context, typeContext, typeParents, active)
           = Linked(texts, active, index, imports, passed, facts, parents)
  BY DEF Extract, Resolved
<1>2. /\ Defined(index, texts) /\ Owned(index, texts)
      /\ \A n \in DOMAIN index : PathOf(n) \in DOMAIN texts \/ n \in DOMAIN context
      /\ \A n \in DOMAIN index : n \in NodeIds \union DOMAIN context
  BY IndexFacts
<1> HIDE DEF index
<1>3. \A e \in imports : Anchored(e, index, texts, active)
  BY ImportEdgesAnchored
<1> HIDE DEF imports
<1>4. QED
  BY <1>1, <1>2, <1>3, LinkedFacts

-----------------------------------------------------------------------------
(* The manifest. *)

\* A row holds its file, both ends of its edges, and nothing that neither is of the
\* file nor is referred to by it; what is of the file or of none is in the graph.
RowFits(f, row, g) ==
  /\ FileNode(f) \in row.nodes
  /\ \A e \in row.edges : PathOf(e[1]) = f /\ {e[1], e[3]} \subseteq row.nodes
  /\ \A n \in row.nodes : PathOf(n) = f \/ \E e \in row.edges : e[3] = n
  /\ \A n \in row.nodes : PathOf(n) \in {f, None} => n \in DOMAIN g.nodes

\* NothingDangles, of any manifest and graph.
Whole(rws, g) ==
  /\ \A e \in g.edges : {e[1], e[3]} \subseteq DOMAIN g.nodes
  /\ \A n \in DOMAIN g.nodes : IF PathOf(n) = None THEN \E e \in g.edges : e[3] = n
                              ELSE PathOf(n) \in DOMAIN rws

\* RowsReproduceGraph, of any manifest and graph.
Reproduced(rws, g) ==
  \A f \in DOMAIN rws :
    /\ {e \in OwnEdges(g.edges, f) : ~ Lent(e)} \subseteq rws[f].edges
    /\ RestoredEdges(rws, {f}, g.nodes) \subseteq g.edges

\* All of it, and that rows are of files.
Consistent(rws, g) ==
  /\ DOMAIN rws \subseteq Files /\ DOMAIN g.nodes \subseteq NodeIds
  /\ \A f \in DOMAIN rws : RowFits(f, rws[f], g)
  /\ Whole(rws, g)
  /\ Reproduced(rws, g)

\* The inductive invariant.
IInv ==
  /\ tree \in [Files -> TextIds \union {Absent}]
  /\ Consistent(rows, graph)

\* A plan extracts files that will be active, and the other active ones have rows.
PlanFits(plan) ==
  /\ plan.dirty \subseteq plan.active /\ plan.active \subseteq Files
  /\ plan.active \ plan.dirty \subseteq DOMAIN rows

\* The texts of a batch are those of readable dirty files.
LEMMA TextsFacts ==
  ASSUME tree \in [Files -> TextIds \union {Absent}], NEW dirty, dirty \subseteq Files,
         NEW texts, texts = Texts(Readable(dirty), tree)
  PROVE  /\ DOMAIN texts \subseteq dirty
         /\ Sourced(texts)
<1>1. DOMAIN texts = {f \in dirty : tree[f] # Absent} /\ \A f \in DOMAIN texts : texts[f] = Content[tree[f]]
  BY DEF Texts, Readable
<1>2. \A f \in DOMAIN texts : tree[f] \in TextIds
  BY <1>1
<1>3. QED
  BY <1>1, <1>2, UseAssumption, TypeNameAssumption, ScanAssumption DEF Sourced

\* What is restored is of no dirty file, and holds all that the rows of the skipped
\* files have of their own and from outside.
LEMMA RestoredFacts ==
  ASSUME Consistent(rows, graph), NEW dirty, NEW active, active \ dirty \subseteq DOMAIN rows,
         NEW skipped, skipped = active \ dirty,
         NEW restored, restored = Restored(graph, rows, skipped, dirty, active)
  PROVE  /\ \A n \in restored : PathOf(n) \notin dirty /\ PathOf(n) \in active \union {None}
         /\ \A f \in skipped : \A n \in rows[f].nodes : PathOf(n) \in {f, None} => n \in restored \/ PathOf(n) \in dirty
         /\ \A n \in restored : PathOf(n) = None => \E f \in skipped : n \in rows[f].nodes
<1>1. \A n \in restored : PathOf(n) \notin dirty /\ PathOf(n) \in active \union {None}
  BY DEF Restored
<1>2. \A n \in restored : PathOf(n) = None => \E f \in skipped : n \in rows[f].nodes
  BY DEF Restored
<1>3. \A f \in skipped : \A n \in rows[f].nodes : PathOf(n) \in {f, None} => n \in restored \/ PathOf(n) \in dirty
  BY DEF Consistent, RowFits, Restored
<1>4. QED
  BY <1>1, <1>2, <1>3

\* The row that is saved of an extracted file fits the graph it is taken from.
LEMMA RowFitsItself ==
  ASSUME NEW f, NEW hash, NEW facts, NEW nodes, NEW edges,
         FileNode(f) \in DOMAIN nodes, \A e \in edges : {e[1], e[3]} \subseteq DOMAIN nodes
  PROVE  /\ RowFits(f, Row(f, hash, facts, nodes, edges), [nodes |-> nodes, edges |-> edges])
         /\ Row(f, hash, facts, nodes, edges).edges = OwnEdges(edges, f)
<1> DEFINE own == OwnEdges(edges, f)
           row == Row(f, hash, facts, nodes, edges)
<1>1. row.edges = own /\ row.nodes = {n \in DOMAIN nodes : PathOf(n) = f} \union {e[1] : e \in own} \union {e[3] : e \in own}
  BY DEF Row, OwnEdges
<1>2. \A e \in own : e \in edges /\ PathOf(e[1]) = f
  BY DEF OwnEdges
<1> HIDE DEF own, row
<1>3. PathOf(FileNode(f)) = f
  BY DEF PathOf, FileNode
<1>4. QED
  BY <1>1, <1>2, <1>3 DEF RowFits, own, row

\* A build of a fitting plan leaves a consistent manifest and graph.
LEMMA BuildKeepsConsistent ==
  ASSUME IInv, NEW plan, PlanFits(plan), Build(plan)
  PROVE  Consistent(rows', graph')
<1> DEFINE active   == plan.active
           dirty    == plan.dirty
           skipped  == active \ dirty
           restored == Restored(graph, rows, skipped, dirty, active)
           x        == ExtractDirty(dirty, restored, active, plan.facts, plan.project)
           nodes    == Over(x.nodes, Over(FileNodes(dirty), [n \in restored |-> graph.nodes[n]]))
           edges    == x.edges \union RestoredEdges(rows, skipped, nodes)
<1>1. /\ skipped = active \ dirty
      /\ restored = Restored(graph, rows, skipped, dirty, active)
      /\ x = ExtractDirty(dirty, restored, active, plan.facts, plan.project)
      /\ nodes = Over(x.nodes, Over(FileNodes(dirty), [n \in restored |-> graph.nodes[n]]))
      /\ edges = x.edges \union RestoredEdges(rows, skipped, nodes)
      /\ graph' = [nodes |-> nodes, edges |-> edges]
      /\ rows' = [f \in active |-> IF f \in dirty THEN Row(f, plan.hashes[f], plan.facts[f], nodes, edges) ELSE rows[f]]
  <2>1. graph' = Built(plan, x, nodes, edges).graph /\ rows' = Built(plan, x, nodes, edges).rows
    BY DEF Build
  <2>2. /\ skipped = active \ dirty
        /\ restored = Restored(graph, rows, skipped, dirty, active)
        /\ x = ExtractDirty(dirty, restored, active, plan.facts, plan.project)
        /\ nodes = Over(x.nodes, Over(FileNodes(dirty), [n \in restored |-> graph.nodes[n]]))
        /\ edges = x.edges \union RestoredEdges(rows, skipped, nodes)
    OBVIOUS
  <2> HIDE DEF skipped, restored, x, nodes, edges
  <2>3. graph' = [nodes |-> nodes, edges |-> edges]
    BY <2>1 DEF Built
  <2>4. rows' = [f \in active |-> IF f \in dirty THEN Row(f, plan.hashes[f], plan.facts[f], nodes, edges) ELSE rows[f]]
    BY <2>1 DEF Built
  <2>5. QED
    BY <2>2, <2>3, <2>4
<1> HIDE DEF skipped, restored, x, nodes, edges
<1>2. active \subseteq Files /\ dirty \subseteq active /\ skipped \subseteq DOMAIN rows /\ None \notin Files
  BY <1>1, ScanAssumption DEF PlanFits
<1>3. PICK texts, context : /\ Batch(x, texts, context, active)
                            /\ DOMAIN texts \subseteq dirty /\ DOMAIN context \subseteq restored
  <2> DEFINE context == [n \in {n \in restored : graph.nodes[n].kind # "file"} |-> graph.nodes[n]]
             texts   == Texts(Readable(dirty), tree)
  <2>1. DOMAIN texts \subseteq dirty /\ Sourced(texts)
    BY <1>2, TextsFacts DEF IInv
  <2>2. DOMAIN context \subseteq restored
    OBVIOUS
  <2>3. \A n \in DOMAIN context : PathOf(n) \notin DOMAIN texts
    BY <1>1, <2>1, <2>2 DEF Restored
  <2>4. x = Extract(texts, context, Context(plan.project, plan.facts, dirty), Parents(plan.facts), active)
    BY <1>1 DEF ExtractDirty
  <2> HIDE DEF texts, context
  <2>5. Batch(x, texts, context, active)
    BY <2>1, <2>3, <2>4, ExtractFacts
  <2>6. QED
    BY <2>1, <2>2, <2>5
<1>4. /\ \A n \in restored : PathOf(n) \notin dirty /\ PathOf(n) \in active \union {None}
      /\ \A f \in skipped : \A n \in rows[f].nodes : PathOf(n) \in {f, None} => n \in restored \/ PathOf(n) \in dirty
      /\ \A n \in restored : PathOf(n) = None => \E f \in skipped : n \in rows[f].nodes
  <2>1. /\ active \ dirty \subseteq DOMAIN rows /\ Consistent(rows, graph)
        /\ skipped = active \ dirty /\ restored = Restored(graph, rows, skipped, dirty, active)
    BY <1>1, <1>2 DEF IInv
  <2> HIDE DEF active, dirty
  <2>2. QED
    BY <2>1, RestoredFacts
<1>5. DOMAIN nodes = DOMAIN x.nodes \union {FileNode(f) : f \in dirty} \union restored
  BY <1>1 DEF Over, FileNodes
<1>6. \A f \in skipped : \A n \in rows[f].nodes : PathOf(n) \in {f, None} => n \in DOMAIN nodes
  BY <1>1, <1>2, <1>4, <1>5
<1>7. \A f \in active : FileNode(f) \in DOMAIN nodes
  <2>1. \A f \in skipped : FileNode(f) \in rows[f].nodes /\ PathOf(FileNode(f)) = f
    BY <1>2 DEF IInv, Consistent, RowFits, PathOf, FileNode
  <2>2. QED
    BY <1>1, <1>5, <1>6, <2>1
<1>8. \A e \in edges : {e[1], e[3]} \subseteq DOMAIN nodes
  <2>1. ASSUME NEW e \in x.edges
        PROVE  e[1] \in DOMAIN nodes /\ e[3] \in DOMAIN nodes
    <3>1. DOMAIN x.index \subseteq DOMAIN nodes
      BY <1>3, <1>5 DEF Batch
    <3>2. PathOf(e[3]) = None => e[3] \in DOMAIN nodes
      BY <1>3, <1>5 DEF Batch
    <3>3. \A n \in Externals : PathOf(n) = None
      BY DEF Externals, External, PathOf
    <3>4. QED
      BY <1>2, <1>3, <1>7, <3>1, <3>2, <3>3 DEF Batch, Anchored
  <2>2. QED
    BY <1>1, <2>1 DEF RestoredEdges
<1>9. \A e \in x.edges : PathOf(e[1]) \in dirty \/ Lent(e)
  BY <1>3 DEF Batch, Anchored
<1>10. Whole(rows', graph')
  <2>1. ASSUME NEW n \in DOMAIN nodes, PathOf(n) = None
        PROVE  \E e \in edges : e[3] = n
    <3>1. n \notin {FileNode(f) : f \in dirty}
      BY <1>2, <2>1 DEF PathOf, FileNode
    <3>2. CASE n \in DOMAIN x.nodes
      BY <1>1, <1>2, <1>3, <2>1, <3>2 DEF Batch
    <3>3. CASE n \in restored
      <4>1. PICK f \in skipped : n \in rows[f].nodes
        BY <1>4, <2>1, <3>3
      <4>2. f \in DOMAIN rows /\ f \in Files /\ RowFits(f, rows[f], graph)
        BY <1>1, <1>2 DEF IInv, Consistent
      <4>3. PICK e \in rows[f].edges : e[3] = n
        BY <1>2, <2>1, <4>1, <4>2 DEF RowFits
      <4>4. e[1] \in DOMAIN nodes
        BY <1>6, <4>2 DEF RowFits
      <4>5. QED
        BY <1>1, <2>1, <4>3, <4>4 DEF RestoredEdges
    <3>4. QED
      BY <1>5, <3>1, <3>2, <3>3
  <2>2. ASSUME NEW n \in DOMAIN nodes, PathOf(n) # None
        PROVE  PathOf(n) \in active
    <3>1. n \in DOMAIN x.nodes => PathOf(n) \in dirty
      BY <1>3, <2>2 DEF Batch
    <3>2. n \in {FileNode(f) : f \in dirty} => PathOf(n) \in dirty
      BY DEF PathOf, FileNode
    <3>3. QED
      BY <1>2, <1>4, <1>5, <2>2, <3>1, <3>2
  <2>3. graph'.nodes = nodes /\ graph'.edges = edges /\ DOMAIN rows' = active
    BY <1>1
  <2>4. QED
    BY <1>8, <2>1, <2>2, <2>3 DEF Whole
<1>11. \A f \in active : RowFits(f, rows'[f], graph')
  <2>1. ASSUME NEW f \in dirty
        PROVE  RowFits(f, rows'[f], graph')
    <3>1. f \in active
      BY <1>2
    <3>2. RowFits(f, Row(f, plan.hashes[f], plan.facts[f], nodes, edges), [nodes |-> nodes, edges |-> edges])
      BY <1>7, <1>8, <3>1, RowFitsItself
    <3>3. rows'[f] = Row(f, plan.hashes[f], plan.facts[f], nodes, edges)
      BY <1>1, <3>1
    <3>4. QED
      BY <1>1, <3>2, <3>3
  <2>2. ASSUME NEW f \in skipped
        PROVE  RowFits(f, rows'[f], graph')
    <3>1. rows'[f] = rows[f] /\ graph'.nodes = nodes
      BY <1>1
    <3>2. RowFits(f, rows[f], graph)
      BY <1>2 DEF IInv, Consistent
    <3>3. QED
      BY <1>6, <3>1, <3>2 DEF RowFits
  <2>3. QED
    BY <1>1, <2>1, <2>2
<1>12. Reproduced(rows', graph')
  <2>1. graph'.nodes = nodes /\ graph'.edges = edges /\ DOMAIN rows' = active
    BY <1>1
  <2>2. ASSUME NEW f \in dirty
        PROVE  rows'[f].edges = OwnEdges(edges, f)
    <3>1. rows'[f] = Row(f, plan.hashes[f], plan.facts[f], nodes, edges) /\ FileNode(f) \in DOMAIN nodes
      BY <1>1, <1>2, <1>7
    <3>2. Row(f, plan.hashes[f], plan.facts[f], nodes, edges).edges = OwnEdges(edges, f)
      BY DEF Row, OwnEdges
    <3>3. QED
      BY <3>1, <3>2
  <2>3. ASSUME NEW f \in skipped
        PROVE  /\ {e \in OwnEdges(edges, f) : ~ Lent(e)} \subseteq rows[f].edges
               /\ RestoredEdges(rows, {f}, nodes) \subseteq edges
    <3>1. ASSUME NEW e \in edges, PathOf(e[1]) = f, ~ Lent(e)
          PROVE  e \in rows[f].edges
      <4>1. e \notin x.edges
        BY <1>1, <1>9, <3>1
      <4>2. PICK g \in skipped : e \in rows[g].edges
        BY <1>1, <4>1 DEF RestoredEdges
      <4>3. g = f
        BY <1>2, <3>1, <4>2 DEF IInv, Consistent, RowFits
      <4>4. QED
        BY <4>2, <4>3
    <3>2. RestoredEdges(rows, {f}, nodes) \subseteq edges
      BY <1>1 DEF RestoredEdges
    <3>3. QED
      BY <3>1, <3>2 DEF OwnEdges
  <2>4. ASSUME NEW f \in active
        PROVE  /\ {e \in OwnEdges(edges, f) : ~ Lent(e)} \subseteq rows'[f].edges
               /\ RestoredEdges(rows', {f}, nodes) \subseteq edges
    <3>1. CASE f \in dirty
      <4>1. \A e \in RestoredEdges(rows', {f}, nodes) : e \in rows'[f].edges
        BY DEF RestoredEdges
      <4>2. QED
        BY <2>2, <3>1, <4>1 DEF OwnEdges
    <3>2. CASE f \in skipped
      <4>1. rows'[f] = rows[f]
        BY <1>1, <3>2
      <4>2. RestoredEdges(rows', {f}, nodes) = RestoredEdges(rows, {f}, nodes)
        BY <4>1 DEF RestoredEdges
      <4>3. QED
        BY <2>3, <3>2, <4>1, <4>2
    <3>3. QED
      BY <1>1, <3>1, <3>2
  <2>5. QED
    BY <2>1, <2>4 DEF Reproduced
<1>13. DOMAIN nodes \subseteq NodeIds
  <2>1. restored \subseteq NodeIds
    BY <1>1 DEF Restored, IInv, Consistent
  <2>2. \A f \in dirty : FileNode(f) \in NodeIds
    BY <1>2 DEF FileNode, NodeIds
  <2>3. DOMAIN x.index \subseteq NodeIds
    BY <1>3, <2>1 DEF Batch
  <2>4. \A f \in active : PathOf(FileNode(f)) # None
    BY <1>2 DEF PathOf, FileNode
  <2>5. Externals \subseteq NodeIds
    BY DEF Externals, External, NodeIds
  <2>6. \A e \in x.edges : PathOf(e[3]) = None => e[3] \in NodeIds
    BY <1>3, <2>3, <2>4, <2>5 DEF Batch, Anchored
  <2>7. DOMAIN x.nodes \subseteq NodeIds
    BY <1>3, <2>3, <2>6 DEF Batch
  <2>8. QED
    BY <1>5, <2>1, <2>2, <2>7
<1>14. QED
  BY <1>1, <1>2, <1>10, <1>11, <1>12, <1>13 DEF Consistent

\* Waking the readers of changed facts leaves a fitting plan.
LEMMA PlanOfFits ==
  ASSUME NEW dirty, NEW removed, NEW active, active \subseteq Files,
         dirty \subseteq active, DOMAIN rows \ removed \subseteq active, active \ dirty \subseteq DOMAIN rows
  PROVE  PlanFits(PlanOf(dirty, removed, active))
<1> DEFINE fresh    == [f \in dirty |-> Content[tree[f]].snap]
           promoted == Promotion(rows, project, dirty, removed, fresh)
           plan     == PlanOf(dirty, removed, active)
<1>1. plan.dirty = dirty \union promoted.files /\ plan.active = active
  BY DEF PlanOf
<1>2. DOMAIN NewFacts(rows, removed, fresh) = dirty \union (DOMAIN rows \ removed)
  BY DEF NewFacts, Over
<1>3. promoted.files \subseteq DOMAIN NewFacts(rows, removed, fresh)
  BY DEF Promotion, Affected
<1> HIDE DEF promoted, plan, fresh
<1>4. QED
  BY <1>1, <1>2, <1>3 DEF PlanFits, plan

\* The plan of a scan fits.
LEMMA ScanPlanFits ==
  ASSUME DOMAIN rows \subseteq Files
  PROVE  PlanFits(ScanPlan)
<1> DEFINE removed == DOMAIN rows \ OnDisk
           dirty   == Changed(OnDisk) \union (Referrers(graph, removed) \intersect OnDisk)
<1>1. OnDisk \subseteq Files /\ dirty \subseteq OnDisk /\ OnDisk \ dirty \subseteq DOMAIN rows
  BY DEF OnDisk, Changed
<1>2. DOMAIN rows \ removed \subseteq OnDisk
  OBVIOUS
<1>3. ScanPlan = PlanOf(dirty, removed, OnDisk)
  BY DEF ScanPlan
<1> HIDE DEF removed, dirty
<1>4. QED
  BY <1>1, <1>2, <1>3, PlanOfFits

\* So does that of an update, whatever paths it is given.
LEMMA UpdatePlanFits ==
  ASSUME DOMAIN rows \subseteq Files, NEW paths, NEW deleted
  PROVE  PlanFits(UpdatePlan(paths, deleted))
<1> DEFINE existing == (paths \ deleted) \intersect OnDisk
           removed  == (deleted \union (paths \ existing)) \intersect DOMAIN rows
           dirty    == Changed(existing) \union ((Referrers(graph, removed) \intersect OnDisk) \ removed)
           active   == (DOMAIN rows \union dirty) \ removed
<1>1. dirty \subseteq Files /\ dirty \intersect removed = {}
  BY DEF OnDisk, Changed
<1>2. UpdatePlan(paths, deleted) = PlanOf(dirty, removed, active)
  BY DEF UpdatePlan
<1> HIDE DEF removed, dirty
<1>3. /\ active \subseteq Files /\ dirty \subseteq active
      /\ DOMAIN rows \ removed \subseteq active /\ active \ dirty \subseteq DOMAIN rows
  BY <1>1
<1> HIDE DEF active
<1>4. QED
  BY <1>2, <1>3, PlanOfFits

\* Whether or not there is anything to do.
LEMMA FollowKeepsConsistent ==
  ASSUME IInv, NEW plan, PlanFits(plan), Follow(plan)
  PROVE  Consistent(rows', graph') /\ tree' = tree
<1>1. CASE NothingToDo
  BY <1>1 DEF NothingToDo, IInv
<1>2. CASE Build(plan)
  BY <1>2, BuildKeepsConsistent DEF Build
<1>3. QED
  BY <1>1, <1>2 DEF Follow

\* The invariant holds at first.
LEMMA InitInv == Init => IInv
<1> SUFFICES ASSUME Init PROVE IInv
  OBVIOUS
<1>1. tree \in [Files -> TextIds \union {Absent}]
  BY ScanAssumption DEF Init
<1>2. DOMAIN rows = {} /\ DOMAIN graph.nodes = {} /\ graph.edges = {}
  BY DEF Init, Empty
<1>3. QED
  BY <1>1, <1>2 DEF IInv, Consistent, Whole, Reproduced

\* Every operation keeps it.
LEMMA StepInv == IInv /\ [Next]_vars => IInv'
<1> SUFFICES ASSUME IInv, [Next]_vars
             PROVE  tree' \in [Files -> TextIds \union {Absent}] /\ Consistent(rows', graph')
  BY DEF IInv
<1>0. DOMAIN rows \subseteq Files /\ tree \in [Files -> TextIds \union {Absent}]
  BY DEF IInv, Consistent
<1>1. CASE Scan
  <2>1. Follow(ScanPlan)
    BY <1>1 DEF Scan
  <2>2. QED
    BY <1>0, <2>1, ScanPlanFits, FollowKeepsConsistent
<1>2. ASSUME NEW r \in Requests, Update(r[1], r[2])
      PROVE  tree' \in [Files -> TextIds \union {Absent}] /\ Consistent(rows', graph')
  <2>1. Follow(UpdatePlan(r[1], r[2]))
    BY <1>2 DEF Update
  <2>2. PlanFits(UpdatePlan(r[1], r[2]))
    BY <1>0, UpdatePlanFits
  <2>3. QED
    BY <1>0, <2>1, <2>2, FollowKeepsConsistent
<1>3. ASSUME NEW paths \in Batches, Remove(paths)
      PROVE  tree' \in [Files -> TextIds \union {Absent}] /\ Consistent(rows', graph')
  <2> DEFINE removed == paths \intersect DOMAIN rows
             plan == PlanOf({}, removed, DOMAIN rows \ removed)
  <2>1. Build(plan)
    BY <1>3 DEF Remove
  <2>2. PlanFits(plan)
    BY <1>0, PlanOfFits
  <2> HIDE DEF plan
  <2>3. QED
    BY <1>0, <2>1, <2>2, BuildKeepsConsistent DEF Build
<1>4. ASSUME NEW f \in Files, NEW t \in TextsOf[f], Edit(f, t)
      PROVE  tree' \in [Files -> TextIds \union {Absent}] /\ Consistent(rows', graph')
  <2>1. t \in TextIds \union {Absent}
    BY ScanAssumption
  <2>2. tree' = [tree EXCEPT ![f] = t] /\ rows' = rows /\ graph' = graph
    BY <1>4 DEF Edit
  <2>3. QED
    BY <1>0, <2>1, <2>2 DEF IInv
<1>5. CASE UNCHANGED vars
  BY <1>5 DEF vars, IInv
<1>6. QED
  BY <1>1, <1>2, <1>3, <1>4, <1>5 DEF Next

\* The manifest and the graph are consistent with each other, whatever was edited,
\* scanned, updated and removed.
THEOREM Invariant == Spec => []IInv
BY InitInv, StepInv, PTL DEF Spec

\* An edge has both its ends, no node outlives its file, and what is in no file is
\* there because something refers to it.
THEOREM NothingDanglesHolds == Spec => []NothingDangles
<1>1. IInv => NothingDangles
  BY DEF IInv, Consistent, Whole, NothingDangles
<1>2. QED
  BY <1>1, Invariant, PTL

\* A row can restore all that its file has in the graph, and restores nothing else.
THEOREM RowsReproduceGraphHolds == Spec => []RowsReproduceGraph
<1>1. IInv => RowsReproduceGraph
  BY DEF IInv, Consistent, Reproduced, RowsReproduceGraph
<1>2. QED
  BY <1>1, Invariant, PTL

\* Two graphs that are consistent with one row differ in the edges of its file only
\* where the other end is missing.
LEMMA SameRowSameEdges ==
  ASSUME NEW old, NEW g, Consistent(old, g), NEW new, NEW h, Consistent(new, h),
         NEW f \in DOMAIN old \intersect DOMAIN new, new[f] = old[f],
         NEW before, before = {e \in OwnEdges(g.edges, f) : ~ Lent(e)},
         NEW after, after = {e \in OwnEdges(h.edges, f) : ~ Lent(e)}
  PROVE  /\ \A e \in before \ after : PathOf(e[3]) # None /\ e[3] \notin DOMAIN h.nodes
         /\ \A e \in after \ before : e[3] \notin DOMAIN g.nodes
<1>1. RowFits(f, old[f], g) /\ RowFits(f, old[f], h)
  BY DEF Consistent
<1>2. /\ before \subseteq old[f].edges /\ after \subseteq old[f].edges
      /\ RestoredEdges(old, {f}, g.nodes) \subseteq g.edges /\ RestoredEdges(new, {f}, h.nodes) \subseteq h.edges
  BY DEF Consistent, Reproduced
<1>3. ASSUME NEW e \in before \ after
      PROVE  PathOf(e[3]) # None /\ e[3] \notin DOMAIN h.nodes
  <2>1. e \in old[f].edges /\ PathOf(e[1]) = f /\ ~ Lent(e)
    BY <1>2 DEF OwnEdges
  <2>2. e \notin h.edges
    BY <2>1 DEF OwnEdges
  <2>3. e[1] \in DOMAIN h.nodes /\ (PathOf(e[3]) = None => e[3] \in DOMAIN h.nodes)
    BY <1>1, <2>1 DEF RowFits
  <2>4. e[3] \notin DOMAIN h.nodes
    BY <1>2, <2>1, <2>2, <2>3 DEF RestoredEdges
  <2>5. QED
    BY <2>3, <2>4
<1>4. ASSUME NEW e \in after \ before
      PROVE  e[3] \notin DOMAIN g.nodes
  <2>1. e \in old[f].edges /\ PathOf(e[1]) = f /\ ~ Lent(e)
    BY <1>2 DEF OwnEdges
  <2>2. e \notin g.edges
    BY <2>1 DEF OwnEdges
  <2>3. e[1] \in DOMAIN g.nodes
    BY <1>1, <2>1 DEF RowFits
  <2>4. QED
    BY <1>2, <2>1, <2>2, <2>3 DEF RestoredEdges
<1>5. QED
  BY <1>3, <1>4

\* An operation leaves the edges of the files it does not extract alone.
THEOREM UpdateIsLocalHolds == Spec => UpdateIsLocal
<1>1. IInv /\ IInv' =>
        \A f \in DOMAIN rows \intersect DOMAIN rows' :
          rows'[f] = rows[f] =>
            LET before == {e \in OwnEdges(graph.edges, f) : ~ Lent(e)}
                after  == {e \in OwnEdges(graph'.edges, f) : ~ Lent(e)}
            IN /\ \A e \in before \ after : PathOf(e[3]) # None /\ e[3] \notin DOMAIN graph'.nodes
               /\ \A e \in after \ before : e[3] \notin DOMAIN graph.nodes
  <2>1. IInv => Consistent(rows, graph)
    BY DEF IInv
  <2>2. IInv' => Consistent(rows', graph')
    BY DEF IInv
  <2> DEFINE before(f) == {e \in OwnEdges(graph.edges, f) : ~ Lent(e)}
             after(f)  == {e \in OwnEdges(graph'.edges, f) : ~ Lent(e)}
             local(f)  == /\ \A e \in before(f) \ after(f) : PathOf(e[3]) # None /\ e[3] \notin DOMAIN graph'.nodes
                          /\ \A e \in after(f) \ before(f) : e[3] \notin DOMAIN graph.nodes
  <2>3. ASSUME Consistent(rows, graph), Consistent(rows', graph'),
               NEW f \in DOMAIN rows \intersect DOMAIN rows', rows'[f] = rows[f]
        PROVE  local(f)
    <3> DEFINE b == before(f)
               a == after(f)
    <3>1. b = {e \in OwnEdges(graph.edges, f) : ~ Lent(e)} /\ a = {e \in OwnEdges(graph'.edges, f) : ~ Lent(e)}
      OBVIOUS
    <3> HIDE DEF b, a
    <3>2. /\ \A e \in b \ a : PathOf(e[3]) # None /\ e[3] \notin DOMAIN graph'.nodes
          /\ \A e \in a \ b : e[3] \notin DOMAIN graph.nodes
      BY <2>3, <3>1, SameRowSameEdges
    <3>3. QED
      BY <3>2 DEF b, a
  <2> HIDE DEF local
  <2>4. IInv /\ IInv' => \A f \in DOMAIN rows \intersect DOMAIN rows' : rows'[f] = rows[f] => local(f)
    BY <2>1, <2>2, <2>3
  <2>5. QED
    BY <2>4 DEF local
<1>2. QED
  BY <1>1, StepInv, Invariant, PTL DEF Spec, UpdateIsLocal

-----------------------------------------------------------------------------
(* Recursion and induction, from the well-foundedness of the numbers: the theorems
   of the library that give them take an operator, which these lemmas do without. *)

\* Induction over a set of numbers: a set that holds 0 and with every number the
\* next holds all of them.
LEMMA SetInduction ==
  ASSUME NEW S, 0 \in S, \A n \in Nat : n \in S => n + 1 \in S
  PROVE  Nat \subseteq S
<1> SUFFICES ASSUME Nat \ S # {} PROVE FALSE
  OBVIOUS
<1> DEFINE Less == OpToRel(<, Nat)
<1>1. PICK least \in Nat \ S : \A n \in Nat \ S : ~ (<<n, least>> \in Less)
  <2>1. Nat \ S \subseteq Nat
    OBVIOUS
  <2> HIDE DEF Less
  <2>2. IsWellFoundedOn(Less, Nat)
    BY NatLessThanWellFounded DEF Less
  <2> QED BY <2>1, <2>2, WFMin
<1>2. least \in Nat /\ least # 0 /\ least \notin S
  OBVIOUS
<1>3. least - 1 \in Nat /\ least = (least - 1) + 1
  BY <1>2
<1>4. least - 1 \notin S
  BY <1>2, <1>3
<1>5. <<least - 1, least>> \in Less
  BY <1>2, <1>3 DEF OpToRel
<1> QED BY <1>1, <1>3, <1>4, <1>5

\* Runs of n steps from s: what a recursive function takes its first values from.
Begins(h, S, s, F, n) ==
  h \in [0 .. n -> S] /\ h[0] = s /\ \A i \in 1 .. n : h[i] = F[h[i - 1]]

\* Two runs agree as far as both go.
LEMMA BeginningsAgree ==
  ASSUME NEW S, NEW s \in S, NEW F, NEW m \in Nat, NEW n \in Nat, NEW g, NEW h,
         Begins(g, S, s, F, m), Begins(h, S, s, F, n)
  PROVE  \A i \in Nat : i <= m /\ i <= n => g[i] = h[i]
<1> DEFINE Same == {i \in Nat : i <= m /\ i <= n => g[i] = h[i]}
<1>1. 0 \in Same
  BY DEF Begins
<1>2. ASSUME NEW i \in Nat, i \in Same PROVE i + 1 \in Same
  <2> SUFFICES ASSUME i + 1 <= m, i + 1 <= n PROVE g[i + 1] = h[i + 1]
    OBVIOUS
  <2>1. g[i] = h[i] /\ i + 1 \in 1 .. m /\ i + 1 \in 1 .. n /\ (i + 1) - 1 = i
    BY <1>2
  <2> QED BY <2>1 DEF Begins
<1>3. Nat \subseteq Same
  <2> HIDE DEF Same
  <2> QED BY <1>1, <1>2, SetInduction
<1> QED BY <1>3

\* There is a function that is defined by its start and its step.
LEMMA Recursion ==
  ASSUME NEW S, NEW s \in S, NEW F \in [S -> S]
  PROVE  \E g \in [Nat -> S] : g[0] = s /\ \A n \in Nat : g[n + 1] = F[g[n]]
<1> DEFINE Has == {n \in Nat : \E h : Begins(h, S, s, F, n)}
<1>1. 0 \in Has
  <2>1. Begins([i \in 0 .. 0 |-> s], S, s, F, 0)
    BY DEF Begins
  <2> QED BY <2>1
<1>2. ASSUME NEW n \in Nat, n \in Has PROVE n + 1 \in Has
  <2>1. PICK h : Begins(h, S, s, F, n)
    BY <1>2
  <2> DEFINE longer == [i \in 0 .. n + 1 |-> IF i = n + 1 THEN F[h[n]] ELSE h[i]]
  <2>2. h[n] \in S
    BY <2>1 DEF Begins
  <2>3. longer \in [0 .. n + 1 -> S]
    BY <2>1, <2>2 DEF Begins
  <2>4. longer[0] = s
    BY <2>1 DEF Begins
  <2>5. ASSUME NEW i \in 1 .. n + 1 PROVE longer[i] = F[longer[i - 1]]
    <3>1. CASE i = n + 1
      BY <3>1
    <3>2. CASE i # n + 1
      <4>1. i \in 1 .. n /\ i - 1 \in 0 .. n /\ i - 1 # n + 1 /\ i \in 0 .. n + 1 /\ i - 1 \in 0 .. n + 1
        BY <3>2
      <4> QED BY <2>1, <3>2, <4>1 DEF Begins
    <3> QED BY <3>1, <3>2
  <2> HIDE DEF longer
  <2>6. Begins(longer, S, s, F, n + 1)
    BY <2>3, <2>4, <2>5 DEF Begins
  <2> QED BY <2>6
<1>3. \A n \in Nat : \E h : Begins(h, S, s, F, n)
  <2> HIDE DEF Has
  <2>1. Nat \subseteq Has
    BY <1>1, <1>2, SetInduction
  <2> QED BY <2>1 DEF Has
<1> DEFINE run(n) == CHOOSE h : Begins(h, S, s, F, n)
           g == [n \in Nat |-> run(n)[n]]
<1>4. \A n \in Nat : Begins(run(n), S, s, F, n)
  BY <1>3
<1>5. g \in [Nat -> S] /\ g[0] = s
  <2> HIDE DEF run
  <2>1. ASSUME NEW n \in Nat PROVE run(n)[n] \in S
    <3>1. n \in 0 .. n /\ run(n) \in [0 .. n -> S]
      BY <1>4 DEF Begins
    <3> QED BY <3>1
  <2>2. run(0)[0] = s
    BY <1>4 DEF Begins
  <2> QED BY <2>1, <2>2
<1>6. ASSUME NEW n \in Nat PROVE g[n + 1] = F[g[n]]
  <2> HIDE DEF run
  <2>1. Begins(run(n), S, s, F, n) /\ Begins(run(n + 1), S, s, F, n + 1)
    BY <1>4
  <2>2. run(n + 1)[n + 1] = F[run(n + 1)[n]]
    <3>1. n + 1 \in 1 .. n + 1 /\ (n + 1) - 1 = n
      OBVIOUS
    <3> QED BY <2>1, <3>1 DEF Begins
  <2>3. run(n + 1)[n] = run(n)[n]
    <3>1. n + 1 \in Nat /\ n <= n /\ n <= n + 1
      OBVIOUS
    <3> QED BY <2>1, <3>1, BeginningsAgree
  <2>4. g[n + 1] = run(n + 1)[n + 1] /\ g[n] = run(n)[n]
    OBVIOUS
  <2> QED BY <2>2, <2>3, <2>4
<1> QED BY <1>5, <1>6
-----------------------------------------------------------------------------
(* Joining along the re-exports. *)

\* Facts of all keys, and re-exports from key to key.
Facts == [FactKey -> Fact]
FactEdges == SUBSET (FactKey \X FactKey)

\* One round along `edges`.
Joined(p, edges) == [k \in DOMAIN p |-> p[k] \union UNION {p[r[1]] : r \in {r \in edges : r[2] = k}}]

\* A round makes facts of facts.
LEMMA JoinedType ==
  ASSUME NEW p \in Facts, NEW edges \in FactEdges PROVE Joined(p, edges) \in Facts
<1>1. ASSUME NEW k \in FactKey
      PROVE  p[k] \union UNION {p[r[1]] : r \in {r \in edges : r[2] = k}} \in Fact
  <2>1. \A r \in edges : p[r[1]] \in SUBSET (Types \X Files)
    BY DEF Facts, FactEdges, Fact
  <2>2. p[k] \in SUBSET (Types \X Files)
    BY DEF Facts, Fact
  <2> QED BY <2>1, <2>2 DEF Fact
<1> QED BY <1>1 DEF Joined, Facts

\* Rounds takes as many of them as it is told.
LEMMA RoundsFacts ==
  ASSUME NEW start \in Facts, NEW snaps, NEW keys,
         {r \in Reexports(snaps) : r[2] \in keys} \in FactEdges
  PROVE  LET edges == {r \in Reexports(snaps) : r[2] \in keys}
         IN /\ Rounds(start, snaps, keys, 0) = start
            /\ \A n \in Nat :
                 /\ Rounds(start, snaps, keys, n) \in Facts
                 /\ Rounds(start, snaps, keys, n + 1) = Joined(Rounds(start, snaps, keys, n), edges)
<1> DEFINE edges == {r \in Reexports(snaps) : r[2] \in keys}
           IsRun(g) == g = [i \in Nat |->
             IF i = 0 THEN start
             ELSE [k \in DOMAIN g[i - 1] |-> g[i - 1][k] \union UNION {g[i - 1][r[1]] : r \in {r \in edges : r[2] = k}}]]
           step == CHOOSE g : IsRun(g)
<1>1. \A n : Rounds(start, snaps, keys, n) = step[n]
  BY DEF Rounds
<1>2. \E g : IsRun(g)
  <2> DEFINE F == [p \in Facts |-> Joined(p, edges)]
  <2>1. F \in [Facts -> Facts]
    BY JoinedType
  <2>2. PICK g \in [Nat -> Facts] : g[0] = start /\ \A n \in Nat : g[n + 1] = F[g[n]]
    <3> HIDE DEF F
    <3> QED BY <2>1, Recursion
  <2> DEFINE next(i) == [k \in DOMAIN g[i - 1] |-> g[i - 1][k] \union UNION {g[i - 1][r[1]] : r \in {r \in edges : r[2] = k}}]
  <2>3. ASSUME NEW i \in Nat, i # 0 PROVE g[i] = next(i)
    <3>1. i - 1 \in Nat /\ (i - 1) + 1 = i
      BY <2>3
    <3>2. g[i] = F[g[i - 1]] /\ g[i - 1] \in Facts
      BY <2>2, <3>1
    <3>3. g[i] = Joined(g[i - 1], edges)
      BY <3>2
    <3> QED BY <3>3 DEF Joined
  <2> HIDE DEF next, edges
  <2>4. g = [i \in Nat |-> IF i = 0 THEN start ELSE next(i)]
    BY <2>2, <2>3
  <2> QED BY <2>4 DEF next
<1>3. IsRun(step)
  <2> HIDE DEF IsRun
  <2> QED BY <1>2
<1> DEFINE next(i) == [k \in DOMAIN step[i - 1] |-> step[i - 1][k] \union UNION {step[i - 1][r[1]] : r \in {r \in edges : r[2] = k}}]
<1>4. step = [i \in Nat |-> IF i = 0 THEN start ELSE next(i)]
  BY <1>3
<1>5. step[0] = start
  <2> HIDE DEF step, next
  <2> QED BY <1>4
<1>6. ASSUME NEW n \in Nat PROVE step[n + 1] = Joined(step[n], edges)
  <2>1. n + 1 \in Nat /\ n + 1 # 0 /\ (n + 1) - 1 = n
    OBVIOUS
  <2>2. step[n + 1] = next(n + 1)
    <3> HIDE DEF step, next
    <3> QED BY <1>4, <2>1
  <2>3. next(n + 1) = Joined(step[n], edges)
    <3> HIDE DEF step, edges
    <3> QED BY <2>1 DEF Joined
  <2> QED BY <2>2, <2>3
<1>7. \A n \in Nat : step[n] \in Facts
  <2> HIDE DEF step, edges
  <2> DEFINE Typed == {n \in Nat : step[n] \in Facts}
  <2>1. 0 \in Typed
    BY <1>5
  <2>2. ASSUME NEW n \in Nat, n \in Typed PROVE n + 1 \in Typed
    <3>1. step[n] \in Facts /\ edges \in FactEdges
      BY <2>2 DEF edges
    <3> QED BY <1>6, <3>1, JoinedType
  <2>3. Nat \subseteq Typed
    <3> HIDE DEF Typed
    <3> QED BY <2>1, <2>2, SetInduction
  <2> QED BY <2>3
<1> HIDE DEF step
<1> QED BY <1>1, <1>5, <1>6, <1>7
-----------------------------------------------------------------------------
(* What is reached along finitely many edges *)

\* Following the edges level by level, nothing new is reached after as many levels
\* as there are edges: each level before needs an edge that no other level needs.
LEMMA Saturation ==
  ASSUME NEW E, IsFiniteSet(E), NEW N \in Nat, Cardinality(E) <= N, NEW D,
         \A n \in Nat : D[n + 1] = D[n] \union {r[2] : r \in {r \in E : r[1] \in D[n]}}
  PROVE  \A r \in E : r[1] \in D[N] => r[2] \in D[N]
<1> DEFINE Closed(n) == \A r \in E : r[1] \in D[n] => r[2] \in D[n]
<1>1. N \in Nat /\ Cardinality(E) \in Nat
  BY FS_CardinalityType
<1>2. ASSUME NEW m \in Nat PROVE \A n \in Nat : m <= n => D[m] \subseteq D[n]
  <2> DEFINE Above == {n \in Nat : m <= n => D[m] \subseteq D[n]}
  <2>1. 0 \in Above
    BY <1>2
  <2>2. ASSUME NEW n \in Nat, n \in Above PROVE n + 1 \in Above
    <3>1. D[n] \subseteq D[n + 1]
      OBVIOUS
    <3>2. CASE m <= n
      BY <2>2, <3>1, <3>2
    <3>3. CASE m = n + 1
      BY <3>3
    <3> QED BY <3>2, <3>3
  <2>3. Nat \subseteq Above
    <3> HIDE DEF Above
    <3> QED BY <2>1, <2>2, SetInduction
  <2> QED BY <2>3
<1>3. ASSUME NEW m \in Nat, Closed(m) PROVE \A n \in Nat : m <= n => D[n] = D[m]
  <2> DEFINE Equal == {n \in Nat : m <= n => D[n] = D[m]}
  <2>1. 0 \in Equal
    BY <1>3
  <2>2. ASSUME NEW n \in Nat, n \in Equal PROVE n + 1 \in Equal
    <3>1. CASE m <= n
      <4>1. D[n] = D[m]
        BY <2>2, <3>1
      <4>2. {r[2] : r \in {r \in E : r[1] \in D[n]}} \subseteq D[n]
        BY <1>3, <4>1
      <4>3. D[n + 1] = D[n]
        BY <4>2
      <4> QED BY <4>1, <4>3
    <3>2. CASE m = n + 1
      BY <3>2
    <3> QED BY <3>1, <3>2
  <2>3. Nat \subseteq Equal
    <3> HIDE DEF Equal
    <3> QED BY <2>1, <2>2, SetInduction
  <2> QED BY <2>3
<1> SUFFICES ASSUME ~Closed(N) PROVE FALSE
  OBVIOUS
<1>4. ASSUME NEW n \in 0 .. N PROVE \E r \in E : r[1] \in D[n] /\ r[2] \notin D[n]
  <2>1. n \in Nat /\ n <= N
    BY <1>1
  <2>2. Closed(n) => D[N] = D[n]
    <3> HIDE DEF Closed
    <3> QED BY <1>1, <1>3, <2>1
  <2> QED BY <2>2
<1> DEFINE f == [n \in 0 .. N |-> CHOOSE r \in E : r[1] \in D[n] /\ r[2] \notin D[n]]
<1>5. \A n \in 0 .. N : f[n] \in E /\ f[n][1] \in D[n] /\ f[n][2] \notin D[n]
  BY <1>4
<1>6. f \in [0 .. N -> E]
  BY <1>5
<1>7. IsFiniteSet(0 .. N) /\ Cardinality(0 .. N) = N + 1
  <2>1. 0 \in Int /\ N \in Int /\ ~(0 > N) /\ N - 0 + 1 = N + 1
    BY <1>1
  <2> QED BY <2>1, FS_Interval
<1> HIDE DEF f
<1>8. \E x, y \in 0 .. N : x # y /\ f[x] = f[y]
  <2>1. Cardinality(E) < Cardinality(0 .. N)
    BY <1>1, <1>7
  <2> DEFINE S == 0 .. N
  <2>2. IsFiniteSet(S) /\ Cardinality(E) < Cardinality(S) /\ f \in [S -> E]
    BY <1>6, <1>7, <2>1
  <2> HIDE DEF S
  <2>3. \E x, y \in S : x # y /\ f[x] = f[y]
    BY <2>2, FS_PigeonHole
  <2> QED BY <2>3 DEF S
<1>9. ASSUME NEW x \in 0 .. N, NEW y \in 0 .. N, x < y, f[x] = f[y] PROVE FALSE
  <2>1. x \in Nat /\ y \in Nat /\ x + 1 \in Nat /\ x + 1 <= y
    BY <1>1, <1>9
  <2>2. f[x][2] \in D[x + 1]
    BY <1>5, <2>1
  <2>3. D[x + 1] \subseteq D[y]
    BY <1>2, <2>1
  <2> QED BY <1>5, <1>9, <2>2, <2>3
<1>10. PICK x, y \in 0 .. N : x # y /\ f[x] = f[y]
  BY <1>8
<1>11. x < y \/ y < x
  <2> QED BY <1>1, <1>10
<1> QED BY <1>9, <1>10, <1>11
\* What as many rounds as there are re-exports make of `start`: facts above it that
\* agree along the edges into `keys`, the least such ones, with nothing new elsewhere.
LEMMA FixedPointFacts ==
  ASSUME NEW start \in Facts, NEW snaps, NEW keys,
         IsFiniteSet(Reexports(snaps)), Reexports(snaps) \in FactEdges
  PROVE  LET p == Rounds(start, snaps, keys, Cardinality(Reexports(snaps)))
         IN /\ p \in Facts
            /\ \A k \in FactKey : start[k] \subseteq p[k]
            /\ \A r \in Reexports(snaps) : r[2] \in keys => p[r[1]] \subseteq p[r[2]]
            /\ \A k \in FactKey \ keys : p[k] = start[k]
            /\ \A q \in Facts :
                 /\ \A k \in FactKey : start[k] \subseteq q[k]
                 /\ \A r \in Reexports(snaps) : r[2] \in keys => q[r[1]] \subseteq q[r[2]]
                 => \A k \in FactKey : p[k] \subseteq q[k]
<1> DEFINE edges == {r \in Reexports(snaps) : r[2] \in keys}
           N     == Cardinality(Reexports(snaps))
           R(n)  == Rounds(start, snaps, keys, n)
<1>1. /\ edges \in FactEdges /\ edges \subseteq Reexports(snaps)
      /\ \A r \in edges : r[1] \in FactKey /\ r[2] \in FactKey
  BY DEF FactEdges
<1>2. N \in Nat /\ IsFiniteSet(edges) /\ Cardinality(edges) <= N
  <2> HIDE DEF edges
  <2>1. edges \in SUBSET Reexports(snaps)
    BY <1>1
  <2> QED BY <2>1, FS_Subset, FS_CardinalityType
<1>3. R(0) = start /\ \A n \in Nat : R(n) \in Facts /\ R(n + 1) = Joined(R(n), edges)
  BY <1>1, RoundsFacts
<1> HIDE DEF N, R, edges
<1>4. ASSUME NEW n \in Nat, NEW k \in FactKey
      PROVE  R(n + 1)[k] = R(n)[k] \union UNION {R(n)[r[1]] : r \in {r \in edges : r[2] = k}}
  <2>1. DOMAIN R(n) = FactKey
    BY <1>3 DEF Facts
  <2> QED BY <1>3, <2>1 DEF Joined
<1>5. \A k \in FactKey : start[k] \subseteq R(N)[k]
  <2> DEFINE Good == {n \in Nat : \A k \in FactKey : start[k] \subseteq R(n)[k]}
  <2>1. 0 \in Good
    BY <1>3
  <2>2. ASSUME NEW n \in Nat, n \in Good PROVE n + 1 \in Good
    BY <1>4, <2>2
  <2>3. Nat \subseteq Good
    <3> HIDE DEF Good
    <3> QED BY <2>1, <2>2, SetInduction
  <2> QED BY <1>2, <2>3
<1>6. ASSUME NEW r \in edges PROVE R(N)[r[1]] \subseteq R(N)[r[2]]
  <2> SUFFICES ASSUME NEW x, x \in R(N)[r[1]] PROVE x \in R(N)[r[2]]
    OBVIOUS
  <2> DEFINE D == [n \in Nat |-> {k \in FactKey : x \in R(n)[k]}]
  <2>1. ASSUME NEW n \in Nat
        PROVE  D[n + 1] = D[n] \union {e[2] : e \in {e \in edges : e[1] \in D[n]}}
    <3>1. ASSUME NEW k \in FactKey
          PROVE  k \in D[n + 1] <=> k \in D[n] \/ \E e \in edges : e[1] \in D[n] /\ e[2] = k
      <4>1. k \in D[n + 1] <=> x \in R(n + 1)[k]
        OBVIOUS
      <4>2. x \in R(n + 1)[k] <=> x \in R(n)[k] \/ \E e \in edges : e[2] = k /\ x \in R(n)[e[1]]
        BY <1>4
      <4>3. \A e \in edges : e[1] \in D[n] <=> x \in R(n)[e[1]]
        BY <1>1
      <4>4. k \in D[n] <=> x \in R(n)[k]
        OBVIOUS
      <4> HIDE DEF D
      <4> QED BY <4>1, <4>2, <4>3, <4>4
    <3>2. D[n] \subseteq FactKey /\ D[n + 1] \subseteq FactKey
      OBVIOUS
    <3> HIDE DEF D
    <3> QED BY <1>1, <3>1, <3>2
  <2>2. r[1] \in D[N] <=> x \in R(N)[r[1]]
    BY <1>1, <1>2
  <2>3. r[2] \in D[N] => x \in R(N)[r[2]]
    BY <1>1, <1>2
  <2> HIDE DEF D
  <2>4. r[1] \in D[N] => r[2] \in D[N]
    BY <1>2, <2>1, Saturation
  <2> QED BY <2>2, <2>3, <2>4
<1>7. \A k \in FactKey \ keys : R(N)[k] = start[k]
  <2> DEFINE Good == {n \in Nat : \A k \in FactKey \ keys : R(n)[k] = start[k]}
  <2>1. 0 \in Good
    BY <1>3
  <2>2. ASSUME NEW n \in Nat, n \in Good PROVE n + 1 \in Good
    <3>1. ASSUME NEW k \in FactKey \ keys PROVE R(n + 1)[k] = start[k]
      <4>1. {r \in edges : r[2] = k} = {}
        BY DEF edges
      <4>2. UNION {R(n)[r[1]] : r \in {r \in edges : r[2] = k}} = {}
        BY <4>1
      <4>3. R(n + 1)[k] = R(n)[k]
        BY <1>4, <4>2, ZenonT(40)
      <4>4. R(n)[k] = start[k]
        BY <2>2
      <4> QED BY <4>3, <4>4
    <3> QED BY <3>1
  <2>3. Nat \subseteq Good
    <3> HIDE DEF Good
    <3> QED BY <2>1, <2>2, SetInduction
  <2> QED BY <1>2, <2>3
<1>8. ASSUME NEW q \in Facts, \A k \in FactKey : start[k] \subseteq q[k],
             \A r \in edges : q[r[1]] \subseteq q[r[2]]
      PROVE  \A k \in FactKey : R(N)[k] \subseteq q[k]
  <2> DEFINE Good == {n \in Nat : \A k \in FactKey : R(n)[k] \subseteq q[k]}
  <2>1. 0 \in Good
    BY <1>3, <1>8
  <2>2. ASSUME NEW n \in Nat, n \in Good PROVE n + 1 \in Good
    <3>1. ASSUME NEW k \in FactKey, NEW x \in R(n + 1)[k] PROVE x \in q[k]
      <4>1. x \in R(n)[k] \/ \E r \in edges : r[2] = k /\ x \in R(n)[r[1]]
        BY <1>4, <3>1
      <4>2. R(n)[k] \subseteq q[k] /\ \A r \in edges : R(n)[r[1]] \subseteq q[r[1]]
        BY <1>1, <2>2
      <4> QED BY <1>8, <4>1, <4>2
    <3> QED BY <3>1
  <2>3. Nat \subseteq Good
    <3> HIDE DEF Good
    <3> QED BY <2>1, <2>2, SetInduction
  <2> QED BY <1>2, <2>3
<1>9. R(N) \in Facts
  BY <1>2, <1>3
<1> QED BY <1>5, <1>6, <1>7, <1>8, <1>9 DEF R, N, edges

\* What files say of a key is a fact.
LEMMA DirectType == ASSUME NEW snaps PROVE [k \in FactKey |-> Direct(snaps, k)] \in Facts
BY DEF Direct, Facts, Fact

\* The join of the whole project: the least facts above what the files say that
\* agree along all re-exports.
LEMMA ProjectFacts ==
  ASSUME NEW snaps, IsFiniteSet(Reexports(snaps)), Reexports(snaps) \in FactEdges
  PROVE  /\ ProjectOf(snaps) \in Facts
         /\ \A k \in FactKey : Direct(snaps, k) \subseteq ProjectOf(snaps)[k]
         /\ \A r \in Reexports(snaps) : ProjectOf(snaps)[r[1]] \subseteq ProjectOf(snaps)[r[2]]
         /\ \A q \in Facts :
              /\ \A k \in FactKey : Direct(snaps, k) \subseteq q[k]
              /\ \A r \in Reexports(snaps) : q[r[1]] \subseteq q[r[2]]
              => \A k \in FactKey : ProjectOf(snaps)[k] \subseteq q[k]
<1> DEFINE start == [k \in FactKey |-> Direct(snaps, k)]
           p     == Rounds(start, snaps, FactKey, Cardinality(Reexports(snaps)))
<1>1. start \in Facts
  BY DirectType
<1>2. ProjectOf(snaps) = p
  BY DEF ProjectOf
<1>3. \A k \in FactKey : start[k] = Direct(snaps, k)
  OBVIOUS
<1>4. \A r \in Reexports(snaps) : r[2] \in FactKey
  BY DEF FactEdges
<1> HIDE DEF start
<1>5. /\ p \in Facts
      /\ \A k \in FactKey : start[k] \subseteq p[k]
      /\ \A r \in Reexports(snaps) : r[2] \in FactKey => p[r[1]] \subseteq p[r[2]]
      /\ \A q \in Facts :
           /\ \A k \in FactKey : start[k] \subseteq q[k]
           /\ \A r \in Reexports(snaps) : r[2] \in FactKey => q[r[1]] \subseteq q[r[2]]
           => \A k \in FactKey : p[k] \subseteq q[k]
  BY <1>1, FixedPointFacts
<1> HIDE DEF p
<1> QED BY <1>2, <1>3, <1>4, <1>5

\* The keys downstream of some are keys, those among them, and no re-export leaves
\* them.
LEMMA DownstreamFacts ==
  ASSUME NEW snaps, NEW seeds \in SUBSET FactKey,
         IsFiniteSet(Reexports(snaps)), Reexports(snaps) \in FactEdges
  PROVE  /\ Downstream(snaps, seeds) \subseteq FactKey
         /\ seeds \subseteq Downstream(snaps, seeds)
         /\ \A r \in Reexports(snaps) :
              r[1] \in Downstream(snaps, seeds) => r[2] \in Downstream(snaps, seeds)
<1> DEFINE edges == Reexports(snaps)
           N     == Cardinality(edges)
           IsRun(g) == g = [n \in Nat |->
             IF n = 0 THEN seeds
             ELSE g[n - 1] \union {r[2] : r \in {r \in edges : r[1] \in g[n - 1]}}]
           grow  == CHOOSE g : IsRun(g)
<1>1. Downstream(snaps, seeds) = grow[N]
  BY DEF Downstream
<1>2. N \in Nat /\ N <= N
  BY FS_CardinalityType
<1>3. \A r \in edges : r[2] \in FactKey
  BY DEF FactEdges
<1> HIDE DEF edges, N
<1>4. \E g : IsRun(g)
  <2> DEFINE KeySets == SUBSET FactKey
             F == [ks \in KeySets |-> ks \union {r[2] : r \in {r \in edges : r[1] \in ks}}]
  <2>1. F \in [KeySets -> KeySets]
    BY <1>3
  <2>2. seeds \in KeySets
    OBVIOUS
  <2>3. PICK g \in [Nat -> KeySets] : g[0] = seeds /\ \A n \in Nat : g[n + 1] = F[g[n]]
    <3> HIDE DEF F, KeySets
    <3> QED BY <2>1, <2>2, Recursion
  <2> DEFINE next(n) == g[n - 1] \union {r[2] : r \in {r \in edges : r[1] \in g[n - 1]}}
  <2>4. ASSUME NEW n \in Nat, n # 0 PROVE g[n] = next(n)
    <3>1. n - 1 \in Nat /\ (n - 1) + 1 = n
      BY <2>4
    <3>2. g[n] = F[g[n - 1]] /\ g[n - 1] \in KeySets
      <4> HIDE DEF F, KeySets
      <4> QED BY <2>3, <3>1
    <3> QED BY <3>2
  <2> HIDE DEF next
  <2>5. g = [n \in Nat |-> IF n = 0 THEN seeds ELSE next(n)]
    <3> HIDE DEF F, KeySets
    <3> QED BY <2>3, <2>4
  <2> QED BY <2>5 DEF next
<1>5. IsRun(grow)
  <2> HIDE DEF IsRun
  <2> QED BY <1>4
<1> DEFINE next(n) == grow[n - 1] \union {r[2] : r \in {r \in edges : r[1] \in grow[n - 1]}}
<1>6. grow = [n \in Nat |-> IF n = 0 THEN seeds ELSE next(n)]
  BY <1>5
<1>7. grow[0] = seeds
  <2> HIDE DEF grow, next
  <2> QED BY <1>6
<1>8. ASSUME NEW n \in Nat
      PROVE  grow[n + 1] = grow[n] \union {r[2] : r \in {r \in edges : r[1] \in grow[n]}}
  <2>1. n + 1 \in Nat /\ n + 1 # 0 /\ (n + 1) - 1 = n
    OBVIOUS
  <2>2. grow[n + 1] = next(n + 1)
    <3> HIDE DEF grow, next
    <3> QED BY <1>6, <2>1
  <2> HIDE DEF grow
  <2> QED BY <2>1, <2>2
<1> HIDE DEF grow
<1>9. seeds \subseteq grow[N] /\ grow[N] \subseteq FactKey
  <2> DEFINE Good == {n \in Nat : seeds \subseteq grow[n] /\ grow[n] \subseteq FactKey}
  <2>1. 0 \in Good
    BY <1>7
  <2>2. ASSUME NEW n \in Nat, n \in Good PROVE n + 1 \in Good
    BY <1>3, <1>8, <2>2
  <2>3. Nat \subseteq Good
    <3> HIDE DEF Good
    <3> QED BY <2>1, <2>2, SetInduction
  <2> QED BY <1>2, <2>3
<1>10. \A r \in edges : r[1] \in grow[N] => r[2] \in grow[N]
  <2>1. IsFiniteSet(edges) /\ Cardinality(edges) <= N
    BY <1>2 DEF edges, N
  <2> QED BY <1>2, <1>8, <2>1, Saturation
<1> QED BY <1>1, <1>9, <1>10 DEF edges

\* Re-exports go from key to key.
LEMMA ReexportsTyped == ASSUME NEW snaps \in [Files -> Snapshot] PROVE Reexports(snaps) \in FactEdges
BY DEF Reexports, Snapshot, FactEdges, FactKey

\* What is joined anew after a change is what joining everything gives: outside of
\* the keys downstream of the change nothing flows in from them, so that the old join
\* and the new one agree there, and inside them everything is computed again.
THEOREM RejoinIsJoin ==
  ASSUME NEW changed \in SUBSET Files, NEW old \in [Files -> Snapshot], NEW new \in [Files -> Snapshot],
         \A f \in Files \ changed : old[f] = new[f],
         IsFiniteSet(Reexports(old)), IsFiniteSet(Reexports(new))
  PROVE  Rejoin(ProjectOf(old), old, new, changed) = ProjectOf(new)
<1> DEFINE seeds == Seeds(old, new, changed)
           keys  == Downstream(new, seeds)
           P     == ProjectOf(old)
           Q     == ProjectOf(new)
           start == Over([k \in keys |-> Direct(new, k)], P)
           Y     == FixedPoint(P, new, keys)
           top   == Types \X Files
<1>1. Reexports(old) \in FactEdges /\ Reexports(new) \in FactEdges
  BY ReexportsTyped
<1>2. seeds \in SUBSET FactKey
  BY DEF Seeds, Keys, Snapshot, FactKey
<1>3. /\ keys \subseteq FactKey /\ seeds \subseteq keys
      /\ \A r \in Reexports(new) : r[1] \in keys => r[2] \in keys
  <2> HIDE DEF seeds
  <2> QED BY <1>1, <1>2, DownstreamFacts
<1>4. ASSUME NEW k \in FactKey, k \notin keys PROVE Direct(old, k) = Direct(new, k)
  <2>1. ASSUME NEW f \in Files, NEW type PROVE <<k, type>> \in old[f].facts <=> <<k, type>> \in new[f].facts
    <3>1. CASE f \in changed
      <4>1. k \notin seeds
        BY <1>3, <1>4
      <4> QED BY <3>1, <4>1 DEF Seeds, Keys
    <3>2. CASE f \notin changed
      BY <3>2
    <3> QED BY <3>1, <3>2
  <2>2. DOMAIN old = Files /\ DOMAIN new = Files
    OBVIOUS
  <2> QED BY <2>1, <2>2 DEF Direct
<1>5. ASSUME NEW r, r[2] \notin keys PROVE r \in Reexports(old) <=> r \in Reexports(new)
  <2>1. ASSUME NEW f \in Files PROVE r \in old[f].reexports <=> r \in new[f].reexports
    <3>1. CASE f \in changed
      <4>1. r[2] \notin seeds
        BY <1>3, <1>5
      <4> QED BY <3>1, <4>1 DEF Seeds
    <3>2. CASE f \notin changed
      BY <3>2
    <3> QED BY <3>1, <3>2
  <2>2. DOMAIN old = Files /\ DOMAIN new = Files
    OBVIOUS
  <2> QED BY <2>1, <2>2 DEF Reexports
<1>6. /\ P \in Facts
      /\ \A k \in FactKey : Direct(old, k) \subseteq P[k]
      /\ \A r \in Reexports(old) : P[r[1]] \subseteq P[r[2]]
      /\ \A q \in Facts :
           /\ \A k \in FactKey : Direct(old, k) \subseteq q[k]
           /\ \A r \in Reexports(old) : q[r[1]] \subseteq q[r[2]]
           => \A k \in FactKey : P[k] \subseteq q[k]
  BY <1>1, ProjectFacts
<1>7. /\ Q \in Facts
      /\ \A k \in FactKey : Direct(new, k) \subseteq Q[k]
      /\ \A r \in Reexports(new) : Q[r[1]] \subseteq Q[r[2]]
      /\ \A q \in Facts :
           /\ \A k \in FactKey : Direct(new, k) \subseteq q[k]
           /\ \A r \in Reexports(new) : q[r[1]] \subseteq q[r[2]]
           => \A k \in FactKey : Q[k] \subseteq q[k]
  BY <1>1, ProjectFacts
<1>8. start \in Facts /\ \A k \in FactKey : start[k] = IF k \in keys THEN Direct(new, k) ELSE P[k]
  <2> HIDE DEF P, keys
  <2>1. DOMAIN start = FactKey
    BY <1>3, <1>6 DEF Over, Facts
  <2>2. \A k \in FactKey : start[k] = IF k \in keys THEN Direct(new, k) ELSE P[k]
    BY <1>3, <1>6 DEF Over, Facts
  <2>3. ASSUME NEW k \in FactKey PROVE start[k] \in Fact
    <3>1. Direct(new, k) \in Fact
      BY DEF Direct, Fact
    <3>2. P[k] \in Fact
      BY <1>6 DEF Facts
    <3> QED BY <2>2, <3>1, <3>2
  <2>4. start = [k \in FactKey |-> start[k]]
    BY <2>1 DEF Over
  <2> HIDE DEF start
  <2> QED BY <2>2, <2>3, <2>4 DEF Facts
<1>9. Y = Rounds(start, new, keys, Cardinality(Reexports(new)))
  BY DEF FixedPoint
<1> HIDE DEF start, P, Q, Y, keys, seeds
<1>10. /\ Y \in Facts
       /\ \A k \in FactKey : start[k] \subseteq Y[k]
       /\ \A r \in Reexports(new) : r[2] \in keys => Y[r[1]] \subseteq Y[r[2]]
       /\ \A k \in FactKey \ keys : Y[k] = start[k]
       /\ \A q \in Facts :
            /\ \A k \in FactKey : start[k] \subseteq q[k]
            /\ \A r \in Reexports(new) : r[2] \in keys => q[r[1]] \subseteq q[r[2]]
            => \A k \in FactKey : Y[k] \subseteq q[k]
  BY <1>1, <1>8, <1>9, FixedPointFacts
<1>11. \A r \in Reexports(old) \union Reexports(new) : r[1] \in FactKey /\ r[2] \in FactKey
  BY <1>1 DEF FactEdges
<1>12. ASSUME NEW k \in FactKey, k \notin keys PROVE P[k] \subseteq Q[k]
  <2> DEFINE q == [j \in FactKey |-> IF j \in keys THEN top ELSE Q[j]]
  <2>1. q \in Facts
    BY <1>7 DEF Facts, Fact
  <2>2. ASSUME NEW j \in FactKey PROVE Direct(old, j) \subseteq q[j]
    <3>1. CASE j \in keys
      BY <3>1 DEF Direct
    <3>2. CASE j \notin keys
      BY <1>4, <1>7, <3>2
    <3> QED BY <3>1, <3>2
  <2>3. ASSUME NEW r \in Reexports(old) PROVE q[r[1]] \subseteq q[r[2]]
    <3>1. CASE r[2] \in keys
      <4>1. q[r[2]] = top /\ q[r[1]] \in Fact
        BY <1>11, <2>1, <3>1 DEF Facts
      <4> QED BY <4>1 DEF Fact
    <3>2. CASE r[2] \notin keys
      <4>1. r \in Reexports(new) /\ r[1] \notin keys
        BY <1>3, <1>5, <3>2
      <4> QED BY <1>7, <1>11, <3>2, <4>1
    <3> QED BY <3>1, <3>2
  <2>4. q[k] = Q[k]
    BY <1>12
  <2> HIDE DEF q
  <2> QED BY <1>6, <2>1, <2>2, <2>3, <2>4
<1>13. ASSUME NEW k \in FactKey, k \notin keys PROVE Q[k] \subseteq P[k]
  <2> DEFINE q == [j \in FactKey |-> IF j \in keys THEN top ELSE P[j]]
  <2>1. q \in Facts
    BY <1>6 DEF Facts, Fact
  <2>2. ASSUME NEW j \in FactKey PROVE Direct(new, j) \subseteq q[j]
    <3>1. CASE j \in keys
      BY <3>1 DEF Direct
    <3>2. CASE j \notin keys
      BY <1>4, <1>6, <3>2
    <3> QED BY <3>1, <3>2
  <2>3. ASSUME NEW r \in Reexports(new) PROVE q[r[1]] \subseteq q[r[2]]
    <3>1. CASE r[2] \in keys
      <4>1. q[r[2]] = top /\ q[r[1]] \in Fact
        BY <1>11, <2>1, <3>1 DEF Facts
      <4> QED BY <4>1 DEF Fact
    <3>2. CASE r[2] \notin keys
      <4>1. r \in Reexports(old) /\ r[1] \notin keys
        BY <1>3, <1>5, <3>2
      <4> QED BY <1>6, <1>11, <3>2, <4>1
    <3> QED BY <3>1, <3>2
  <2>4. q[k] = P[k]
    BY <1>13
  <2> HIDE DEF q
  <2> QED BY <1>7, <2>1, <2>2, <2>3, <2>4
<1>14. \A k \in FactKey \ keys : Y[k] = Q[k]
  BY <1>8, <1>10, <1>12, <1>13, ZenonT(40)
<1>15. \A k \in FactKey : Y[k] \subseteq Q[k]
  <2>1. \A k \in FactKey : start[k] \subseteq Q[k]
    BY <1>7, <1>8, <1>12
  <2> QED BY <1>7, <1>10, <2>1
<1>16. \A k \in FactKey : Q[k] \subseteq Y[k]
  <2>1. \A k \in FactKey : Direct(new, k) \subseteq Y[k]
    <3>1. ASSUME NEW k \in FactKey, k \in keys PROVE Direct(new, k) \subseteq Y[k]
      BY <1>8, <1>10, <3>1
    <3>2. ASSUME NEW k \in FactKey, k \notin keys PROVE Direct(new, k) \subseteq Y[k]
      BY <1>7, <1>14, <3>2
    <3> QED BY <3>1, <3>2
  <2>2. ASSUME NEW r \in Reexports(new) PROVE Y[r[1]] \subseteq Y[r[2]]
    <3>1. CASE r[2] \in keys
      BY <1>10, <3>1
    <3>2. CASE r[2] \notin keys
      <4>1. r[1] \notin keys
        BY <1>3, <3>2
      <4> QED BY <1>7, <1>11, <1>14, <3>2, <4>1
    <3> QED BY <3>1, <3>2
  <2> QED BY <1>7, <1>10, <2>1, <2>2
<1>17. Y = Q
  <2>1. Y = [k \in FactKey |-> Y[k]] /\ Q = [k \in FactKey |-> Q[k]]
    BY <1>7, <1>10 DEF Facts
  <2>2. \A k \in FactKey : Y[k] = Q[k]
    BY <1>15, <1>16
  <2> QED BY <2>1, <2>2
<1> QED BY <1>17 DEF Rejoin, Y, Q, P, keys, seeds

-----------------------------------------------------------------------------
(* The index of type facts is the join of the rows' facts *)

\* The facts of the texts.
Snaps == {Content[t].snap : t \in TextIds}

\* What the index is of: each row has the facts of a text, and the join of them is there.
Joins(rws, proj) ==
  /\ DOMAIN rws \subseteq Files
  /\ \A f \in DOMAIN rws : rws[f].facts \in Snaps
  /\ proj = ProjectOf(FactsOf(rws))

\* Facts of texts, at some files.
IsFactsOf(s) == DOMAIN s \subseteq Files /\ \A f \in DOMAIN s : s[f] \in Snaps

\* With nothing said by the other files they are facts at all files, finitely many
\* re-exports among them.
LEMMA PaddedFacts ==
  ASSUME NEW s, IsFactsOf(s)
  PROVE  /\ Padded(s, Files) \in [Files -> Snapshot]
         /\ Reexports(Padded(s, Files)) = Reexports(s)
         /\ IsFiniteSet(Reexports(s))
         /\ \A k : Direct(Padded(s, Files), k) = Direct(s, k)
<1> DEFINE p == Padded(s, Files)
<1>1. /\ NoSnapshot \in Snapshot /\ NoSnapshot.facts = {} /\ NoSnapshot.reexports = {}
      /\ IsFiniteSet({})
  BY FS_EmptySet DEF NoSnapshot, Snapshot
<1>2. \A x \in Snaps : x \in Snapshot /\ IsFiniteSet(x.reexports)
  BY ScanAssumption, FiniteAssumption DEF Snaps, Text
<1>3. /\ DOMAIN p = Files
      /\ \A f \in Files : p[f] = IF f \in DOMAIN s THEN s[f] ELSE NoSnapshot
      /\ p = [f \in Files |-> p[f]]
  BY DEF Padded
<1> HIDE DEF p
<1>4. \A f \in Files : p[f] \in Snapshot /\ IsFiniteSet(p[f].reexports)
  BY <1>1, <1>2, <1>3 DEF IsFactsOf
<1>5. p \in [Files -> Snapshot]
  BY <1>3, <1>4
<1>6. Reexports(p) = Reexports(s)
  BY <1>1, <1>3 DEF Reexports, IsFactsOf
<1>7. \A k : Direct(p, k) = Direct(s, k)
  BY <1>1, <1>3 DEF Direct, IsFactsOf
<1>8. IsFiniteSet(Reexports(p))
  <2> DEFINE T == {p[f].reexports : f \in Files}
             g == [f \in Files |-> p[f].reexports]
  <2>1. g \in Surjection(Files, T)
    BY DEF Surjection
  <2>2. IsFiniteSet(T)
    <3> HIDE DEF g, T
    <3> QED BY <2>1, FiniteAssumption, FS_Surjection
  <2>3. \A x \in T : IsFiniteSet(x)
    BY <1>4
  <2>4. Reexports(p) = UNION T
    BY <1>3 DEF Reexports
  <2> HIDE DEF T
  <2> QED BY <2>2, <2>3, <2>4, FS_UNION
<1> QED BY <1>5, <1>6, <1>7, <1>8 DEF p

\* Nor does it matter to the join.
LEMMA PaddedJoin ==
  ASSUME NEW s, IsFactsOf(s)
  PROVE  ProjectOf(Padded(s, Files)) = ProjectOf(s)
<1> DEFINE p == Padded(s, Files)
<1>1. /\ p \in [Files -> Snapshot] /\ Reexports(p) = Reexports(s)
      /\ IsFiniteSet(Reexports(s)) /\ \A k : Direct(p, k) = Direct(s, k)
  BY PaddedFacts
<1> HIDE DEF p
<1>2. Reexports(s) \in FactEdges
  BY <1>1, ReexportsTyped
<1> DEFINE Least(x) ==
      /\ x \in Facts
      /\ \A k \in FactKey : Direct(s, k) \subseteq x[k]
      /\ \A r \in Reexports(s) : x[r[1]] \subseteq x[r[2]]
      /\ \A q \in Facts :
           /\ \A k \in FactKey : Direct(s, k) \subseteq q[k]
           /\ \A r \in Reexports(s) : q[r[1]] \subseteq q[r[2]]
           => \A k \in FactKey : x[k] \subseteq q[k]
<1>3. Least(ProjectOf(s))
  BY <1>1, <1>2, ProjectFacts
<1>4. Least(ProjectOf(p))
  <2>1. IsFiniteSet(Reexports(p)) /\ Reexports(p) \in FactEdges
    BY <1>1, <1>2
  <2> HIDE DEF Least
  <2>2. /\ ProjectOf(p) \in Facts
        /\ \A k \in FactKey : Direct(p, k) \subseteq ProjectOf(p)[k]
        /\ \A r \in Reexports(p) : ProjectOf(p)[r[1]] \subseteq ProjectOf(p)[r[2]]
        /\ \A q \in Facts :
             /\ \A k \in FactKey : Direct(p, k) \subseteq q[k]
             /\ \A r \in Reexports(p) : q[r[1]] \subseteq q[r[2]]
             => \A k \in FactKey : ProjectOf(p)[k] \subseteq q[k]
    BY <2>1, ProjectFacts
  <2> QED BY <1>1, <2>2 DEF Least
<1>5. ASSUME NEW x, NEW y, Least(x), Least(y) PROVE x = y
  <2>1. \A k \in FactKey : x[k] = y[k]
    BY <1>5
  <2>2. x = [k \in FactKey |-> x[k]] /\ y = [k \in FactKey |-> y[k]]
    BY <1>5 DEF Facts
  <2> QED BY <2>1, <2>2
<1> HIDE DEF Least
<1> QED BY <1>3, <1>4, <1>5 DEF p

\* Without a row there is nothing to join.
LEMMA NothingJoined == ASSUME NEW s, DOMAIN s = {} PROVE ProjectOf(s) = NoFacts
<1>1. IsFactsOf(s) /\ Reexports(s) = {} /\ \A k : Direct(s, k) = {}
  BY DEF IsFactsOf, Reexports, Direct
<1>2. IsFiniteSet(Reexports(s)) /\ Reexports(s) \in FactEdges
  BY <1>1, FS_EmptySet DEF FactEdges
<1>3. NoFacts \in Facts /\ \A k \in FactKey : NoFacts[k] = {}
  BY DEF NoFacts, Facts, Fact
<1>4. ProjectOf(s) \in Facts /\ \A k \in FactKey : ProjectOf(s)[k] \subseteq NoFacts[k]
  BY <1>1, <1>2, <1>3, ProjectFacts
<1>5. \A k \in FactKey : ProjectOf(s)[k] = NoFacts[k]
  BY <1>3, <1>4
<1>6. ProjectOf(s) = [k \in FactKey |-> ProjectOf(s)[k]] /\ NoFacts = [k \in FactKey |-> NoFacts[k]]
  BY <1>4 DEF Facts, NoFacts
<1> QED BY <1>5, <1>6

\* A plan with the join of its facts, in which those of the files that it does not
\* extract are those of their rows.
PlanOfJoin(plan) ==
  /\ IsFactsOf(plan.facts) /\ DOMAIN plan.facts = plan.active
  /\ plan.facts = [f \in plan.active |-> plan.facts[f]]
  /\ \A f \in plan.active \ plan.dirty : f \in DOMAIN rows /\ plan.facts[f] = rows[f].facts
  /\ plan.project = ProjectOf(plan.facts)

\* Such is the plan of an operation, whatever is dirty and removed.
LEMMA PlanJoins ==
  ASSUME tree \in [Files -> TextIds \union {Absent}], Joins(rows, project),
         NEW dirty \in SUBSET OnDisk, NEW removed \in SUBSET DOMAIN rows, NEW active,
         active = dirty \union (DOMAIN rows \ removed)
  PROVE  PlanOfJoin(PlanOf(dirty, removed, active))
<1> DEFINE fresh    == [f \in dirty |-> Content[tree[f]].snap]
           old      == FactsOf(rows)
           new      == NewFacts(rows, removed, fresh)
           promoted == Promotion(rows, project, dirty, removed, fresh)
           plan     == PlanOf(dirty, removed, active)
           changed  == dirty \union removed
<1>1. /\ plan.active = active /\ plan.dirty = dirty \union promoted.files
      /\ plan.facts = promoted.facts /\ plan.project = promoted.project
  BY DEF PlanOf
<1>2. promoted.facts = new /\ promoted.project = Rejoin(project, Padded(old, Files), Padded(new, Files), changed)
  BY DEF Promotion
<1>3. dirty \subseteq Files /\ \A f \in dirty : tree[f] \in TextIds
  BY DEF OnDisk
<1>4. IsFactsOf(old) /\ DOMAIN old = DOMAIN rows /\ \A f \in DOMAIN rows : old[f] = rows[f].facts
  BY DEF Joins, FactsOf, IsFactsOf
<1>5. \A f \in dirty : fresh[f] \in Snaps
  BY <1>3 DEF Snaps
<1>6. /\ DOMAIN new = active /\ new = [f \in active |-> new[f]]
      /\ \A f \in active : new[f] = IF f \in dirty THEN fresh[f] ELSE rows[f].facts
  BY DEF NewFacts, Over
<1> HIDE DEF fresh, old, new, promoted, plan
<1>7. IsFactsOf(new)
  BY <1>3, <1>4, <1>5, <1>6 DEF IsFactsOf
<1>8. ASSUME NEW f \in Files \ changed PROVE Padded(old, Files)[f] = Padded(new, Files)[f]
  <2>1. f \notin dirty /\ f \notin removed
    OBVIOUS
  <2>2. f \in DOMAIN old <=> f \in DOMAIN new
    BY <1>4, <1>6, <2>1
  <2>3. f \in DOMAIN old => old[f] = new[f]
    BY <1>4, <1>6, <2>1, <2>2
  <2> QED BY <2>2, <2>3 DEF Padded
<1>9. plan.project = ProjectOf(new)
  <2> DEFINE before == Padded(old, Files)
             after  == Padded(new, Files)
  <2>1. /\ before \in [Files -> Snapshot] /\ after \in [Files -> Snapshot]
        /\ IsFiniteSet(Reexports(before)) /\ IsFiniteSet(Reexports(after))
    BY <1>4, <1>7, PaddedFacts
  <2>2. project = ProjectOf(before) /\ ProjectOf(after) = ProjectOf(new)
    BY <1>4, <1>7, PaddedJoin DEF Joins, old
  <2>3. changed \in SUBSET Files
    BY <1>3 DEF Joins
  <2> HIDE DEF before, after, changed
  <2>4. Rejoin(ProjectOf(before), before, after, changed) = ProjectOf(after)
    BY <1>8, <2>1, <2>3, RejoinIsJoin DEF before, after
  <2> QED BY <1>1, <1>2, <2>2, <2>4 DEF before, after
<1>10. ASSUME NEW f \in active \ plan.dirty PROVE f \in DOMAIN rows /\ new[f] = rows[f].facts
  BY <1>1, <1>6
<1> QED BY <1>1, <1>2, <1>6, <1>7, <1>9, <1>10 DEF PlanOfJoin, plan

\* A build of such a plan leaves an index that is the join of the new rows.
LEMMA BuildJoins ==
  ASSUME NEW plan, Build(plan), PlanOfJoin(plan)
  PROVE  Joins(rows', project') /\ tree' = tree
<1>1. /\ \E x, nodes, edges : rows' = Built(plan, x, nodes, edges).rows
      /\ project' = plan.project /\ tree' = tree
  <2> DEFINE skipped  == plan.active \ plan.dirty
             restored == Restored(graph, rows, skipped, plan.dirty, plan.active)
             x        == ExtractDirty(plan.dirty, restored, plan.active, plan.facts, plan.project)
             nodes    == Over(x.nodes, Over(FileNodes(plan.dirty), [n \in restored |-> graph.nodes[n]]))
             edges    == x.edges \union RestoredEdges(rows, skipped, nodes)
  <2>1. rows' = Built(plan, x, nodes, edges).rows /\ project' = plan.project /\ tree' = tree
    BY DEF Build
  <2> HIDE DEF skipped, restored, x, nodes, edges
  <2> QED BY <2>1
<1>2. PICK x, nodes, edges : rows' = Built(plan, x, nodes, edges).rows
  BY <1>1
<1>6. rows' = [f \in plan.active |-> IF f \in plan.dirty THEN Row(f, plan.hashes[f], plan.facts[f], nodes, edges) ELSE rows[f]]
  BY <1>2 DEF Built
<1>3. \A f \in plan.active : Row(f, plan.hashes[f], plan.facts[f], nodes, edges).facts = plan.facts[f]
  BY DEF Row
<1>4. DOMAIN rows' = plan.active /\ \A f \in plan.active : rows'[f].facts = plan.facts[f]
  BY <1>3, <1>6 DEF PlanOfJoin
<1>5. FactsOf(rows') = plan.facts
  BY <1>4 DEF FactsOf, PlanOfJoin
<1> QED BY <1>1, <1>4, <1>5 DEF Joins, IsFactsOf, PlanOfJoin

\* The tree has texts, and the index is the join of the rows.
JoinInv == tree \in [Files -> TextIds \union {Absent}] /\ Joins(rows, project)

\* There is nothing to join at first.
LEMMA InitJoins == Init => JoinInv
<1> SUFFICES ASSUME Init PROVE JoinInv
  OBVIOUS
<1>1. tree \in [Files -> TextIds \union {Absent}]
  BY ScanAssumption DEF Init
<1>2. DOMAIN rows = {} /\ project = NoFacts
  BY DEF Init, Empty
<1>3. DOMAIN FactsOf(rows) = {}
  BY <1>2 DEF FactsOf
<1> QED BY <1>1, <1>2, <1>3, NothingJoined DEF JoinInv, Joins

\* A build of such a plan, whatever is dirty and removed; or there is nothing to do.
Operates ==
  \/ NothingToDo
  \/ \E dirty \in SUBSET OnDisk : \E removed \in SUBSET DOMAIN rows :
       Build(PlanOf(dirty, removed, dirty \union (DOMAIN rows \ removed)))

\* That is what scans, updates and removals do.
LEMMA OperationsBuild ==
  ASSUME Scan \/ (\E r \in Requests : Update(r[1], r[2])) \/ (\E paths \in Batches : Remove(paths))
  PROVE  Operates
<1>1. CASE Scan
  <2> DEFINE removed == DOMAIN rows \ OnDisk
             dirty   == Changed(OnDisk) \union (Referrers(graph, removed) \intersect OnDisk)
  <2>1. Build(ScanPlan) \/ NothingToDo
    BY <1>1 DEF Scan, Follow
  <2>2. ScanPlan = PlanOf(dirty, removed, OnDisk)
    BY DEF ScanPlan
  <2>3. dirty \in SUBSET OnDisk /\ removed \in SUBSET DOMAIN rows
    BY DEF Changed
  <2>4. OnDisk = dirty \union (DOMAIN rows \ removed)
    BY DEF Changed
  <2> HIDE DEF removed, dirty
  <2> QED BY <2>1, <2>2, <2>3, <2>4 DEF Operates
<1>2. ASSUME NEW r \in Requests, Update(r[1], r[2])
      PROVE  Operates
  <2> DEFINE paths    == r[1]
             deleted  == r[2]
             existing == (paths \ deleted) \intersect OnDisk
             removed  == (deleted \union (paths \ existing)) \intersect DOMAIN rows
             dirty    == Changed(existing) \union ((Referrers(graph, removed) \intersect OnDisk) \ removed)
             active   == (DOMAIN rows \union dirty) \ removed
  <2>1. Build(UpdatePlan(paths, deleted)) \/ NothingToDo
    BY <1>2 DEF Update, Follow
  <2>2. UpdatePlan(paths, deleted) = PlanOf(dirty, removed, active)
    BY DEF UpdatePlan
  <2>3. dirty \in SUBSET OnDisk /\ removed \in SUBSET DOMAIN rows
    BY DEF Changed
  <2>4. dirty \intersect removed = {}
    BY DEF Changed
  <2>5. active = dirty \union (DOMAIN rows \ removed)
    <3> HIDE DEF removed, dirty
    <3> QED BY <2>4
  <2> HIDE DEF removed, dirty, active, paths, deleted
  <2> QED BY <2>1, <2>2, <2>3, <2>5 DEF Operates
<1>3. ASSUME NEW paths \in Batches, Remove(paths)
      PROVE  Operates
  <2> DEFINE removed == paths \intersect DOMAIN rows
             active  == DOMAIN rows \ removed
  <2>1. Build(PlanOf({}, removed, active))
    BY <1>3 DEF Remove
  <2>2. {} \in SUBSET OnDisk /\ removed \in SUBSET DOMAIN rows /\ active = {} \union (DOMAIN rows \ removed)
    OBVIOUS
  <2> HIDE DEF removed, active
  <2> QED BY <2>1, <2>2 DEF Operates
<1> QED BY <1>1, <1>2, <1>3

\* Every operation keeps the index the join of the rows.
LEMMA StepJoins == JoinInv /\ [Next]_vars => JoinInv'
<1> SUFFICES ASSUME JoinInv, [Next]_vars
             PROVE  tree' \in [Files -> TextIds \union {Absent}] /\ Joins(rows', project')
  BY DEF JoinInv, Joins
<1>0. /\ tree \in [Files -> TextIds \union {Absent}] /\ Joins(rows, project)
      /\ DOMAIN rows \subseteq Files
  BY DEF JoinInv, Joins
<1>1. CASE Operates
  <2>1. CASE NothingToDo
    BY <1>0, <2>1 DEF NothingToDo
  <2>2. ASSUME NEW dirty \in SUBSET OnDisk, NEW removed \in SUBSET DOMAIN rows,
               Build(PlanOf(dirty, removed, dirty \union (DOMAIN rows \ removed)))
        PROVE  tree' = tree /\ Joins(rows', project')
    BY <1>0, <2>2, PlanJoins, BuildJoins
  <2> QED BY <1>0, <1>1, <2>1, <2>2 DEF Operates
<1>2. ASSUME NEW f \in Files, NEW t \in TextsOf[f], Edit(f, t)
      PROVE  tree' \in [Files -> TextIds \union {Absent}] /\ Joins(rows', project')
  <2>1. t \in TextIds \union {Absent}
    BY ScanAssumption
  <2>2. tree' = [tree EXCEPT ![f] = t] /\ rows' = rows /\ project' = project
    BY <1>2 DEF Edit
  <2> QED BY <1>0, <2>1, <2>2
<1>3. CASE UNCHANGED vars
  BY <1>0, <1>3 DEF vars
<1> QED BY <1>1, <1>2, <1>3, OperationsBuild DEF Next

\* The persisted index is what joining the facts of all rows from nothing gives,
\* whatever was added to it and taken from it in between.
THEOREM TypeIndexIsJoinHolds == Spec => []TypeIndexIsJoin
<1>1. JoinInv => TypeIndexIsJoin
  BY DEF JoinInv, Joins, TypeIndexIsJoin
<1> QED BY <1>1, InitJoins, StepJoins, PTL DEF Spec

-----------------------------------------------------------------------------
(* Types *)

\* The contents a file has had.
Held(f) == TextsOf[f] \ {Absent}

\* A hash and facts are those of a content of the file.
IsOf(f, hash, facts) == hash \in Held(f) /\ facts \in {Content[t].snap : t \in Held(f)}

\* What TypeOK adds to the other two invariants.
TypeInv ==
  /\ tree \in [Files -> TextIds \union {Absent}]
  /\ \A f \in Files : tree[f] \in TextsOf[f] \union {Absent}
  /\ DOMAIN rows \subseteq Files
  /\ \A f \in DOMAIN rows : IsOf(f, rows[f].hash, rows[f].facts)
  /\ DOMAIN read = DOMAIN rows /\ DOMAIN view = DOMAIN rows
  /\ strayed \in BOOLEAN /\ edits \in 0 .. MaxEdits

\* A plan for files, with the hash and the facts of each, where those that it does
\* not extract have rows.
PlanOfTypes(plan) ==
  /\ plan.active \subseteq Files
  /\ \A f \in plan.active : IsOf(f, plan.hashes[f], plan.facts[f])
  /\ \A f \in plan.active \ plan.dirty : f \in DOMAIN rows

\* A plan takes hashes and facts from the tree, or from rows.
LEMMA PlanTypes ==
  ASSUME TypeInv, NEW dirty \in SUBSET OnDisk, NEW removed \in SUBSET DOMAIN rows, NEW active,
         active = dirty \union (DOMAIN rows \ removed)
  PROVE  PlanOfTypes(PlanOf(dirty, removed, active))
<1> DEFINE plan     == PlanOf(dirty, removed, active)
           fresh    == [f \in dirty |-> Content[tree[f]].snap]
           promoted == Promotion(rows, project, dirty, removed, fresh)
<1>1. /\ plan.active = active /\ plan.facts = promoted.facts
      /\ plan.hashes = [f \in active |-> IF f \in dirty THEN tree[f] ELSE rows[f].hash]
      /\ plan.dirty = dirty \union promoted.files
  BY DEF PlanOf
<1>2. promoted.facts = NewFacts(rows, removed, fresh)
  BY DEF Promotion
<1>3. \A f \in active : NewFacts(rows, removed, fresh)[f] = IF f \in dirty THEN fresh[f] ELSE rows[f].facts
  BY DEF NewFacts, Over
<1>4. \A f \in dirty : f \in Files /\ IsOf(f, tree[f], fresh[f])
  BY DEF OnDisk, TypeInv, IsOf, Held
<1> HIDE DEF plan, fresh, promoted
<1>5. active \subseteq Files
  BY <1>4 DEF TypeInv
<1>6. ASSUME NEW f \in active PROVE IsOf(f, plan.hashes[f], plan.facts[f])
  <2>1. plan.hashes[f] = (IF f \in dirty THEN tree[f] ELSE rows[f].hash)
    BY <1>1
  <2>2. plan.facts[f] = (IF f \in dirty THEN fresh[f] ELSE rows[f].facts)
    BY <1>1, <1>2, <1>3
  <2>3. f \notin dirty => IsOf(f, rows[f].hash, rows[f].facts)
    BY DEF TypeInv
  <2> QED BY <1>4, <2>1, <2>2, <2>3
<1>7. \A f \in active \ plan.dirty : f \in DOMAIN rows
  BY <1>1
<1> QED BY <1>1, <1>5, <1>6, <1>7 DEF PlanOfTypes, plan

\* So does a build of it.
LEMMA BuildTypes ==
  ASSUME TypeInv, NEW plan, Build(plan), PlanOfTypes(plan)
  PROVE  /\ DOMAIN rows' \subseteq Files
         /\ \A f \in DOMAIN rows' : IsOf(f, rows'[f].hash, rows'[f].facts)
         /\ DOMAIN read' = DOMAIN rows' /\ DOMAIN view' = DOMAIN rows'
         /\ tree' = tree /\ edits' = edits /\ strayed' \in BOOLEAN
<1>0. strayed' \in BOOLEAN
  BY DEF Build, TypeInv
<1>1. PICK x, nodes, edges :
        /\ rows' = Built(plan, x, nodes, edges).rows /\ read' = Built(plan, x, nodes, edges).read
        /\ view' = Built(plan, x, nodes, edges).view /\ tree' = tree /\ edits' = edits
  BY DEF Build
<1>2. /\ rows' = [f \in plan.active |-> IF f \in plan.dirty THEN Row(f, plan.hashes[f], plan.facts[f], nodes, edges)
                                       ELSE rows[f]]
      /\ DOMAIN read' = plan.active /\ DOMAIN view' = plan.active
  BY <1>1 DEF Built
<1>3. \A f \in plan.active : LET row == Row(f, plan.hashes[f], plan.facts[f], nodes, edges)
                            IN row.hash = plan.hashes[f] /\ row.facts = plan.facts[f]
  BY DEF Row
<1> QED BY <1>0, <1>1, <1>2, <1>3 DEF TypeInv, PlanOfTypes

\* There is no row at first.
LEMMA InitTypes == Init => TypeInv
<1> SUFFICES ASSUME Init PROVE TypeInv
  OBVIOUS
<1>1. DOMAIN rows = {} /\ DOMAIN read = {} /\ DOMAIN view = {}
  BY DEF Init, Empty
<1>2. tree \in Trees /\ strayed = FALSE /\ edits = 0
  BY DEF Init
<1>3. tree \in [Files -> TextIds \union {Absent}]
  BY <1>2, ScanAssumption
<1>4. \A f \in Files : tree[f] \in TextsOf[f] \union {Absent}
  BY <1>2, ScanAssumption
<1>5. edits \in 0 .. MaxEdits
  BY <1>2, ScanAssumption
<1> QED BY <1>1, <1>2, <1>3, <1>4, <1>5 DEF TypeInv

\* Every operation keeps the types.
LEMMA StepTypes == TypeInv /\ [Next]_vars => TypeInv'
<1> SUFFICES ASSUME TypeInv, [Next]_vars PROVE TypeInv'
  OBVIOUS
<1>1. CASE Operates
  <2>1. CASE NothingToDo
    BY <2>1 DEF NothingToDo, TypeInv
  <2>2. ASSUME NEW dirty \in SUBSET OnDisk, NEW removed \in SUBSET DOMAIN rows,
               Build(PlanOf(dirty, removed, dirty \union (DOMAIN rows \ removed)))
        PROVE  TypeInv'
    <3> DEFINE plan == PlanOf(dirty, removed, dirty \union (DOMAIN rows \ removed))
    <3>1. PlanOfTypes(plan)
      BY PlanTypes
    <3> HIDE DEF plan
    <3>2. Build(plan)
      BY <2>2 DEF plan
    <3> QED BY <3>1, <3>2, BuildTypes DEF TypeInv
  <2> QED BY <1>1, <2>1, <2>2 DEF Operates
<1>2. ASSUME NEW f \in Files, NEW t \in TextsOf[f], Edit(f, t)
      PROVE  TypeInv'
  <2>1. t \in TextIds \union {Absent}
    BY ScanAssumption
  <2>2. /\ tree' = [tree EXCEPT ![f] = t] /\ edits < MaxEdits /\ edits' = edits + 1
        /\ UNCHANGED <<rows, read, view, strayed>>
    BY <1>2 DEF Edit
  <2> QED BY <2>1, <2>2, ScanAssumption DEF TypeInv
<1>3. CASE UNCHANGED vars
  BY <1>3 DEF vars, TypeInv
<1> QED BY <1>1, <1>2, <1>3, OperationsBuild DEF Next

\* Rows are of files, with hashes and facts of contents that these have had; the
\* index has facts of all keys, and nodes are named by what the texts name.
THEOREM TypeCorrect == Spec => []TypeOK
<1>1. IInv /\ JoinInv /\ TypeInv => TypeOK
  <2> SUFFICES ASSUME IInv, JoinInv, TypeInv PROVE TypeOK
    OBVIOUS
  <2>1. project \in [FactKey -> Fact]
    <3>1. IsFactsOf(FactsOf(rows)) /\ project = ProjectOf(FactsOf(rows))
      BY DEF JoinInv, Joins, IsFactsOf, FactsOf
    <3>2. /\ IsFiniteSet(Reexports(FactsOf(rows)))
          /\ Reexports(Padded(FactsOf(rows), Files)) = Reexports(FactsOf(rows))
          /\ Padded(FactsOf(rows), Files) \in [Files -> Snapshot]
      BY <3>1, PaddedFacts
    <3>3. Reexports(FactsOf(rows)) \in FactEdges
      BY <3>2, ReexportsTyped
    <3> QED BY <3>1, <3>2, <3>3, ProjectFacts DEF Facts
  <2>2. \A f \in DOMAIN rows : FileNode(f) \in rows[f].nodes
    BY DEF IInv, Consistent, RowFits
  <2>3. \A f \in DOMAIN rows : /\ rows[f].hash \in TextsOf[f] \ {Absent}
                              /\ rows[f].facts \in {Content[t].snap : t \in TextsOf[f] \ {Absent}}
    BY DEF TypeInv, IsOf, Held
  <2>4. DOMAIN graph.nodes \subseteq (Files \union {None}) \X (Types \union Outsiders \union {None})
                                       \X (Labels \union {None})
    BY DEF IInv, Consistent, NodeIds
  <2> QED BY <2>1, <2>2, <2>3, <2>4 DEF TypeOK, TypeInv
<1>2. Spec => []JoinInv
  BY InitJoins, StepJoins, PTL DEF Spec
<1>3. Spec => []TypeInv
  BY InitTypes, StepTypes, PTL DEF Spec
<1> QED BY <1>1, <1>2, <1>3, Invariant, PTL

-----------------------------------------------------------------------------
(* The symbols that are kept. *)

\* The texts that were read.
TextsRead(rd) == Texts({f \in DOMAIN rd : rd[f] # Absent}, rd)

\* A symbol is what its own text makes of it.
LEMMA SymbolOfText ==
  ASSUME NEW texts, NEW others, NEW n, PathOf(n) \in DOMAIN texts \intersect DOMAIN others,
         texts[PathOf(n)] = others[PathOf(n)]
  PROVE  /\ n \in DOMAIN Symbols(texts) <=> n \in DOMAIN Symbols(others)
         /\ n \in DOMAIN Symbols(texts) => Symbols(texts)[n] = Symbols(others)[n]
<1> DEFINE ids(t) == UNION {{Node(f, t[f], d) : d \in t[f].defs} : f \in DOMAIN t}
           first(t, n_1) == CHOOSE d \in DefsOf(t, n_1) : TRUE
<1>1. \A t : /\ DOMAIN Symbols(t) = ids(t)
             /\ \A m \in ids(t) : Symbols(t)[m] = [kind |-> Kind(t[PathOf(m)], first(t, m)), parent |-> NoParent]
  BY DEF Symbols
<1>2. \A t : PathOf(n) \in DOMAIN t =>
        (n \in ids(t) <=> \E d \in t[PathOf(n)].defs : n = Node(PathOf(n), t[PathOf(n)], d))
  BY DEF Node, PathOf
<1>3. DefsOf(texts, n) = DefsOf(others, n)
  BY DEF DefsOf
<1>4. first(texts, n) = first(others, n)
  BY <1>3
<1> HIDE DEF ids, first
<1>5. n \in ids(texts) <=> n \in ids(others)
  BY <1>2
<1>6. n \in ids(texts) => Symbols(texts)[n] = Symbols(others)[n]
  BY <1>1, <1>4, <1>5
<1> QED BY <1>1, <1>5, <1>6

\* It is of a file of the texts, and is not a file itself.
LEMMA SymbolKinds ==
  ASSUME NEW texts, Sourced(texts), NEW n \in DOMAIN Symbols(texts)
  PROVE  PathOf(n) \in DOMAIN texts /\ Symbols(texts)[n].kind # "file"
<1> DEFINE at(f) == {Node(f, texts[f], d) : d \in texts[f].defs}
<1>0. /\ DOMAIN Symbols(texts) = UNION {at(f) : f \in DOMAIN texts}
      /\ \A m \in DOMAIN Symbols(texts) :
           Symbols(texts)[m].kind = Kind(texts[PathOf(m)], CHOOSE d \in DefsOf(texts, m) : TRUE)
  BY DEF Symbols
<1>a. PICK f \in DOMAIN texts : n \in at(f)
  BY <1>0
<1>1. PICK d \in texts[f].defs : n = Node(f, texts[f], d)
  BY <1>a
<1>2. PathOf(n) = f
  BY <1>1 DEF PathOf, Node
<1>3. d \in DefsOf(texts, n)
  BY <1>1, <1>2 DEF DefsOf
<1> DEFINE e == CHOOSE d_1 \in DefsOf(texts, n) : TRUE
<1>4. e \in texts[f].defs
  BY <1>2, <1>3 DEF DefsOf
<1>5. Symbols(texts)[n].kind = Kind(texts[f], e)
  BY <1>0, <1>2
<1>6. e.kind \in TypeKinds \union CallKinds
  BY <1>4 DEF Sourced, Text, Def
<1>7. Kind(texts[f], e) # "file"
  BY <1>6 DEF Kind, TypeKinds, CallKinds
<1> QED BY <1>2, <1>5, <1>7

\* The index of a batch has the symbols of the batch and the context, each of its kind.
LEMMA IndexKinds ==
  ASSUME NEW texts, NEW context, \A n \in DOMAIN context : PathOf(n) \notin DOMAIN texts
  PROVE  LET index == WithParents(Over(Symbols(texts), context), texts)
         IN /\ DOMAIN index = DOMAIN Symbols(texts) \union DOMAIN context
            /\ \A n \in DOMAIN Symbols(texts) : index[n].kind = Symbols(texts)[n].kind
            /\ \A n \in DOMAIN context \ DOMAIN Symbols(texts) : index[n] = context[n]
<1> DEFINE index == WithParents(Over(Symbols(texts), context), texts)
<1> DEFINE nodes == Over(Symbols(texts), context)
           parents(n) == UNION {ParentNode(nodes, texts, PathOf(n), d) : d \in DefsOf(texts, n)}
           held   == {n \in DOMAIN nodes : PathOf(n) \in DOMAIN texts /\ parents(n) # {}}
           raised == [n \in held |-> [nodes[n] EXCEPT !.parent = CHOOSE p \in parents(n) : TRUE]]
<1>1. index = Over(raised, nodes)
  BY DEF WithParents
<1>2. /\ DOMAIN nodes = DOMAIN Symbols(texts) \union DOMAIN context
      /\ \A n \in DOMAIN Symbols(texts) : nodes[n] = Symbols(texts)[n]
      /\ \A n \in DOMAIN context : n \notin DOMAIN Symbols(texts) => nodes[n] = context[n]
  BY DEF Over
<1>3. \A n \in DOMAIN Symbols(texts) : /\ PathOf(n) \in DOMAIN texts
                                      /\ \E k : Symbols(texts)[n] = [kind |-> k, parent |-> NoParent]
  BY SymbolsFacts
<1>4. /\ held \subseteq DOMAIN nodes /\ DOMAIN raised = held
      /\ \A n \in held : PathOf(n) \in DOMAIN texts
      /\ \A n \in held : \E p : raised[n] = [nodes[n] EXCEPT !.parent = p]
  OBVIOUS
<1> HIDE DEF nodes, held, raised, index
<1>5. /\ DOMAIN index = DOMAIN nodes
      /\ \A n \in DOMAIN nodes : index[n] = IF n \in held THEN raised[n] ELSE nodes[n]
  BY <1>1, <1>4 DEF Over
<1>6. \A n \in DOMAIN Symbols(texts) : index[n].kind = Symbols(texts)[n].kind
  <2> TAKE n \in DOMAIN Symbols(texts)
  <2>1. PICK k : nodes[n] = [kind |-> k, parent |-> NoParent] /\ Symbols(texts)[n] = nodes[n]
    BY <1>2, <1>3
  <2>2. n \in held => \E p : index[n] = [nodes[n] EXCEPT !.parent = p]
    BY <1>2, <1>4, <1>5
  <2>3. \A p : [nodes[n] EXCEPT !.parent = p].kind = k
    BY <2>1
  <2> QED BY <1>2, <1>5, <2>1, <2>2, <2>3
<1> QED BY <1>2, <1>3, <1>4, <1>5, <1>6 DEF index

\* What an extraction was resolved against, and the nodes that it makes.
PartsOf(x, texts, context) ==
  /\ x.index = WithParents(Over(Symbols(texts), context), texts)
  /\ DOMAIN x.nodes = {n \in DOMAIN x.index : PathOf(n) \in DOMAIN texts}
                         \union {e[3] : e \in {e \in x.edges : PathOf(e[3]) = None}}
  /\ \A n \in DOMAIN x.index : PathOf(n) \in DOMAIN texts => x.nodes[n] = x.index[n]

\* Every extraction is so made.
LEMMA ExtractParts ==
  ASSUME NEW texts, NEW context, NEW typeContext, NEW typeParents, NEW active
  PROVE  PartsOf(Extract(texts, context, typeContext, typeParents, active), texts, context)
<1> DEFINE x == Extract(texts, context, typeContext, typeParents, active)
<1> DEFINE index == WithParents(Over(Symbols(texts), context), texts)
<1>1. PICK imports, passed, facts, parents :
        x = Linked(texts, active, index, imports, passed, facts, parents)
  BY DEF Extract, Resolved
<1>2. PICK edges, reexports : x = GraphOf(index, edges, DOMAIN texts, parents, reexports)
  BY <1>1 DEF Linked
<1> HIDE DEF index, x
<1> DEFINE new     == {n \in DOMAIN index : PathOf(n) \in DOMAIN texts}
           outside == {e[3] : e \in {e \in edges : PathOf(e[3]) = None}}
<1>3. /\ x.index = index /\ x.edges = edges
      /\ x.nodes = [n \in new \union outside |-> IF n \in new THEN index[n] ELSE [kind |-> "external", parent |-> NoParent]]
  BY <1>2 DEF GraphOf
<1>4. /\ DOMAIN x.nodes = new \union outside
      /\ \A n \in new : x.nodes[n] = index[n]
  BY <1>3
<1> QED BY <1>3, <1>4 DEF PartsOf, index, x

\* The symbols in the graph are those of the texts that were read, each of the kind
\* that its text gives it and in the row of its file.
SymbolsKept(rws, g, rd) ==
  /\ DOMAIN rd = DOMAIN rws /\ \A f \in DOMAIN rd : rd[f] \in TextIds \union {Absent}
  /\ {n \in DOMAIN g.nodes : PathOf(n) # None /\ g.nodes[n].kind # "file"} = DOMAIN Symbols(TextsRead(rd))
  /\ \A n \in DOMAIN Symbols(TextsRead(rd)) : /\ g.nodes[n].kind = Symbols(TextsRead(rd))[n].kind
                                             /\ n \in rws[PathOf(n)].nodes

\* What has been read when a plan is followed.
ReadBy(plan) == [f \in plan.active |-> IF f \in plan.dirty THEN tree[f] ELSE read[f]]

\* The texts that were read are texts.
LEMMA ReadTexts ==
  ASSUME NEW rd, DOMAIN rd \subseteq Files, \A f \in DOMAIN rd : rd[f] \in TextIds \union {Absent}
  PROVE  /\ Sourced(TextsRead(rd))
         /\ DOMAIN TextsRead(rd) = {f \in DOMAIN rd : rd[f] # Absent}
         /\ \A f \in DOMAIN TextsRead(rd) : TextsRead(rd)[f] = Content[rd[f]]
<1>1. /\ DOMAIN TextsRead(rd) = {f \in DOMAIN rd : rd[f] # Absent}
      /\ \A f \in DOMAIN TextsRead(rd) : TextsRead(rd)[f] = Content[rd[f]]
  BY DEF TextsRead, Texts
<1>2. \A f \in DOMAIN TextsRead(rd) : rd[f] \in TextIds /\ f \in Files
  BY <1>1
<1> QED BY <1>1, <1>2, UseAssumption, TypeNameAssumption, ScanAssumption DEF Sourced

\* A build binds against the symbols of all the texts that have been read by then,
\* those that it reads and those that the rows of the other files restore.
IndexIsRead(plan, restored, x) ==
  LET all == Symbols(TextsRead(ReadBy(plan)))
  IN /\ {n \in DOMAIN x.index : PathOf(n) # None} = DOMAIN all
     /\ \A n \in DOMAIN all : x.index[n].kind = all[n].kind
     /\ \A n \in DOMAIN x.index : PathOf(n) \notin Readable(plan.dirty) =>
          n \in restored /\ x.index[n] = graph.nodes[n] /\ graph.nodes[n].kind # "file"
     /\ \A n \in restored : graph.nodes[n].kind # "file" => n \in DOMAIN x.index

\* The symbols of the files that are not extracted are restored, those of the others read.
LEMMA IndexIsOfReadTexts ==
  ASSUME IInv, SymbolsKept(rows, graph, read), NEW plan, PlanFits(plan), NEW restored, NEW x,
         restored = Restored(graph, rows, plan.active \ plan.dirty, plan.dirty, plan.active),
         x = ExtractDirty(plan.dirty, restored, plan.active, plan.facts, plan.project)
  PROVE  IndexIsRead(plan, restored, x)
<1> DEFINE dirty   == plan.dirty
           active  == plan.active
           rd      == ReadBy(plan)
           texts   == Texts(Readable(dirty), tree)
           context == [n \in {n \in restored : graph.nodes[n].kind # "file"} |-> graph.nodes[n]]
           old     == TextsRead(read)
           all     == Symbols(TextsRead(ReadBy(plan)))
           new     == TextsRead(rd)
<1>0. /\ tree \in [Files -> TextIds \union {Absent}] /\ active \subseteq Files /\ dirty \subseteq active
      /\ active \ dirty \subseteq DOMAIN rows /\ DOMAIN rows \subseteq Files /\ DOMAIN read = DOMAIN rows
      /\ \A f \in DOMAIN read : read[f] \in TextIds \union {Absent}
  BY DEF IInv, Consistent, PlanFits, SymbolsKept
<1>1. /\ DOMAIN rd = active /\ \A f \in active : rd[f] = IF f \in dirty THEN tree[f] ELSE read[f]
      /\ \A f \in active : rd[f] \in TextIds \union {Absent}
  BY <1>0 DEF ReadBy
<1>2. /\ Sourced(new) /\ DOMAIN new = {f \in active : rd[f] # Absent}
      /\ \A f \in DOMAIN new : new[f] = Content[rd[f]]
  BY <1>0, <1>1, ReadTexts
<1>3. /\ Sourced(old) /\ DOMAIN old = {f \in DOMAIN read : read[f] # Absent}
      /\ \A f \in DOMAIN old : old[f] = Content[read[f]]
  BY <1>0, ReadTexts
<1>4. /\ DOMAIN texts = {f \in dirty : tree[f] # Absent}
      /\ \A f \in DOMAIN texts : texts[f] = Content[tree[f]]
  BY DEF Texts, Readable
<1>5. /\ \A n \in restored : PathOf(n) \notin dirty /\ PathOf(n) \in active \union {None}
      /\ \A n \in restored : n \in DOMAIN graph.nodes
      /\ \A f \in active \ dirty : \A n \in rows[f].nodes :
           n \in DOMAIN graph.nodes /\ PathOf(n) = f => n \in restored
  BY <1>0 DEF Restored
<1>6. x.index = WithParents(Over(Symbols(texts), context), texts)
  BY ExtractParts DEF ExtractDirty, PartsOf
<1>7. /\ DOMAIN context = {n \in restored : graph.nodes[n].kind # "file"}
      /\ \A n \in DOMAIN context : context[n] = graph.nodes[n]
  OBVIOUS
<1>a. all = Symbols(new)
  OBVIOUS
<1> HIDE DEF rd, texts, context, old, new, all
<1>8. /\ DOMAIN x.index = DOMAIN Symbols(texts) \union DOMAIN context
      /\ \A n \in DOMAIN Symbols(texts) : x.index[n].kind = Symbols(texts)[n].kind
      /\ \A n \in DOMAIN context : x.index[n] = context[n]
  <2>1. \A n \in DOMAIN context : PathOf(n) \notin DOMAIN texts
    BY <1>4, <1>5, <1>7
  <2> DEFINE index == WithParents(Over(Symbols(texts), context), texts)
  <2>2. DOMAIN index = DOMAIN Symbols(texts) \union DOMAIN context
    BY <2>1, IndexKinds
  <2>3. \A n \in DOMAIN Symbols(texts) : index[n].kind = Symbols(texts)[n].kind
    BY <2>1, IndexKinds
  <2>4. \A n \in DOMAIN context \ DOMAIN Symbols(texts) : index[n] = context[n]
    BY <2>1, IndexKinds
  <2>5. \A n \in DOMAIN Symbols(texts) : n \notin DOMAIN context
    BY <2>1, SymbolsFacts
  <2> HIDE DEF index
  <2> QED BY <1>6, <2>2, <2>3, <2>4, <2>5 DEF index
<1>9. \A n : n \in DOMAIN Symbols(texts) => /\ PathOf(n) \in DOMAIN texts
                                           /\ n \in DOMAIN all /\ all[n] = Symbols(texts)[n]
  <2> SUFFICES ASSUME NEW n \in DOMAIN Symbols(texts)
               PROVE  PathOf(n) \in DOMAIN texts /\ n \in DOMAIN all /\ all[n] = Symbols(texts)[n]
    OBVIOUS
  <2>1. PathOf(n) \in DOMAIN texts
    BY SymbolsFacts
  <2>2. PathOf(n) \in DOMAIN new /\ new[PathOf(n)] = texts[PathOf(n)]
    BY <1>0, <1>1, <1>2, <1>4, <2>1
  <2> QED BY <1>a, <2>1, <2>2, SymbolOfText
<1>10. \A n : PathOf(n) \in active \ dirty =>
         /\ n \in DOMAIN Symbols(old) <=> n \in DOMAIN all
         /\ n \in DOMAIN all => all[n] = Symbols(old)[n]
  <2> SUFFICES ASSUME NEW n, PathOf(n) \in active \ dirty
               PROVE  /\ n \in DOMAIN Symbols(old) <=> n \in DOMAIN all
                      /\ n \in DOMAIN all => all[n] = Symbols(old)[n]
    OBVIOUS
  <2>1. PathOf(n) \in DOMAIN new <=> PathOf(n) \in DOMAIN old
    BY <1>0, <1>1, <1>2, <1>3
  <2>2. PathOf(n) \in DOMAIN new => new[PathOf(n)] = old[PathOf(n)]
    BY <1>0, <1>1, <1>2, <1>3
  <2>3. all = Symbols(new)
    BY <1>a
  <2>4. /\ n \in DOMAIN Symbols(old) => PathOf(n) \in DOMAIN old
        /\ n \in DOMAIN Symbols(new) => PathOf(n) \in DOMAIN new
    BY SymbolsFacts
  <2> QED BY <2>1, <2>2, <2>3, <2>4, SymbolOfText
<1>11. /\ {n \in DOMAIN graph.nodes : PathOf(n) # None /\ graph.nodes[n].kind # "file"} = DOMAIN Symbols(old)
       /\ \A n \in DOMAIN Symbols(old) : graph.nodes[n].kind = Symbols(old)[n].kind /\ n \in rows[PathOf(n)].nodes
  BY DEF SymbolsKept, old
<1>12. \A n \in DOMAIN context : PathOf(n) # None =>
         n \in DOMAIN all /\ graph.nodes[n].kind = all[n].kind
  BY <1>5, <1>7, <1>10, <1>11
<1>13. \A n \in DOMAIN all : n \in DOMAIN x.index /\ PathOf(n) # None /\ x.index[n].kind = all[n].kind
  <2> TAKE n \in DOMAIN all
  <2>1. PathOf(n) \in DOMAIN new
    BY <1>a, SymbolsFacts
  <2>2. PathOf(n) # None
    BY <1>0, <1>2, <2>1, ScanAssumption
  <2>3. CASE PathOf(n) \in dirty
    <3>1. PathOf(n) \in DOMAIN texts /\ new[PathOf(n)] = texts[PathOf(n)]
      BY <1>1, <1>2, <1>4, <2>1, <2>3
    <3>2. n \in DOMAIN Symbols(texts)
      BY <1>a, <2>1, <3>1, SymbolOfText
    <3> QED BY <1>8, <1>9, <2>2, <3>2
  <2>4. CASE PathOf(n) \notin dirty
    <3>1. n \in DOMAIN Symbols(old) /\ PathOf(n) \in active \ dirty
      BY <1>2, <1>10, <2>1, <2>4
    <3>2. n \in DOMAIN graph.nodes /\ graph.nodes[n].kind # "file" /\ n \in rows[PathOf(n)].nodes
      BY <1>11, <3>1
    <3>3. n \in DOMAIN context
      BY <1>5, <1>7, <3>1, <3>2
    <3> QED BY <1>7, <1>8, <1>12, <2>2, <3>3
  <2> QED BY <2>3, <2>4
<1>14. \A n \in DOMAIN x.index : PathOf(n) # None => n \in DOMAIN all
  BY <1>8, <1>9, <1>12
<1>15. \A n \in DOMAIN x.index : PathOf(n) \notin Readable(plan.dirty) =>
         n \in restored /\ x.index[n] = graph.nodes[n] /\ graph.nodes[n].kind # "file"
  <2>1. \A n \in DOMAIN Symbols(texts) : PathOf(n) \in Readable(plan.dirty)
    BY <1>4, <1>9 DEF Readable
  <2> QED BY <1>7, <1>8, <2>1
<1> QED BY <1>7, <1>8, <1>13, <1>14, <1>15 DEF IndexIsRead, all

\* What a build makes, part by part.
IsBuild(plan, restored, x, nodes, edges) ==
  /\ restored = Restored(graph, rows, plan.active \ plan.dirty, plan.dirty, plan.active)
  /\ x = ExtractDirty(plan.dirty, restored, plan.active, plan.facts, plan.project)
  /\ nodes = Over(x.nodes, Over(FileNodes(plan.dirty), [n \in restored |-> graph.nodes[n]]))
  /\ edges = x.edges \union RestoredEdges(rows, plan.active \ plan.dirty, nodes)
  /\ graph' = [nodes |-> nodes, edges |-> edges]
  /\ rows' = [f \in plan.active |-> IF f \in plan.dirty THEN Row(f, plan.hashes[f], plan.facts[f], nodes, edges)
                                    ELSE rows[f]]
  /\ read' = ReadBy(plan)
  /\ view' = [f \in plan.active |-> IF f \in Readable(plan.dirty) THEN ViewOf(x, tree[f], plan.active)
                                    ELSE IF f \in plan.dirty THEN NoView ELSE view[f]]

\* Every build has such parts.
LEMMA BuildParts ==
  ASSUME NEW plan, Build(plan)
  PROVE  \E restored, x, nodes, edges : IsBuild(plan, restored, x, nodes, edges)
<1> DEFINE skipped  == plan.active \ plan.dirty
           restored == Restored(graph, rows, skipped, plan.dirty, plan.active)
           x        == ExtractDirty(plan.dirty, restored, plan.active, plan.facts, plan.project)
           nodes    == Over(x.nodes, Over(FileNodes(plan.dirty), [n \in restored |-> graph.nodes[n]]))
           edges    == x.edges \union RestoredEdges(rows, skipped, nodes)
<1>1. /\ graph' = Built(plan, x, nodes, edges).graph /\ rows' = Built(plan, x, nodes, edges).rows
      /\ read' = Built(plan, x, nodes, edges).read /\ view' = Built(plan, x, nodes, edges).view
  BY DEF Build
<1>2. /\ restored = Restored(graph, rows, plan.active \ plan.dirty, plan.dirty, plan.active)
      /\ x = ExtractDirty(plan.dirty, restored, plan.active, plan.facts, plan.project)
      /\ nodes = Over(x.nodes, Over(FileNodes(plan.dirty), [n \in restored |-> graph.nodes[n]]))
      /\ edges = x.edges \union RestoredEdges(rows, plan.active \ plan.dirty, nodes)
  OBVIOUS
<1> HIDE DEF skipped, restored, x, nodes, edges
<1>3. /\ graph' = [nodes |-> nodes, edges |-> edges] /\ read' = ReadBy(plan)
      /\ rows' = [f \in plan.active |-> IF f \in plan.dirty THEN Row(f, plan.hashes[f], plan.facts[f], nodes, edges)
                                        ELSE rows[f]]
      /\ view' = [f \in plan.active |-> IF f \in Readable(plan.dirty) THEN ViewOf(x, tree[f], plan.active)
                                        ELSE IF f \in plan.dirty THEN NoView ELSE view[f]]
  BY <1>1 DEF Built, ReadBy
<1>4. IsBuild(plan, restored, x, nodes, edges)
  BY <1>2, <1>3 DEF IsBuild
<1> QED BY <1>4

\* A build keeps the symbols, of all texts that have been read by then.
LEMMA BuildKeepsSymbols ==
  ASSUME IInv, SymbolsKept(rows, graph, read), NEW plan, PlanFits(plan), Build(plan)
  PROVE  SymbolsKept(rows', graph', read') /\ read' = ReadBy(plan)
<1> DEFINE active == plan.active
           dirty  == plan.dirty
           all    == Symbols(TextsRead(ReadBy(plan)))
<1>0. PICK restored, x, nodes, edges : IsBuild(plan, restored, x, nodes, edges)
  BY BuildParts
<1> DEFINE kept == [n \in restored |-> graph.nodes[n]]
<1>1. /\ graph' = [nodes |-> nodes, edges |-> edges] /\ read' = ReadBy(plan)
      /\ rows' = [f \in active |-> IF f \in dirty THEN Row(f, plan.hashes[f], plan.facts[f], nodes, edges) ELSE rows[f]]
      /\ restored = Restored(graph, rows, active \ dirty, dirty, active)
      /\ x = ExtractDirty(dirty, restored, active, plan.facts, plan.project)
      /\ nodes = Over(x.nodes, Over(FileNodes(dirty), kept))
  BY <1>0 DEF IsBuild
<1>2. /\ {n \in DOMAIN x.index : PathOf(n) # None} = DOMAIN all
      /\ \A n \in DOMAIN all : x.index[n].kind = all[n].kind
      /\ \A n \in DOMAIN x.index : PathOf(n) \notin Readable(dirty) =>
           n \in restored /\ x.index[n] = graph.nodes[n] /\ graph.nodes[n].kind # "file"
      /\ \A n \in restored : graph.nodes[n].kind # "file" => n \in DOMAIN x.index
  <2>1. IndexIsRead(plan, restored, x)
    BY <1>1, IndexIsOfReadTexts
  <2> QED BY <2>1 DEF IndexIsRead
<1>3. /\ tree \in [Files -> TextIds \union {Absent}] /\ active \subseteq Files /\ dirty \subseteq active
      /\ active \ dirty \subseteq DOMAIN rows /\ DOMAIN rows \subseteq Files /\ DOMAIN read = DOMAIN rows
      /\ \A f \in DOMAIN read : read[f] \in TextIds \union {Absent}
  BY DEF IInv, Consistent, PlanFits, SymbolsKept
<1>4. /\ DOMAIN ReadBy(plan) = active /\ \A f \in active : ReadBy(plan)[f] \in TextIds \union {Absent}
      /\ \A f \in active : ReadBy(plan)[f] = IF f \in dirty THEN tree[f] ELSE read[f]
  BY <1>3 DEF ReadBy
<1>5. \A n \in DOMAIN all : all[n].kind # "file" /\ PathOf(n) \in active /\ (PathOf(n) \in dirty => PathOf(n) \in Readable(dirty))
  <2>1. /\ Sourced(TextsRead(ReadBy(plan)))
        /\ DOMAIN TextsRead(ReadBy(plan)) = {f \in active : ReadBy(plan)[f] # Absent}
    BY <1>3, <1>4, ReadTexts
  <2> QED BY <1>4, <2>1, SymbolKinds DEF Readable
<1>6. /\ \A n \in DOMAIN x.nodes : PathOf(n) # None => n \in DOMAIN x.index
      /\ \A n \in DOMAIN x.nodes : PathOf(n) \in Readable(dirty) \union {None}
      /\ \A n \in DOMAIN x.index : PathOf(n) \in Readable(dirty) => n \in DOMAIN x.nodes /\ x.nodes[n] = x.index[n]
  <2> DEFINE texts   == Texts(Readable(dirty), tree)
             context == [n \in {n \in restored : graph.nodes[n].kind # "file"} |-> graph.nodes[n]]
  <2>1. DOMAIN texts = Readable(dirty)
    BY DEF Texts
  <2>2. /\ DOMAIN x.nodes = {n \in DOMAIN x.index : PathOf(n) \in DOMAIN texts}
                               \union {e[3] : e \in {e \in x.edges : PathOf(e[3]) = None}}
        /\ \A n \in DOMAIN x.index : PathOf(n) \in DOMAIN texts => x.nodes[n] = x.index[n]
    <3>1. PartsOf(x, texts, context)
      BY <1>1, ExtractParts DEF ExtractDirty
    <3> HIDE DEF texts, context
    <3> QED BY <3>1 DEF PartsOf
  <2> HIDE DEF texts
  <2> QED BY <2>1, <2>2
<1>7. /\ DOMAIN FileNodes(dirty) = {FileNode(f) : f \in dirty} /\ DOMAIN kept = restored
      /\ \A n \in DOMAIN FileNodes(dirty) : FileNodes(dirty)[n].kind = "file" /\ PathOf(n) \in dirty
      /\ \A n \in restored : kept[n] = graph.nodes[n] /\ PathOf(n) \notin dirty
  BY <1>1 DEF FileNodes, FileNode, PathOf, Restored
<1> HIDE DEF kept, all
<1>8. /\ DOMAIN nodes = DOMAIN x.nodes \union DOMAIN FileNodes(dirty) \union restored
      /\ \A n \in DOMAIN nodes : nodes[n] = IF n \in DOMAIN x.nodes THEN x.nodes[n]
                                           ELSE IF n \in DOMAIN FileNodes(dirty) THEN FileNodes(dirty)[n]
                                           ELSE graph.nodes[n]
  BY <1>1, <1>7 DEF Over
<1>9. Readable(dirty) \subseteq dirty /\ None \notin Readable(dirty)
  BY <1>3, ScanAssumption DEF Readable
<1>10. ASSUME NEW n \in DOMAIN nodes, PathOf(n) # None, nodes[n].kind # "file"
       PROVE  n \in DOMAIN all
  <2>1. CASE n \in DOMAIN x.nodes
    BY <1>2, <1>6, <1>10, <2>1
  <2>2. CASE n \notin DOMAIN x.nodes
    <3>1. n \notin DOMAIN FileNodes(dirty)
      BY <1>7, <1>8, <1>10, <2>2
    <3>2. n \in restored /\ graph.nodes[n].kind # "file"
      BY <1>8, <1>10, <2>2, <3>1
    <3> QED BY <1>2, <1>10, <3>2
  <2> QED BY <2>1, <2>2
<1>11. ASSUME NEW n \in DOMAIN all
       PROVE  /\ n \in DOMAIN nodes /\ PathOf(n) # None /\ nodes[n].kind # "file"
              /\ nodes[n].kind = all[n].kind /\ n \in rows'[PathOf(n)].nodes
  <2>1. n \in DOMAIN x.index /\ PathOf(n) # None
    BY <1>2
  <2>2. CASE PathOf(n) \in Readable(dirty)
    <3>1. n \in DOMAIN nodes /\ nodes[n] = x.index[n]
      BY <1>6, <1>8, <2>1, <2>2
    <3>2. rows'[PathOf(n)] = Row(PathOf(n), plan.hashes[PathOf(n)], plan.facts[PathOf(n)], nodes, edges)
      BY <1>1, <1>3, <1>9, <2>2
    <3>3. n \in rows'[PathOf(n)].nodes
      BY <3>1, <3>2 DEF Row
    <3> QED BY <1>2, <1>5, <2>1, <3>1, <3>3
  <2>3. CASE PathOf(n) \notin Readable(dirty)
    <3>1. n \in restored /\ x.index[n] = graph.nodes[n] /\ graph.nodes[n].kind # "file" /\ PathOf(n) \in active \ dirty
      BY <1>2, <1>5, <2>1, <2>3
    <3>2. n \notin DOMAIN x.nodes /\ n \notin DOMAIN FileNodes(dirty)
      BY <1>6, <1>7, <2>1, <2>3, <3>1
    <3>3. n \in DOMAIN nodes /\ nodes[n] = graph.nodes[n]
      BY <1>8, <3>1, <3>2
    <3>4. n \in DOMAIN graph.nodes
      BY <1>1, <3>1 DEF Restored
    <3>5. n \in rows[PathOf(n)].nodes
      BY <2>1, <3>1, <3>4 DEF SymbolsKept
    <3>6. rows'[PathOf(n)] = rows[PathOf(n)]
      BY <1>1, <3>1
    <3> QED BY <1>2, <2>1, <3>1, <3>3, <3>5, <3>6
  <2> QED BY <2>2, <2>3
<1>12. graph'.nodes = nodes /\ DOMAIN rows' = active
  BY <1>1
<1> QED BY <1>1, <1>4, <1>10, <1>11, <1>12 DEF SymbolsKept, all

\* There is no symbol at first.
LEMMA InitSymbols == Init => SymbolsKept(rows, graph, read)
<1> SUFFICES ASSUME Init PROVE SymbolsKept(rows, graph, read)
  OBVIOUS
<1>1. DOMAIN rows = {} /\ DOMAIN read = {} /\ DOMAIN graph.nodes = {}
  BY DEF Init, Empty
<1>2. DOMAIN TextsRead(read) = {}
  BY <1>1 DEF TextsRead, Texts
<1>3. DOMAIN Symbols(TextsRead(read)) = {}
  BY <1>2, SymbolsFacts
<1> QED BY <1>1, <1>3 DEF SymbolsKept

\* Operations build plans that fit.
LEMMA OperationsFit ==
  ASSUME DOMAIN rows \subseteq Files, NEW dirty \in SUBSET OnDisk, NEW removed \in SUBSET DOMAIN rows
  PROVE  PlanFits(PlanOf(dirty, removed, dirty \union (DOMAIN rows \ removed)))
<1>1. OnDisk \subseteq Files
  BY DEF OnDisk
<1> QED BY <1>1, PlanOfFits

\* Every operation keeps the symbols.
LEMMA StepSymbols == IInv /\ SymbolsKept(rows, graph, read) /\ [Next]_vars => SymbolsKept(rows, graph, read)'
<1> SUFFICES ASSUME IInv, SymbolsKept(rows, graph, read), [Next]_vars
             PROVE  SymbolsKept(rows', graph', read')
  BY DEF SymbolsKept
<1>1. CASE Operates
  <2>1. CASE NothingToDo
    BY <2>1 DEF NothingToDo
  <2>2. ASSUME NEW dirty \in SUBSET OnDisk, NEW removed \in SUBSET DOMAIN rows,
               Build(PlanOf(dirty, removed, dirty \union (DOMAIN rows \ removed)))
        PROVE  SymbolsKept(rows', graph', read')
    <3> DEFINE plan == PlanOf(dirty, removed, dirty \union (DOMAIN rows \ removed))
    <3>1. PlanFits(plan)
      BY OperationsFit DEF IInv, Consistent
    <3> HIDE DEF plan
    <3>2. Build(plan)
      BY <2>2 DEF plan
    <3> QED BY <3>1, <3>2, BuildKeepsSymbols
  <2> QED BY <1>1, <2>1, <2>2 DEF Operates
<1>2. ASSUME NEW f \in Files, NEW t \in TextsOf[f], Edit(f, t)
      PROVE  SymbolsKept(rows', graph', read')
  BY <1>2 DEF Edit
<1>3. CASE UNCHANGED vars
  BY <1>3 DEF vars
<1> QED BY <1>1, <1>2, <1>3, OperationsBuild DEF Next

\* A build from nothing has the symbols of the texts.
LEMMA CleanSymbols ==
  ASSUME NEW rd
  PROVE  /\ DOMAIN Clean(rd).index = DOMAIN Symbols(TextsRead(rd))
         /\ \A n \in DOMAIN Symbols(TextsRead(rd)) : Clean(rd).index[n].kind = Symbols(TextsRead(rd))[n].kind
<1> DEFINE texts == TextsRead(rd)
           snaps == [f \in {f \in DOMAIN rd : rd[f] # Absent} |-> texts[f].snap]
<1>1. Clean(rd) = Extract(texts, Empty, ProjectOf(snaps), Parents(snaps), DOMAIN rd)
  BY DEF Clean, TextsRead
<1>2. PartsOf(Clean(rd), texts, Empty)
  BY <1>1, ExtractParts
<1> HIDE DEF texts
<1>3. Clean(rd).index = WithParents(Over(Symbols(texts), Empty), texts)
  BY <1>2 DEF PartsOf
<1>4. DOMAIN Empty = {}
  BY DEF Empty
<1> DEFINE index == WithParents(Over(Symbols(texts), Empty), texts)
<1>5. /\ DOMAIN index = DOMAIN Symbols(texts) \union DOMAIN Empty
      /\ \A n \in DOMAIN Symbols(texts) : index[n].kind = Symbols(texts)[n].kind
  <2>1. \A n \in DOMAIN Empty : PathOf(n) \notin DOMAIN texts
    BY <1>4
  <2> QED BY <2>1, IndexKinds
<1> HIDE DEF index
<1> QED BY <1>3, <1>4, <1>5 DEF index, texts

\* The files that an operation leaves with an edge into a removed one are extracted.
ReferrersDirty(dirty, removed) ==
  \A f \in (DOMAIN rows \ removed) \intersect OnDisk :
    (\E e \in graph.edges : PathOf(e[1]) = f /\ PathOf(e[3]) \in removed) => f \in dirty

\* Scans and updates extract them, if they do anything.
LEMMA UpdatesBuildReferrers ==
  ASSUME Scan \/ \E r \in Requests : Update(r[1], r[2])
  PROVE  \/ NothingToDo
         \/ \E dirty \in SUBSET OnDisk : \E removed \in SUBSET DOMAIN rows :
              /\ Build(PlanOf(dirty, removed, dirty \union (DOMAIN rows \ removed)))
              /\ ReferrersDirty(dirty, removed) /\ dirty \intersect removed = {}
<1>1. CASE Scan
  <2> DEFINE removed == DOMAIN rows \ OnDisk
             dirty   == Changed(OnDisk) \union (Referrers(graph, removed) \intersect OnDisk)
  <2>1. Build(ScanPlan) \/ NothingToDo
    BY <1>1 DEF Scan, Follow
  <2>2. OnDisk = dirty \union (DOMAIN rows \ removed)
    BY DEF Changed
  <2>3. ReferrersDirty(dirty, removed)
    BY DEF ReferrersDirty, Referrers
  <2>4. dirty \in SUBSET OnDisk /\ removed \in SUBSET DOMAIN rows /\ dirty \intersect removed = {}
    BY DEF Changed
  <2>5. ScanPlan = PlanOf(dirty, removed, dirty \union (DOMAIN rows \ removed))
    BY <2>2 DEF ScanPlan
  <2> HIDE DEF removed, dirty
  <2> QED BY <2>1, <2>3, <2>4, <2>5
<1>2. ASSUME NEW r \in Requests, Update(r[1], r[2])
      PROVE  \/ NothingToDo
             \/ \E dirty \in SUBSET OnDisk : \E removed \in SUBSET DOMAIN rows :
                  /\ Build(PlanOf(dirty, removed, dirty \union (DOMAIN rows \ removed)))
                  /\ ReferrersDirty(dirty, removed) /\ dirty \intersect removed = {}
  <2> DEFINE existing == (r[1] \ r[2]) \intersect OnDisk
             removed  == (r[2] \union (r[1] \ existing)) \intersect DOMAIN rows
             dirty    == Changed(existing) \union ((Referrers(graph, removed) \intersect OnDisk) \ removed)
  <2>1. Build(UpdatePlan(r[1], r[2])) \/ NothingToDo
    BY <1>2 DEF Update, Follow
  <2>2. dirty \in SUBSET OnDisk /\ removed \in SUBSET DOMAIN rows /\ dirty \intersect removed = {}
    BY DEF Changed
  <2>3. (DOMAIN rows \union dirty) \ removed = dirty \union (DOMAIN rows \ removed)
    BY <2>2
  <2>4. ReferrersDirty(dirty, removed)
    BY DEF ReferrersDirty, Referrers
  <2>5. UpdatePlan(r[1], r[2]) = PlanOf(dirty, removed, dirty \union (DOMAIN rows \ removed))
    BY <2>3 DEF UpdatePlan
  <2> HIDE DEF removed, dirty
  <2> QED BY <2>1, <2>2, <2>4, <2>5
<1> QED BY <1>1, <1>2

\* Two indexes with the same symbols of files, of the same kinds, show a text the same.
LEMMA SeenAlike ==
  ASSUME NEW x, NEW y, NEW t, NEW active, NEW others,
         {n \in DOMAIN x.index : PathOf(n) # None} = DOMAIN y.index,
         \A n \in DOMAIN y.index : x.index[n].kind = y.index[n].kind
  PROVE  Seen({d \in ViewOf(x, t, active).defs : PathOf(d[1]) # None}) = Seen(ViewOf(y, t, others).defs)
<1> DEFINE used(z) == {n \in DOMAIN z.index : LabelOf(n) \in UsedNames(Content[t])}
           defs(z) == {<<n, z.index[n].kind, MethodOwner(z.index, n)>> : n \in used(z)}
<1>1. ViewOf(x, t, active).defs = defs(x) /\ ViewOf(y, t, others).defs = defs(y)
  BY DEF ViewOf
<1>2. ASSUME NEW z, NEW ns
      PROVE  Seen({<<n, z.index[n].kind, MethodOwner(z.index, n)>> : n \in ns}) = {<<n, z.index[n].kind>> : n \in ns}
  <2> DEFINE kind(n) == z.index[n].kind
             own(n)  == MethodOwner(z.index, n)
             all     == {<<n, kind(n), own(n)>> : n \in ns}
  <2>1. Seen(all) = {<<d[1], d[2]>> : d \in all}
    BY DEF Seen
  <2> HIDE DEF kind, own
  <2>2. \A d \in all : \E n \in ns : <<d[1], d[2]>> = <<n, kind(n)>>
    OBVIOUS
  <2>3. \A n \in ns : \E d \in all : <<d[1], d[2]>> = <<n, kind(n)>>
    <3> TAKE n \in ns
    <3>1. <<n, kind(n), own(n)>> \in all
      OBVIOUS
    <3> QED BY <3>1
  <2> HIDE DEF all
  <2>4. {<<d[1], d[2]>> : d \in all} = {<<n, kind(n)>> : n \in ns}
    BY <2>2, <2>3
  <2> QED BY <2>1, <2>4 DEF all, kind, own
<1>3. {d \in defs(x) : PathOf(d[1]) # None}
        = {<<n, x.index[n].kind, MethodOwner(x.index, n)>> : n \in {n \in used(x) : PathOf(n) # None}}
  <2> DEFINE kind(n) == x.index[n].kind
             own(n)  == MethodOwner(x.index, n)
  <2>1. defs(x) = {<<n, kind(n), own(n)>> : n \in used(x)}
    OBVIOUS
  <2> HIDE DEF kind, own, used
  <2>2. {d \in {<<n, kind(n), own(n)>> : n \in used(x)} : PathOf(d[1]) # None}
          = {<<n, kind(n), own(n)>> : n \in {n \in used(x) : PathOf(n) # None}}
    OBVIOUS
  <2> QED BY <2>1, <2>2 DEF kind, own
<1>4. {n \in used(x) : PathOf(n) # None} = used(y)
  OBVIOUS
<1>5. \A n \in used(y) : x.index[n].kind = y.index[n].kind
  OBVIOUS
<1> HIDE DEF used, defs
<1>6. {<<n, x.index[n].kind>> : n \in used(y)} = {<<n, y.index[n].kind>> : n \in used(y)}
  BY <1>5
<1>7. Seen(defs(y)) = {<<n, y.index[n].kind>> : n \in used(y)}
  BY <1>2 DEF defs
<1>8. Seen({d \in defs(x) : PathOf(d[1]) # None}) = {<<n, x.index[n].kind>> : n \in used(y)}
  <2>1. Seen({<<n, x.index[n].kind, MethodOwner(x.index, n)>> : n \in used(y)}) = {<<n, x.index[n].kind>> : n \in used(y)}
    BY <1>2
  <2>2. {d \in defs(x) : PathOf(d[1]) # None} = {<<n, x.index[n].kind, MethodOwner(x.index, n)>> : n \in used(y)}
    BY <1>3, <1>4
  <2> QED BY <2>1, <2>2
<1> QED BY <1>1, <1>6, <1>7, <1>8

\* The callers of what is removed by a build are read anew, and see what a build
\* from nothing shows them.
LEMMA OrphansBound ==
  ASSUME IInv, SymbolsKept(rows, graph, read), NEW dirty \in SUBSET OnDisk, NEW removed \in SUBSET DOMAIN rows,
         Build(PlanOf(dirty, removed, dirty \union (DOMAIN rows \ removed))),
         ReferrersDirty(dirty, removed), dirty \intersect removed = {}
  PROVE  BoundAsClean(Orphans(rows'), Clean(read'), read', view')
<1> DEFINE plan == PlanOf(dirty, removed, dirty \union (DOMAIN rows \ removed))
<1>1. PlanFits(plan) /\ dirty \subseteq plan.dirty /\ plan.active = dirty \union (DOMAIN rows \ removed)
  BY OperationsFit DEF IInv, Consistent, PlanOf
<1>2. Build(plan)
  OBVIOUS
<1> HIDE DEF plan
<1>3. PICK restored, x, nodes, edges : IsBuild(plan, restored, x, nodes, edges)
  BY <1>2, BuildParts
<1>4. /\ restored = Restored(graph, rows, plan.active \ plan.dirty, plan.dirty, plan.active)
      /\ x = ExtractDirty(plan.dirty, restored, plan.active, plan.facts, plan.project)
      /\ read' = ReadBy(plan) /\ DOMAIN rows' = plan.active
      /\ \A f \in plan.active : f \in Readable(plan.dirty) => view'[f] = ViewOf(x, tree[f], plan.active)
  BY <1>3 DEF IsBuild
<1>5. IndexIsRead(plan, restored, x)
  BY <1>1, <1>4, IndexIsOfReadTexts
<1> DEFINE clean == Clean(read')
           all   == Symbols(TextsRead(read'))
<1>6. /\ {n \in DOMAIN x.index : PathOf(n) # None} = DOMAIN all
      /\ \A n \in DOMAIN all : x.index[n].kind = all[n].kind
  BY <1>4, <1>5 DEF IndexIsRead
<1>7. DOMAIN clean.index = DOMAIN all /\ \A n \in DOMAIN all : clean.index[n].kind = all[n].kind
  BY CleanSymbols
<1> HIDE DEF clean, all
<1>8. SUFFICES ASSUME NEW f \in Orphans(rows')
               PROVE  /\ read'[f] = tree[f]
                      /\ Seen({d \in view'[f].defs : PathOf(d[1]) # None}) = Seen(ViewOf(clean, read'[f], {}).defs)
  BY DEF BoundAsClean, clean
<1>9. f \in plan.active \intersect OnDisk /\ \E e \in graph.edges : PathOf(e[1]) = f /\ PathOf(e[3]) \in removed
  BY <1>1, <1>4 DEF Orphans
<1>10. f \in Readable(plan.dirty)
  BY <1>1, <1>9 DEF ReferrersDirty, Readable, OnDisk
<1>11. read'[f] = tree[f] /\ view'[f] = ViewOf(x, tree[f], plan.active)
  BY <1>4, <1>9, <1>10 DEF ReadBy, Readable
<1>12. Seen({d \in ViewOf(x, tree[f], plan.active).defs : PathOf(d[1]) # None}) = Seen(ViewOf(clean, tree[f], {}).defs)
  BY <1>6, <1>7, SeenAlike
<1> QED BY <1>11, <1>12

\* When files go, the callers of what they defined are bound again to what has the
\* name now, whatever was edited, scanned, updated and removed before.
THEOREM RemovalRebindsCallersHolds == Spec => RemovalRebindsCallers
<1> DEFINE Rebound == BoundAsClean(Orphans(rows'), Clean(read'), read', view')
           Step  == op' \in {"scan", "update"} =>
                      \A rws \in {rows'}, rd \in {read'}, vw \in {view'} :
                        \A orphans \in {Orphans(rws)} :
                          orphans # {} => \A clean \in {Clean(rd)} : BoundAsClean(orphans, clean, rd, vw)
<1>1. IInv /\ SymbolsKept(rows, graph, read) /\ [Next]_vars => [Step]_vars
  <2> SUFFICES ASSUME IInv, SymbolsKept(rows, graph, read), [Next]_vars, vars' # vars,
                      op' \in {"scan", "update"}, Orphans(rows') # {}
               PROVE  Rebound
    OBVIOUS
  <2>1. CASE Scan \/ \E r \in Requests : Update(r[1], r[2])
    <3>1. CASE NothingToDo
      <4>1. Orphans(rows) = {}
        BY DEF Orphans
      <4> QED BY <3>1, <4>1 DEF NothingToDo
    <3>2. ASSUME NEW dirty \in SUBSET OnDisk, NEW removed \in SUBSET DOMAIN rows,
                 Build(PlanOf(dirty, removed, dirty \union (DOMAIN rows \ removed))),
                 ReferrersDirty(dirty, removed), dirty \intersect removed = {}
          PROVE  Rebound
      BY <3>2, OrphansBound
    <3> QED BY <2>1, <3>1, <3>2, UpdatesBuildReferrers
  <2>2. CASE \E paths \in Batches : Remove(paths)
    BY <2>2 DEF Remove
  <2>3. CASE \E f \in Files : \E t \in TextsOf[f] : Edit(f, t)
    BY <2>3 DEF Edit
  <2> QED BY <2>1, <2>2, <2>3 DEF Next
<1>2. Spec => [](IInv /\ SymbolsKept(rows, graph, read))
  BY InitSymbols, StepSymbols, InitInv, StepInv, PTL DEF Spec
<1>3. QED
  BY <1>1, <1>2, PTL DEF Spec, RemovalRebindsCallers

-----------------------------------------------------------------------------
(* What a text is bound to depends on what it sees and on the facts it needs. *)

\* Two indexes show the same under some names.
Alike(I, J, U) ==
  \A n : LabelOf(n) \in U =>
    /\ n \in DOMAIN I <=> n \in DOMAIN J
    /\ n \in DOMAIN I => I[n].kind = J[n].kind /\ MethodOwner(I, n) = MethodOwner(J, n)

\* Two sets of re-exports show the same under some names.
SamePassed(r, s, U) == {p \in r : p[2] \in U} = {p \in s : p[2] \in U}

\* They name the same symbols, of the same kinds and owners.
LEMMA NamedAlike ==
  ASSUME NEW I, NEW J, NEW U, Alike(I, J, U), NEW name \in U
  PROVE  /\ Named(I, name) = Named(J, name)
         /\ \A n \in Named(I, name) : /\ LabelOf(n) = name /\ n \in DOMAIN I /\ n \in DOMAIN J
                                     /\ I[n].kind = J[n].kind /\ MethodOwner(I, n) = MethodOwner(J, n)
BY DEF Alike, Named

\* An import takes the same.
LEMMA SelectImportAlike ==
  ASSUME NEW I, NEW J, NEW U, Alike(I, J, U), NEW r, NEW s, SamePassed(r, s, U), NEW f, NEW i, i.name \in U
  PROVE  SelectImport(I, f, i, r) = SelectImport(J, f, i, s)
<1>1. Named(I, i.name) = Named(J, i.name)
  BY NamedAlike
<1>2. {p \in r : p[1] = i.stem /\ p[2] = i.name} = {p \in s : p[1] = i.stem /\ p[2] = i.name}
  BY DEF SamePassed
<1> QED BY <1>1, <1>2 DEF SelectImport

\* It is among the symbols of its name.
LEMMA SelectImportNamed ==
  ASSUME NEW I, NEW r, NEW f, NEW i
  PROVE  SelectImport(I, f, i, r) \subseteq Named(I, i.name)
BY FamilyIn DEF SelectImport

\* The only callable of a name is the same.
LEMMA UniqueCallableAlike ==
  ASSUME NEW I, NEW J, NEW U, Alike(I, J, U), NEW f, NEW name \in U
  PROVE  UniqueCallable(I, f, name) = UniqueCallable(J, f, name)
<1>1. /\ Named(I, name) = Named(J, name) /\ \A n \in Named(I, name) : I[n].kind = J[n].kind
  BY NamedAlike
<1>2. SameFamily(f, Named(I, name)) \subseteq Named(I, name)
  BY FamilyIn
<1>3. {n \in SameFamily(f, Named(I, name)) : I[n].kind \in CallKinds}
        = {n \in SameFamily(f, Named(J, name)) : J[n].kind \in CallKinds}
  BY <1>1, <1>2
<1> QED BY <1>3 DEF UniqueCallable

\* The type of an impl block is the same.
LEMMA SelectOwnerTypeAlike ==
  ASSUME NEW I, NEW J, NEW U, Alike(I, J, U), NEW f, NEW type \in U
  PROVE  SelectOwnerType(I, f, type) = SelectOwnerType(J, f, type)
<1>1. /\ Named(I, type) = Named(J, type) /\ \A n \in Named(I, type) : I[n].kind = J[n].kind
  BY NamedAlike
<1>2. {n \in Named(I, type) : I[n].kind \in TypeKinds} = {n \in Named(J, type) : J[n].kind \in TypeKinds}
  BY <1>1
<1> QED BY <1>2 DEF SelectOwnerType

\* So is what a call through a module reaches.
LEMMA ModuleCallAlike ==
  ASSUME NEW I, NEW J, NEW U, Alike(I, J, U), NEW r, NEW s, SamePassed(r, s, U),
         NEW f, NEW text, NEW u, u.name \in U
  PROVE  ModuleCall(I, f, text, u, r) = ModuleCall(J, f, text, u, s)
<1> DEFINE modules   == {a[2] : a \in {a \in text.aliases : u.recv = <<"module", a[1]>>}}
           usable(K) == {n \in SameFamily(f, Named(K, u.name)) :
                           K[n].kind \in CallKinds \union {"class"} /\ n # <<f, u.by[1], u.by[2]>>}
           passed(q) == {p[3] : p \in {p \in q : p[1] \in {Stem[m] : m \in modules} /\ p[2] = u.name}}
<1>1. /\ Named(I, u.name) = Named(J, u.name) /\ \A n \in Named(I, u.name) : I[n].kind = J[n].kind
  BY NamedAlike
<1>2. SameFamily(f, Named(I, u.name)) \subseteq Named(I, u.name)
  BY FamilyIn
<1>3. usable(I) = usable(J)
  BY <1>1, <1>2
<1>4. {p \in r : p[1] \in {Stem[m] : m \in modules} /\ p[2] = u.name}
        = {p \in s : p[1] \in {Stem[m] : m \in modules} /\ p[2] = u.name}
  BY DEF SamePassed
<1>5. passed(r) = passed(s)
  BY <1>4
<1> DEFINE picked(ns, ps) ==
      LET exact == {n \in ns : PathOf(n) \in modules}
          loose == {n \in ns : Stem[PathOf(n)] \in {Stem[m] : m \in modules}}
          best  == IF exact # {} THEN exact ELSE loose
      IN IF ps \intersect ns # {} THEN ps \intersect ns ELSE IF Cardinality(best) = 1 THEN best ELSE {}
<1>6. /\ ModuleCall(I, f, text, u, r) = picked(usable(I), passed(r))
      /\ ModuleCall(J, f, text, u, s) = picked(usable(J), passed(s))
  BY DEF ModuleCall
<1> HIDE DEF usable, passed, picked
<1> QED BY <1>3, <1>5, <1>6

\* So is what a qualified path does.
LEMMA PathQualifiedAlike ==
  ASSUME NEW I, NEW J, NEW U, Alike(I, J, U), NEW u, u.name \in U
  PROVE  PathQualified(I, u) = PathQualified(J, u)
<1>1. /\ Named(I, u.name) = Named(J, u.name) /\ \A n \in Named(I, u.name) : I[n].kind = J[n].kind
  BY NamedAlike
<1>2. {n \in Named(I, u.name) : I[n].kind \in CallKinds /\ PathOf(n) \in u.qual[1]}
        = {n \in Named(J, u.name) : J[n].kind \in CallKinds /\ PathOf(n) \in u.qual[1]}
  BY <1>1
<1> DEFINE found(K) == {n \in Named(K, u.name) : K[n].kind \in CallKinds /\ PathOf(n) \in u.qual[1]}
           picked(ns) == LET better == {n \in ns : PathOf(n) \in u.qual[2]}
                             best   == IF better # {} THEN better ELSE ns
                         IN IF Cardinality(best) = 1 THEN best ELSE {}
<1>3. PathQualified(I, u) = picked(found(I)) /\ PathQualified(J, u) = picked(found(J))
  BY DEF PathQualified
<1>4. found(I) = found(J)
  BY <1>2
<1> HIDE DEF found, picked
<1> QED BY <1>3, <1>4

\* So are the methods of a type or of its nearest ancestors.
LEMMA MemberTargetsAlike ==
  ASSUME NEW I, NEW J, NEW U, Alike(I, J, U), NEW f, NEW src, NEW name \in U, NEW type, NEW parents
  PROVE  MemberTargets(I, f, src, name, type, parents) = MemberTargets(J, f, src, name, type, parents)
<1> DEFINE methods(K) == {n \in SameFamily(f, Named(K, name)) : K[n].kind = "method" /\ n # src}
           owned(K, ts, ms) == {n \in ms : MethodOwner(K, n) \in ts}
<1>1. /\ Named(I, name) = Named(J, name)
      /\ \A n \in Named(I, name) : I[n].kind = J[n].kind /\ MethodOwner(I, n) = MethodOwner(J, n)
  BY NamedAlike
<1>2. SameFamily(f, Named(I, name)) \subseteq Named(I, name)
  BY FamilyIn
<1>3. methods(I) = methods(J) /\ methods(I) \subseteq Named(I, name)
  BY <1>1, <1>2
<1>4. \A ts : owned(I, ts, methods(I)) = owned(J, ts, methods(J))
  BY <1>1, <1>3
<1> DEFINE layers == Layers(parents, type, {type})
           near(K) == {k \in DOMAIN layers : owned(K, layers[k], methods(K)) # {}}
           inherited(K) == UNION {owned(K, layers[k], methods(K)) : k \in {k \in near(K) : \A m \in near(K) : k <= m}}
           chosen(ns) == LET here == {n \in ns : PathOf(n) = f}
                         IN IF Cardinality(ns) > 1 /\ Cardinality(here) = 1 THEN here ELSE ns
           found(K) == IF owned(K, {type}, methods(K)) # {} THEN owned(K, {type}, methods(K)) ELSE inherited(K)
<1>5. \A K : MemberTargets(K, f, src, name, type, parents) = chosen(found(K))
  BY DEF MemberTargets
<1> HIDE DEF owned, methods, layers, chosen
<1>6. near(I) = near(J)
  BY <1>4
<1>7. inherited(I) = inherited(J)
  <2> HIDE DEF near
  <2>1. {k \in near(I) : \A m \in near(I) : k <= m} = {k \in near(J) : \A m \in near(J) : k <= m}
    BY <1>6
  <2> QED BY <1>4, <2>1
<1> HIDE DEF inherited
<1>8. found(I) = found(J)
  BY <1>4, <1>7
<1> HIDE DEF found
<1> QED BY <1>5, <1>8

\* So is the member that a test reads.
LEMMA AttributeTargetsAlike ==
  ASSUME NEW I, NEW J, NEW U, Alike(I, J, U), NEW f, NEW src, NEW name \in U, NEW types
  PROVE  AttributeTargets(I, f, src, name, types) = AttributeTargets(J, f, src, name, types)
<1>1. /\ Named(I, name) = Named(J, name)
      /\ \A n \in Named(I, name) : I[n].kind = J[n].kind /\ MethodOwner(I, n) = MethodOwner(J, n)
  BY NamedAlike
<1>2. SameFamily(f, Named(I, name)) \subseteq Named(I, name)
  BY FamilyIn
<1>3. {n \in SameFamily(f, Named(I, name)) : I[n].kind = "method" /\ n # src /\ MethodOwner(I, n) \in types}
        = {n \in SameFamily(f, Named(J, name)) : J[n].kind = "method" /\ n # src /\ MethodOwner(J, n) \in types}
  BY <1>1, <1>2
<1> QED BY <1>3 DEF AttributeTargets

\* A text has its own definitions in both indexes.
HasOwn(I, f, text) == \A d \in text.defs : Node(f, text, d) \in DOMAIN I

\* The binding of a name is the same, and is of symbols of that name.
LEMMA BindingAlike ==
  ASSUME NEW I, NEW J, NEW U, Alike(I, J, U), NEW r, NEW s, SamePassed(r, s, U),
         NEW f, NEW text, HasOwn(I, f, text), NEW name \in U
  PROVE  /\ Binding(I, f, text, name, r) = Binding(J, f, text, name, s)
         /\ \A n \in Binding(I, f, text, name, r) : LabelOf(n) = name /\ n \in DOMAIN I
<1> DEFINE imports     == {i \in text.imports : i.name = name}
           imported(K, q) == UNION {SelectImport(K, f, i, q) : i \in imports}
           local       == {Node(f, text, d) : d \in {d \in text.defs : d.name = name /\ d.kind \in CallKinds
                                                                          /\ Owner(text, d) = None}}
<1>1. \A i \in imports : SelectImport(I, f, i, r) = SelectImport(J, f, i, s)
  BY SelectImportAlike
<1>2. imported(I, r) = imported(J, s)
  BY <1>1
<1>3. UniqueCallable(I, f, name) = UniqueCallable(J, f, name)
  BY UniqueCallableAlike
<1>4. \A n \in Named(I, name) : LabelOf(n) = name /\ n \in DOMAIN I
  BY NamedAlike
<1>5. \A n \in local : LabelOf(n) = name /\ n \in DOMAIN I
  BY DEF Node, LabelOf, HasOwn
<1>6. imported(I, r) \subseteq Named(I, name)
  BY SelectImportNamed
<1>7. UniqueCallable(I, f, name) \subseteq Named(I, name)
  BY FamilyIn DEF UniqueCallable
<1>8. \A K, q : Binding(K, f, text, name, q) = IF imports = {} /\ local # {} THEN local
                                                ELSE IF imported(K, q) # {} THEN imported(K, q)
                                                ELSE UniqueCallable(K, f, name)
  BY DEF Binding
<1> HIDE DEF imports, imported, local
<1> QED BY <1>2, <1>3, <1>4, <1>5, <1>6, <1>7, <1>8

\* A bare call reaches the same.
LEMMA BareTargetsAlike ==
  ASSUME NEW I, NEW J, NEW U, Alike(I, J, U), NEW r, NEW s, SamePassed(r, s, U),
         NEW f, NEW text, HasOwn(I, f, text), NEW u, u.name \in U
  PROVE  BareTargets(I, f, text, u, r) = BareTargets(J, f, text, u, s)
<1> DEFINE path(K)    == IF u.form = "path" THEN PathQualified(K, u) ELSE {}
           class(K)   == IF u.form = "bare" /\ f \in ClassScoped /\ u.by[1] # None
                         THEN {<<f, u.by[1], u.name>>} \intersect DOMAIN K ELSE {}
           target(K, q) == IF path(K) # {} THEN path(K) ELSE IF class(K) # {} THEN class(K)
                           ELSE Binding(K, f, text, u.name, q)
           passes(K, n) == ~ (u.form = "bare" /\ K[n].kind = "method" /\ u.name \in {a[1] : a \in text.aliases})
<1>1. \A K, q : BareTargets(K, f, text, u, q)
                  = {n \in SameFamily(f, target(K, q)) \union Outside(target(K, q)) : passes(K, n)}
  BY DEF BareTargets
<1>2. path(I) = path(J) /\ \A n \in path(I) : LabelOf(n) = u.name /\ n \in DOMAIN I
  <2>1. PathQualified(I, u) = PathQualified(J, u)
    BY PathQualifiedAlike
  <2>2. PathQualified(I, u) \subseteq Named(I, u.name)
    BY DEF PathQualified
  <2> QED BY <2>1, <2>2, NamedAlike
<1>3. class(I) = class(J) /\ \A n \in class(I) : LabelOf(n) = u.name /\ n \in DOMAIN I
  <2>1. LabelOf(<<f, u.by[1], u.name>>) = u.name
    BY DEF LabelOf
  <2>2. <<f, u.by[1], u.name>> \in DOMAIN I <=> <<f, u.by[1], u.name>> \in DOMAIN J
    BY <2>1 DEF Alike
  <2> QED BY <2>1, <2>2
<1>4. /\ Binding(I, f, text, u.name, r) = Binding(J, f, text, u.name, s)
      /\ \A n \in Binding(I, f, text, u.name, r) : LabelOf(n) = u.name /\ n \in DOMAIN I
  BY BindingAlike
<1> HIDE DEF path, class
<1>5. target(I, r) = target(J, s) /\ \A n \in target(I, r) : LabelOf(n) = u.name /\ n \in DOMAIN I
  BY <1>2, <1>3, <1>4
<1> HIDE DEF target
<1>6. \A n \in target(I, r) : I[n].kind = J[n].kind
  BY <1>5 DEF Alike
<1>7. \A n \in target(I, r) : passes(I, n) <=> passes(J, n)
  BY <1>6
<1>8. SameFamily(f, target(I, r)) \subseteq target(I, r) /\ Outside(target(I, r)) \subseteq target(I, r)
  BY FamilyIn
<1> HIDE DEF passes
<1> QED BY <1>1, <1>5, <1>7, <1>8

\* The ancestors of a type are types.
LEMMA LayersTyped ==
  ASSUME NEW parents \in SUBSET (Types \X Types), NEW type \in Types
  PROVE  \A n \in DOMAIN Layers(parents, type, {}) : Layers(parents, type, {})[n] \subseteq Types
<1> DEFINE up(ts)   == {p[2] : p \in {p \in parents : p[1] \in ts}}
           above(b) == <<up(b[1]) \ b[2], b[2] \union (up(b[1]) \ b[2])>>
           first    == <<{type}, {}>>
           IsRun(g) == g = [n \in Nat |-> IF n = 0 THEN first ELSE above(g[n - 1])]
           layer    == CHOOSE g : IsRun(g)
<1>1. Layers(parents, type, {}) = [n \in 1 .. Cardinality(Types) |-> layer[n][1]]
  BY DEF Layers
<1>2. \A ts : up(ts) \subseteq Types
  OBVIOUS
<1> HIDE DEF up
<1> DEFINE Pairs == (SUBSET Types) \X (SUBSET Types)
<1>3. first \in Pairs /\ \A b \in Pairs : above(b) \in Pairs
  BY <1>2
<1>4. \E g : IsRun(g)
  <2> DEFINE F == [b \in Pairs |-> above(b)]
  <2>1. F \in [Pairs -> Pairs]
    BY <1>3
  <2>2. PICK g \in [Nat -> Pairs] : g[0] = first /\ \A n \in Nat : g[n + 1] = F[g[n]]
    <3>1. first \in Pairs
      BY <1>3
    <3> HIDE DEF F, Pairs, first
    <3> QED BY <2>1, <3>1, Recursion
  <2> DEFINE next(n) == above(g[n - 1])
  <2>3. ASSUME NEW n \in Nat, n # 0 PROVE g[n] = next(n)
    <3>1. n - 1 \in Nat /\ (n - 1) + 1 = n
      BY <2>3
    <3>2. g[n] = F[g[n - 1]] /\ g[n - 1] \in Pairs
      <4> HIDE DEF F, Pairs, first
      <4> QED BY <2>2, <3>1
    <3> HIDE DEF Pairs, above
    <3> QED BY <3>2
  <2> HIDE DEF next, first
  <2>4. g = [n \in Nat |-> IF n = 0 THEN first ELSE next(n)]
    <3> HIDE DEF F, Pairs
    <3> QED BY <2>2, <2>3
  <2> QED BY <2>4 DEF next
<1>5. IsRun(layer)
  <2> HIDE DEF IsRun
  <2> QED BY <1>4
<1> DEFINE next(n) == above(layer[n - 1])
<1>6. layer = [n \in Nat |-> IF n = 0 THEN first ELSE next(n)]
  BY <1>5
<1> DEFINE Good == {n \in Nat : layer[n] \in Pairs}
<1>7. 0 \in Good
  <2>1. layer[0] = first
    <3> HIDE DEF layer, next, first
    <3> QED BY <1>6
  <2> HIDE DEF layer, first, Pairs
  <2> QED BY <1>3, <2>1
<1>8. ASSUME NEW n \in Nat, n \in Good PROVE n + 1 \in Good
  <2>1. n + 1 \in Nat /\ n + 1 # 0 /\ (n + 1) - 1 = n
    OBVIOUS
  <2>2. layer[n + 1] = next(n + 1)
    <3> HIDE DEF layer, next, first
    <3> QED BY <1>6, <2>1
  <2>3. layer[n + 1] = above(layer[n])
    <3> HIDE DEF layer, above
    <3> QED BY <2>1, <2>2
  <2> HIDE DEF layer, above, Pairs, first
  <2> QED BY <1>3, <1>8, <2>1, <2>3
<1>9. Nat \subseteq Good
  <2> HIDE DEF Good
  <2> QED BY <1>7, <1>8, SetInduction
<1>10. \A n \in Nat : layer[n][1] \subseteq Types
  <2> HIDE DEF layer
  <2> QED BY <1>9
<1>11. \A n \in 1 .. Cardinality(Types) : n \in Nat
  OBVIOUS
<1> HIDE DEF layer
<1> QED BY <1>1, <1>10, <1>11

-----------------------------------------------------------------------------
(* What is known of a receiver depends on the facts that its file needs. *)

\* Facts agree wherever they are needed.
AgreeAt(p, q, needs) ==
  \A k \in FactKey : (k \in needs \/ (k \in FieldKeys /\ AnyOwner(k[3]) \in needs)) => p[k] = q[k]

\* A field of any type is known alike, and so is one of the types that a fact agrees on.
LEMMA FieldAlike ==
  ASSUME NEW p, NEW q, NEW needs, AgreeAt(p, q, needs), NEW attr \in Attrs, AnyOwner(attr) \in needs,
         NEW t \in Types
  PROVE  p[<<"field", t, attr>>] = q[<<"field", t, attr>>]
<1>1. <<"field", t, attr>> \in FieldKeys /\ <<"field", t, attr>>[3] = attr
  BY DEF FieldKeys
<1> QED BY <1>1 DEF AgreeAt, FactKey

\* A set of numbers has a least one.
LEMMA LeastNumber ==
  ASSUME NEW S \in SUBSET Nat, S # {}
  PROVE  \E n \in S : \A m \in S : n <= m
<1> DEFINE Less == OpToRel(<, Nat)
<1>1. PICK least \in S : \A n \in S : ~ (<<n, least>> \in Less)
  <2> HIDE DEF Less
  <2>1. IsWellFoundedOn(Less, Nat)
    BY NatLessThanWellFounded DEF Less
  <2> QED BY <2>1, WFMin
<1>2. \A n \in S : ~ (n < least)
  BY <1>1 DEF OpToRel
<1> QED BY <1>2

\* What the nearest ancestors say of a field is known alike.
LEMMA VisibleAlike ==
  ASSUME NEW p, NEW q, NEW needs, AgreeAt(p, q, needs), NEW attr \in Attrs, AnyOwner(attr) \in needs,
         NEW type \in Types, NEW parents \in SUBSET (Types \X Types)
  PROVE  Visible(p, parents, type, attr) = Visible(q, parents, type, attr)
<1> DEFINE layers == Layers(parents, type, {})
           at(h, ts) == UNION {h[<<"field", t, attr>>] : t \in ts}
           near(h) == {n \in DOMAIN layers : at(h, layers[n]) # {}}
           visible(h) == IF near(h) = {} THEN {} ELSE at(h, layers[CHOOSE n \in near(h) : \A m \in near(h) : n <= m])
<1>1. \A n \in DOMAIN layers : layers[n] \subseteq Types
  BY LayersTyped
<1>2. \A h : Visible(h, parents, type, attr) = visible(h)
  BY DEF Visible
<1> HIDE DEF layers
<1>3. \A n \in DOMAIN layers : at(p, layers[n]) = at(q, layers[n])
  BY <1>1, FieldAlike
<1> HIDE DEF at
<1>4. near(p) = near(q) /\ near(p) \subseteq DOMAIN layers
  BY <1>3
<1>5. CASE near(p) = {}
  BY <1>2, <1>4, <1>5
<1>6. CASE near(p) # {}
  <2> DEFINE first(h) == CHOOSE n \in near(h) : \A m \in near(h) : n <= m
  <2>1. first(p) = first(q)
    BY <1>4
  <2>2. visible(p) = at(p, layers[first(p)]) /\ visible(q) = at(q, layers[first(q)])
    BY <1>4, <1>6
  <2>3. near(p) \in SUBSET Nat
    <3>1. DOMAIN layers \subseteq Nat
      BY DEF layers, Layers
    <3> QED BY <1>4, <3>1
  <2>4. first(p) \in near(p)
    <3> HIDE DEF near
    <3>1. \E n \in near(p) : \A m \in near(p) : n <= m
      BY <1>6, <2>3, LeastNumber
    <3> QED BY <3>1
  <2> HIDE DEF near, first, visible
  <2>5. visible(p) = visible(q)
    BY <1>3, <1>4, <2>1, <2>2, <2>4
  <2> QED BY <1>2, <2>5 DEF visible
<1> QED BY <1>5, <1>6

\* The types of all receivers in a text are known alike.
KnownAlike(t, p, q, own, parents) ==
  \A u \in Content[t].uses : u.form \in {"member", "attribute"} =>
    ReceiverFact(p, own, parents, u.by[1], u.recv) = ReceiverFact(q, own, parents, u.by[1], u.recv)

\* They are if the facts agree on what the file needs.
LEMMA ReceiversAlike ==
  ASSUME NEW t \in TextIds, NEW p, NEW q \in Facts, AgreeAt(p, q, Content[t].snap.needs), NEW own,
         NEW parents \in SUBSET (Types \X Types)
  PROVE  KnownAlike(t, p, q, own, parents)
<1> SUFFICES ASSUME NEW u \in Content[t].uses, u.form \in {"member", "attribute"}
             PROVE  ReceiverFact(p, own, parents, u.by[1], u.recv) = ReceiverFact(q, own, parents, u.by[1], u.recv)
  BY DEF KnownAlike
<1> DEFINE needs == Content[t].snap.needs
           recv  == u.recv
<1>1. recv \in Receiver
  <2>1. Content[t] \in Text
    BY ScanAssumption
  <2>2. u \in CallSite
    BY <2>1 DEF Text
  <2> QED BY <2>2 DEF CallSite
<1>2. /\ recv[1] = "self" => u.by[1] \in Types /\ AnyOwner(recv[2]) \in needs
      /\ recv[1] = "key"  => recv[2] \in needs
      /\ recv[1] = "path" => recv[2] \in needs /\ AnyOwner(recv[3]) \in needs
  BY NeedAssumption
<1>3. /\ recv[1] = "self" => recv[2] \in Attrs
      /\ recv[1] = "key"  => recv[2] \in ModuleKeys
      /\ recv[1] = "path" => recv[2] \in ModuleKeys /\ recv[3] \in Attrs
  <2>1. CASE recv \in {<<None>>, <<"this">>}
    BY <2>1 DEF None
  <2>2. CASE recv \in {"self"} \X Attrs
    BY <2>2
  <2>3. CASE recv \in ({"type"} \X Types) \union ({"module"} \X (Labels \union Files)) \union ({"external"} \X Outsiders)
    BY <2>3
  <2>4. CASE recv \in {"key"} \X ModuleKeys
    <3> HIDE DEF recv
    <3> QED BY <2>4
  <2>5. CASE recv \in {"path"} \X ModuleKeys \X Attrs
    <3> HIDE DEF recv
    <3> QED BY <2>5
  <2> HIDE DEF recv
  <2> QED BY <1>1, <2>1, <2>2, <2>3, <2>4, <2>5 DEF Receiver
<1>4. \A k \in ModuleKeys : k \in needs => p[k] = q[k] /\ q[k] \in Fact
  BY DEF AgreeAt, FactKey, Facts
<1> HIDE DEF recv
<1>5. CASE recv[1] = "self"
  <2> DEFINE key(h)     == h[<<"field", u.by[1], recv[2]>>]
             visible(h) == Visible(h, parents, u.by[1], recv[2])
             direct     == Direct(own, <<"field", u.by[1], recv[2]>>)
  <2>1. key(p) = key(q)
    BY <1>2, <1>3, <1>5, FieldAlike
  <2>2. visible(p) = visible(q)
    BY <1>2, <1>3, <1>5, VisibleAlike
  <2>3. \A h : ReceiverFact(h, own, parents, u.by[1], recv)
                = IF Concrete(key(h)) # {} THEN key(h) ELSE IF direct # {} THEN direct ELSE visible(h)
    BY <1>5 DEF ReceiverFact, SelfFact
  <2> HIDE DEF key, visible, direct
  <2> QED BY <2>1, <2>2, <2>3 DEF recv
<1>6. CASE recv[1] = "key"
  <2>1. \A h : ReceiverFact(h, own, parents, u.by[1], recv) = h[recv[2]]
    BY <1>6 DEF ReceiverFact, LocalFact
  <2> QED BY <1>2, <1>3, <1>4, <1>6, <2>1 DEF recv
<1>7. CASE recv[1] = "path"
  <2>1. \A h : ReceiverFact(h, own, parents, u.by[1], recv) = FieldOf(h, h[recv[2]], recv[3])
    BY <1>7 DEF ReceiverFact, LocalFact
  <2>2. p[recv[2]] = q[recv[2]] /\ q[recv[2]] \in Fact
    BY <1>2, <1>3, <1>4, <1>7
  <2> DEFINE root == q[recv[2]]
             field(h) == {h[<<"field", c, recv[3]>>] : c \in Concrete(root)}
  <2>3. Concrete(root) \subseteq Types
    BY <2>2 DEF Concrete, Fact
  <2>4. \A c \in Concrete(root) : p[<<"field", c, recv[3]>>] = q[<<"field", c, recv[3]>>]
    BY <1>2, <1>3, <1>7, <2>3, FieldAlike
  <2>5. \A h : FieldOf(h, root, recv[3]) = UNION field(h)
    BY DEF FieldOf
  <2>6. field(p) = field(q)
    <3> HIDE DEF root
    <3> QED BY <2>4
  <2> HIDE DEF field
  <2> QED BY <2>1, <2>2, <2>5, <2>6 DEF recv
<1>8. CASE recv[1] \notin {"self", "key", "path"}
  <2>1. \A h : ReceiverFact(h, own, parents, u.by[1], recv)
                = IF recv[1] = "this" THEN {<<u.by[1], None>>} ELSE IF recv[1] = "type" THEN {<<recv[2], None>>} ELSE {}
    BY <1>8 DEF ReceiverFact, LocalFact
  <2> QED BY <2>1 DEF recv
<1> QED BY <1>5, <1>6, <1>7, <1>8

-----------------------------------------------------------------------------
(* A text alone. *)

\* A text as a batch of its own.
Alone(f, text) == [g \in {f} |-> text]

\* A use yields the same edges.
SameCalls(t, u, f, I, r, p, above, J, s, q, parents, own) ==
  CallEdges(I, f, Content[t], u, p, own, above, r) = CallEdges(J, f, Content[t], u, q, own, parents, s)

\* That is so if the two indexes show the text the same.
LEMMA CallEdgesAlike ==
  ASSUME NEW t \in TextIds, NEW u \in Content[t].uses, NEW f,
         NEW I, NEW J, Alike(I, J, UsedNames(Content[t])), HasOwn(I, f, Content[t]),
         NEW r, NEW s, SamePassed(r, s, UsedNames(Content[t])),
         NEW p, NEW q \in Facts, AgreeAt(p, q, Content[t].snap.needs), NEW own,
         NEW above, NEW parents \in SUBSET (Types \X Types),
         u.form \in {"member", "attribute"} => above = parents
  PROVE  SameCalls(t, u, f, I, r, p, above, J, s, q, parents, own)
<1> DEFINE text == Content[t]
           src  == <<f, u.by[1], u.by[2]>>
           types(h, a) == Concrete(ReceiverFact(h, own, a, u.by[1], u.recv))
<1> DEFINE left  == CallEdges(I, f, text, u, p, own, above, r)
           right == CallEdges(J, f, text, u, q, own, parents, s)
<1> SUFFICES left = right
  BY DEF SameCalls
<1> DEFINE U == UsedNames(text)
<1>n. u.name \in U
  BY DEF UsedNames
<1> HIDE DEF U
<1>u. Alike(I, J, U) /\ SamePassed(r, s, U)
  BY DEF U
<1>0. u.form \in {"member", "attribute"} => above = parents /\ types(p, above) = types(q, parents)
  <2> SUFFICES ASSUME u.form \in {"member", "attribute"} PROVE above = parents /\ types(p, above) = types(q, parents)
    OBVIOUS
  <2>1. above = parents
    OBVIOUS
  <2>2. ReceiverFact(p, own, parents, u.by[1], u.recv) = ReceiverFact(q, own, parents, u.by[1], u.recv)
    <3>1. KnownAlike(t, p, q, own, parents)
      BY ReceiversAlike
    <3> QED BY <3>1 DEF KnownAlike
  <2> QED BY <2>1, <2>2
<1>1. CASE u.form \in {"bare", "path"}
  <2>1. BareTargets(I, f, text, u, r) = BareTargets(J, f, text, u, s)
    BY <1>n, <1>u, BareTargetsAlike
  <2>2. /\ left = {src} \X {"calls"} \X BareTargets(I, f, text, u, r)
        /\ right = {src} \X {"calls"} \X BareTargets(J, f, text, u, s)
    BY <1>1 DEF CallEdges
  <2> HIDE DEF left, right
  <2> QED BY <2>1, <2>2
<1>2. CASE u.form = "member"
  <2>2. ModuleCall(I, f, text, u, r) = ModuleCall(J, f, text, u, s)
    BY <1>n, <1>u, ModuleCallAlike
  <2> DEFINE member(K, h, a) == MemberEdges(K, f, src, u.name, types(h, a), a)
             external == {<<src, "calls", External(u.recv[2], u.name)>>}
             chosen(module, edges) == IF module # {} THEN {src} \X {"calls"} \X module
                                      ELSE IF u.recv[1] = "external" THEN external ELSE edges
  <2>3. member(I, p, above) = member(J, q, parents)
    <3> DEFINE targets(K, cs) == UNION {MemberTargets(K, f, src, u.name, c, parents) : c \in cs}
               calls(ns) == {src} \X {IF Cardinality(ns) = 1 THEN "calls" ELSE "calls_candidate"} \X ns
               mine == types(p, parents)
    <3>1. \A c : MemberTargets(I, f, src, u.name, c, parents) = MemberTargets(J, f, src, u.name, c, parents)
      BY <1>n, <1>u, MemberTargetsAlike
    <3>2. \A K, cs : MemberEdges(K, f, src, u.name, cs, parents) = calls(targets(K, cs))
      BY DEF MemberEdges
    <3>3. above = parents /\ mine = types(q, parents)
      BY <1>0, <1>2
    <3>4. member(I, p, above) = MemberEdges(I, f, src, u.name, mine, parents)
      BY <3>3
    <3>5. member(J, q, parents) = MemberEdges(J, f, src, u.name, mine, parents)
      BY <3>3
    <3> HIDE DEF mine, member, calls, src
    <3>6. targets(I, mine) = targets(J, mine)
      BY <3>1
    <3> HIDE DEF targets
    <3> QED BY <3>2, <3>4, <3>5, <3>6
  <2>4. /\ left = chosen(ModuleCall(I, f, text, u, r), member(I, p, above))
        /\ right = chosen(ModuleCall(J, f, text, u, s), member(J, q, parents))
    BY <1>2 DEF CallEdges
  <2> HIDE DEF left, right, chosen, member
  <2> QED BY <2>2, <2>3, <2>4
<1>3. CASE u.form = "attribute"
  <2> DEFINE found(K, h, a) == AttributeTargets(K, f, src, u.name, types(h, a))
  <2>1. found(I, p, above) = found(J, q, parents)
    <3>1. types(p, above) = types(q, parents)
      BY <1>0, <1>3
    <3> HIDE DEF types, src
    <3> QED BY <1>n, <1>u, <3>1, AttributeTargetsAlike
  <2>2. /\ left = {src} \X {"reads"} \X found(I, p, above)
        /\ right = {src} \X {"reads"} \X found(J, q, parents)
    BY <1>3 DEF CallEdges
  <2> HIDE DEF left, right, found
  <2> QED BY <2>1, <2>2
<1>4. CASE u.form = "callback"
  <2>1. UniqueCallable(I, f, u.name) = UniqueCallable(J, f, u.name)
    BY <1>n, <1>u, UniqueCallableAlike
  <2>2. /\ left = {src} \X {"references"} \X (UniqueCallable(I, f, u.name) \ {src})
        /\ right = {src} \X {"references"} \X (UniqueCallable(J, f, u.name) \ {src})
    BY <1>4 DEF CallEdges
  <2> HIDE DEF left, right
  <2> QED BY <2>1, <2>2
<1>5. CASE u.form \notin {"bare", "path", "member", "attribute", "callback"}
  BY <1>5 DEF CallEdges
<1> QED BY <1>1, <1>2, <1>3, <1>4, <1>5

\* The node that an index gives a symbol of a text for a parent.
ParentIn(I, f, text, n) ==
  LET parents == UNION {ParentNode(I, Alone(f, text), f, d) : d \in DefsOf(Alone(f, text), n)}
  IN IF parents # {} THEN CHOOSE p \in parents : TRUE ELSE NoParent

\* The symbols of a text that are in an index are its own definitions, with their parents.
HoldsText(I, f, text) ==
  /\ {n \in DOMAIN I : PathOf(n) = f} = {Node(f, text, d) : d \in text.defs}
  /\ \A n \in DOMAIN I : PathOf(n) = f => I[n].parent = ParentIn(I, f, text, n)

\* What a text is bound to: by an index, the re-exports after each pass, the parents
\* of classes, facts, and the active files.
TextEdges(f, text, w) ==
  LET alone == Alone(f, text)
      calls == UNION {CallEdges(w.index, f, text, u, w.facts, [g \in {f} |-> text.snap], w.parents, w.reexports[2])
                        : u \in text.uses}
  IN ImportsOf(w.index, alone, {}) \union ImportsOf(w.index, alone, w.reexports[1]) \union calls
       \union ContainsEdges(w.index, alone) \union FileEdges(alone, w.active) \union ReturnEdges(w.index, alone)

\* What two extractions show alike.
LEMMA ViewAlike ==
  ASSUME NEW t, NEW x, NEW y, NEW a, NEW b, ViewOf(x, t, a) = ViewOf(y, t, b)
  PROVE  LET text    == Content[t]
             U       == UsedNames(text)
             modules == {i.module : i \in text.imports} \union {e[2] : e \in text.aliases}
         IN /\ Alike(x.index, y.index, U)
            /\ SamePassed(x.reexports[1], y.reexports[1], U) /\ SamePassed(x.reexports[2], y.reexports[2], U)
            /\ modules \intersect a = modules \intersect b
            /\ (\E u \in text.uses : u.form \in {"member", "attribute"}) => x.parents = y.parents
<1> DEFINE text    == Content[t]
           U       == UsedNames(text)
           typed   == \E u \in text.uses : u.form \in {"member", "attribute"}
           modules == {i.module : i \in text.imports} \union {e[2] : e \in text.aliases}
           used(z) == {n \in DOMAIN z.index : LabelOf(n) \in U}
           defs(z) == {<<n, z.index[n].kind, MethodOwner(z.index, n)>> : n \in used(z)}
           passed(z) == [pass \in {1, 2} |-> {r \in z.reexports[pass] : r[2] \in U}]
           above(z)  == IF typed THEN z.parents ELSE {}
<1>1. \A z, c : /\ ViewOf(z, t, c).defs = defs(z) /\ ViewOf(z, t, c).modules = modules \intersect c
                /\ ViewOf(z, t, c).reexports = passed(z) /\ ViewOf(z, t, c).parents = above(z)
  BY DEF ViewOf
<1> HIDE DEF text, U, typed, modules
<1>2. defs(x) = defs(y) /\ modules \intersect a = modules \intersect b /\ passed(x) = passed(y) /\ above(x) = above(y)
  <2> HIDE DEF defs, passed, above
  <2> QED BY <1>1
<1>3. SamePassed(x.reexports[1], y.reexports[1], U) /\ SamePassed(x.reexports[2], y.reexports[2], U)
  <2>1. \A z : passed(z)[1] = {r \in z.reexports[1] : r[2] \in U} /\ passed(z)[2] = {r \in z.reexports[2] : r[2] \in U}
    OBVIOUS
  <2> HIDE DEF passed
  <2> QED BY <1>2, <2>1 DEF SamePassed
<1>4. Alike(x.index, y.index, U)
  <2> SUFFICES ASSUME NEW n, LabelOf(n) \in U
               PROVE  /\ n \in DOMAIN x.index <=> n \in DOMAIN y.index
                      /\ n \in DOMAIN x.index => /\ x.index[n].kind = y.index[n].kind
                                                 /\ MethodOwner(x.index, n) = MethodOwner(y.index, n)
    BY DEF Alike
  <2>1. ASSUME NEW z, NEW v, defs(z) = defs(v), n \in DOMAIN z.index
        PROVE  n \in DOMAIN v.index /\ z.index[n].kind = v.index[n].kind /\ MethodOwner(z.index, n) = MethodOwner(v.index, n)
    <3> DEFINE row(q, m) == <<m, q.index[m].kind, MethodOwner(q.index, m)>>
    <3>1. row(z, n) \in defs(v)
      BY <2>1
    <3>2. PICK m \in used(v) : row(z, n) = row(v, m)
      BY <3>1
    <3> QED BY <3>2
  <2> HIDE DEF defs
  <2>2. n \in DOMAIN x.index => n \in DOMAIN y.index /\ x.index[n].kind = y.index[n].kind
                                 /\ MethodOwner(x.index, n) = MethodOwner(y.index, n)
    BY <1>2, <2>1
  <2>3. n \in DOMAIN y.index => n \in DOMAIN x.index
    BY <1>2, <2>1
  <2> QED BY <2>2, <2>3
<1>5. typed => x.parents = y.parents
  BY <1>2
<1> QED BY <1>2, <1>3, <1>4, <1>5 DEF text, U, typed, modules

\* Imports take the same.
LEMMA ImportsAlike ==
  ASSUME NEW f, NEW text, NEW I, NEW J, Alike(I, J, UsedNames(text)), NEW r, NEW s, SamePassed(r, s, UsedNames(text))
  PROVE  ImportsOf(I, Alone(f, text), r) = ImportsOf(J, Alone(f, text), s)
<1> DEFINE from(K, q) == {SelectImport(K, f, i, q) : i \in text.imports}
           edges(ns)  == {<<FileNode(f), "imports_from", n>> : n \in {n \in UNION ns : PathOf(n) # f}}
<1>1. \A i \in text.imports : i.name \in UsedNames(text)
  BY DEF UsedNames
<1>2. \A i \in text.imports : SelectImport(I, f, i, r) = SelectImport(J, f, i, s)
  BY <1>1, SelectImportAlike
<1>3. from(I, r) = from(J, s)
  BY <1>2
<1>4. \A K, q : ImportsOf(K, Alone(f, text), q) = edges(from(K, q))
  BY DEF ImportsOf, Alone
<1> HIDE DEF from, edges
<1> QED BY <1>3, <1>4

\* The types of a text's impl blocks are the same, and so are the parents of its symbols.
LEMMA ParentAlike ==
  ASSUME NEW f, NEW text, NEW I, NEW J, Alike(I, J, UsedNames(text)), NEW n, PathOf(n) = f
  PROVE  ParentIn(I, f, text, n) = ParentIn(J, f, text, n)
<1> DEFINE ds    == DefsOf(Alone(f, text), n)
           of(K) == {ParentNode(K, Alone(f, text), f, d) : d \in ds}
           in(s) == IF UNION s # {} THEN CHOOSE p \in UNION s : TRUE ELSE NoParent
<1>1. ds \subseteq text.defs
  BY DEF DefsOf, Alone
<1>2. \A d \in text.defs : d.impl \in UsedNames(text)
  BY DEF UsedNames
<1>3. \A d \in ds : ParentNode(I, Alone(f, text), f, d) = ParentNode(J, Alone(f, text), f, d)
  <2> TAKE d \in ds
  <2>1. SelectOwnerType(I, f, d.impl) = SelectOwnerType(J, f, d.impl)
    BY <1>1, <1>2, SelectOwnerTypeAlike
  <2> QED BY <2>1 DEF ParentNode
<1>4. \A K : ParentIn(K, f, text, n) = in(of(K))
  BY DEF ParentIn
<1>5. of(I) = of(J)
  BY <1>3
<1> HIDE DEF of, in
<1> QED BY <1>4, <1>5

\* What a text contains is the same.
LEMMA ContainsAlike ==
  ASSUME NEW f, NEW text, NEW I, NEW J, Alike(I, J, UsedNames(text)), HoldsText(I, f, text), HoldsText(J, f, text)
  PROVE  ContainsEdges(I, Alone(f, text)) = ContainsEdges(J, Alone(f, text))
<1> DEFINE own      == {Node(f, text, d) : d \in text.defs}
           top      == UNION {{<<FileNode(g), "contains", Node(g, Alone(f, text)[g], d)>> : d \in Alone(f, text)[g].defs}
                                : g \in DOMAIN Alone(f, text)}
           inner(K) == {n \in DOMAIN K : PathOf(n) \in DOMAIN Alone(f, text) /\ K[n].parent # NoParent}
           rest(K)  == {<<K[n].parent, "contains", n>> : n \in inner(K)}
<1>1. \A K : ContainsEdges(K, Alone(f, text)) = top \union rest(K)
  BY DEF ContainsEdges
<1>2. \A K : inner(K) = {n \in DOMAIN K : PathOf(n) = f /\ K[n].parent # NoParent}
  BY DEF Alone
<1>3. /\ {n \in DOMAIN I : PathOf(n) = f} = own /\ {n \in DOMAIN J : PathOf(n) = f} = own
      /\ \A n \in DOMAIN I : PathOf(n) = f => I[n].parent = ParentIn(I, f, text, n)
      /\ \A n \in DOMAIN J : PathOf(n) = f => J[n].parent = ParentIn(J, f, text, n)
  BY DEF HoldsText
<1> HIDE DEF own, top
<1>4. \A n \in own : I[n].parent = J[n].parent
  BY <1>3, ParentAlike
<1>5. inner(I) = inner(J) /\ inner(I) \subseteq own
  <2> HIDE DEF inner
  <2> QED BY <1>2, <1>3, <1>4
<1> HIDE DEF inner
<1>6. rest(I) = rest(J)
  BY <1>4, <1>5
<1> HIDE DEF rest
<1> QED BY <1>1, <1>6

\* What its callables return is the same.
LEMMA ReturnsAlike ==
  ASSUME NEW f, NEW text, NEW I, NEW J, Alike(I, J, UsedNames(text))
  PROVE  ReturnEdges(I, Alone(f, text)) = ReturnEdges(J, Alone(f, text))
<1> DEFINE one(K, t)    == IF Cardinality(Named(K, t)) = 1 THEN Named(K, t) ELSE {}
           only(K, ts)  == UNION {one(K, t) : t \in ts}
           edges(K, d)  == {Node(f, text, d)} \X {"returns"} \X (only(K, d.returns) \ {Node(f, text, d)})
           callables    == {d \in text.defs : d.kind \in CallKinds}
<1>1. \A d \in text.defs : d.returns \subseteq UsedNames(text)
  BY DEF UsedNames
<1>2. \A t \in UsedNames(text) : Named(I, t) = Named(J, t)
  BY NamedAlike
<1>3. \A t \in UsedNames(text) : one(I, t) = one(J, t)
  BY <1>2
<1>4. \A K : ReturnEdges(K, Alone(f, text)) = UNION {edges(K, d) : d \in callables}
  BY DEF ReturnEdges, Alone
<1> HIDE DEF one
<1>5. \A d \in text.defs : only(I, d.returns) = only(J, d.returns)
  BY <1>1, <1>3
<1> HIDE DEF only
<1>6. \A d \in callables : edges(I, d) = edges(J, d)
  BY <1>5
<1> HIDE DEF edges
<1>7. UNION {edges(I, d) : d \in callables} = UNION {edges(J, d) : d \in callables}
  BY <1>6
<1> QED BY <1>4, <1>7

\* So are the files that it imports.
LEMMA FileEdgesAlike ==
  ASSUME NEW f, NEW text, NEW a, NEW b,
         ({i.module : i \in text.imports} \union {e[2] : e \in text.aliases}) \intersect a
           = ({i.module : i \in text.imports} \union {e[2] : e \in text.aliases}) \intersect b
  PROVE  FileEdges(Alone(f, text), a) = FileEdges(Alone(f, text), b)
<1> DEFINE modules == {i.module : i \in text.imports} \union {e[2] : e \in text.aliases}
<1>1. \A c : FileEdges(Alone(f, text), c)
                = {<<FileNode(f), "imports", FileNode(g)>> : g \in modules \intersect (c \ {f})}
  BY DEF FileEdges, Alone
<1> HIDE DEF modules
<1>2. modules \intersect (a \ {f}) = modules \intersect (b \ {f})
  BY DEF modules
<1> QED BY <1>1, <1>2

\* A text is bound to the same by what shows it the same and agrees on what it needs.
LEMMA TextEdgesAlike ==
  ASSUME NEW t \in TextIds, NEW f, NEW w, NEW v, ViewOf(w, t, w.active) = ViewOf(v, t, v.active),
         HoldsText(w.index, f, Content[t]), HoldsText(v.index, f, Content[t]),
         v.facts \in Facts, v.parents \in SUBSET (Types \X Types),
         AgreeAt(w.facts, v.facts, Content[t].snap.needs)
  PROVE  TextEdges(f, Content[t], w) = TextEdges(f, Content[t], v)
<1> DEFINE text    == Content[t]
           U       == UsedNames(text)
           modules == {i.module : i \in text.imports} \union {e[2] : e \in text.aliases}
           own     == [g \in {f} |-> text.snap]
           call(z, u) == CallEdges(z.index, f, text, u, z.facts, own, z.parents, z.reexports[2])
           calls(z)   == UNION {call(z, u) : u \in text.uses}
<1>1. /\ Alike(w.index, v.index, U)
      /\ SamePassed(w.reexports[1], v.reexports[1], U) /\ SamePassed(w.reexports[2], v.reexports[2], U)
      /\ modules \intersect w.active = modules \intersect v.active
      /\ (\E u \in text.uses : u.form \in {"member", "attribute"}) => w.parents = v.parents
  BY ViewAlike
<1>2. HasOwn(w.index, f, text)
  BY DEF HoldsText, HasOwn
<1>3. \A u \in text.uses : u.name \in U
  BY DEF UsedNames
<1>4. ASSUME NEW u \in text.uses PROVE call(w, u) = call(v, u)
  <2>1. u.form \in {"member", "attribute"} => w.parents = v.parents
    BY <1>1
  <2> HIDE DEF own
  <2>2. SameCalls(t, u, f, w.index, w.reexports[2], w.facts, w.parents, v.index, v.reexports[2], v.facts, v.parents, own)
    BY <1>1, <1>2, <2>1, CallEdgesAlike
  <2> QED BY <2>2 DEF SameCalls
<1>5. \A z : TextEdges(f, text, z)
               = ImportsOf(z.index, Alone(f, text), {}) \union ImportsOf(z.index, Alone(f, text), z.reexports[1])
                   \union calls(z) \union ContainsEdges(z.index, Alone(f, text)) \union FileEdges(Alone(f, text), z.active)
                   \union ReturnEdges(z.index, Alone(f, text))
  BY DEF TextEdges
<1> HIDE DEF call
<1>6. calls(w) = calls(v)
  BY <1>4
<1>7. ImportsOf(w.index, Alone(f, text), {}) = ImportsOf(v.index, Alone(f, text), {})
  <2>1. SamePassed({}, {}, U)
    BY DEF SamePassed
  <2> QED BY <1>1, <2>1, ImportsAlike
<1>8. ImportsOf(w.index, Alone(f, text), w.reexports[1]) = ImportsOf(v.index, Alone(f, text), v.reexports[1])
  BY <1>1, ImportsAlike
<1>9. ContainsEdges(w.index, Alone(f, text)) = ContainsEdges(v.index, Alone(f, text))
  BY <1>1, ContainsAlike
<1>10. FileEdges(Alone(f, text), w.active) = FileEdges(Alone(f, text), v.active)
  BY <1>1, FileEdgesAlike
<1>11. ReturnEdges(w.index, Alone(f, text)) = ReturnEdges(v.index, Alone(f, text))
  BY <1>1, ReturnsAlike
<1> HIDE DEF calls
<1> QED BY <1>5, <1>6, <1>7, <1>8, <1>9, <1>10, <1>11

-----------------------------------------------------------------------------
(* The edges of a batch are those of its texts. *)

\* A text of a batch imports what it imports alone.
LEMMA ImportsOwn ==
  ASSUME NEW I, NEW texts, NEW r, NEW f \in DOMAIN texts
  PROVE  OwnEdges(ImportsOf(I, texts, r), f) = ImportsOf(I, Alone(f, texts[f]), r)
<1> DEFINE from(g) == {n \in UNION {SelectImport(I, g, i, r) : i \in texts[g].imports} : PathOf(n) # g}
           edges(g) == {<<FileNode(g), "imports_from", n>> : n \in from(g)}
<1>1. ImportsOf(I, texts, r) = UNION {edges(g) : g \in DOMAIN texts}
  BY DEF ImportsOf
<1>2. ImportsOf(I, Alone(f, texts[f]), r) = edges(f)
  BY DEF ImportsOf, Alone
<1> HIDE DEF from
<1>3. \A g : \A e \in edges(g) : PathOf(e[1]) = g
  BY DEF FileNode, PathOf
<1> HIDE DEF edges
<1> QED BY <1>1, <1>2, <1>3 DEF OwnEdges

\* So it does the files of modules.
LEMMA FileEdgesOwn ==
  ASSUME NEW texts, NEW active, NEW f \in DOMAIN texts
  PROVE  OwnEdges(FileEdges(texts, active), f) = FileEdges(Alone(f, texts[f]), active)
<1> DEFINE modules(g) == ({i.module : i \in texts[g].imports} \union {a[2] : a \in texts[g].aliases}) \intersect (active \ {g})
           edges(g) == {<<FileNode(g), "imports", FileNode(h)>> : h \in modules(g)}
<1>1. FileEdges(texts, active) = UNION {edges(g) : g \in DOMAIN texts}
  BY DEF FileEdges
<1>2. FileEdges(Alone(f, texts[f]), active) = edges(f)
  BY DEF FileEdges, Alone
<1> HIDE DEF modules
<1>3. \A g : \A e \in edges(g) : PathOf(e[1]) = g
  BY DEF FileNode, PathOf
<1> HIDE DEF edges
<1> QED BY <1>1, <1>2, <1>3 DEF OwnEdges

\* So do its callables return what they return alone.
LEMMA ReturnsOwn ==
  ASSUME NEW I, NEW texts, NEW f \in DOMAIN texts
  PROVE  OwnEdges(ReturnEdges(I, texts), f) = ReturnEdges(I, Alone(f, texts[f]))
<1> DEFINE only(ts) == UNION {IF Cardinality(Named(I, t)) = 1 THEN Named(I, t) ELSE {} : t \in ts}
           at(g, d) == {Node(g, texts[g], d)} \X {"returns"} \X (only(d.returns) \ {Node(g, texts[g], d)})
           edges(g) == UNION {at(g, d) : d \in {d \in texts[g].defs : d.kind \in CallKinds}}
<1>1. ReturnEdges(I, texts) = UNION {edges(g) : g \in DOMAIN texts}
  BY DEF ReturnEdges
<1>2. ReturnEdges(I, Alone(f, texts[f])) = edges(f)
  BY DEF ReturnEdges, Alone
<1> HIDE DEF only
<1>3. \A g, d : \A e \in at(g, d) : PathOf(e[1]) = g
  BY DEF Node, PathOf
<1> HIDE DEF at
<1>4. \A g : \A e \in edges(g) : PathOf(e[1]) = g
  BY <1>3
<1> HIDE DEF edges
<1> QED BY <1>1, <1>2, <1>4 DEF OwnEdges

\* A use is the start of the edges that it yields.
LEMMA CallsStart ==
  ASSUME NEW I, NEW f, NEW text, NEW u, NEW facts, NEW own, NEW parents, NEW r,
         NEW e \in CallEdges(I, f, text, u, facts, own, parents, r)
  PROVE  PathOf(e[1]) = f
<1> DEFINE src == <<f, u.by[1], u.by[2]>>
<1>1. \A types : \A d \in MemberEdges(I, f, src, u.name, types, parents) : d[1] = src
  BY DEF MemberEdges
<1>2. e[1] = src
  <2> HIDE DEF src
  <2>1. CASE u.form \in {"bare", "path"}
    BY <2>1 DEF CallEdges, src
  <2>2. CASE u.form = "member"
    <3>1. \/ e \in {src} \X {"calls"} \X ModuleCall(I, f, text, u, r)
          \/ e = <<src, "calls", External(u.recv[2], u.name)>>
          \/ e \in MemberEdges(I, f, src, u.name, Concrete(ReceiverFact(facts, own, parents, u.by[1], u.recv)), parents)
      BY <2>2 DEF CallEdges, src
    <3> QED BY <1>1, <3>1
  <2>3. CASE u.form = "attribute"
    BY <2>3 DEF CallEdges, src
  <2>4. CASE u.form = "callback"
    BY <2>4 DEF CallEdges, src
  <2>5. CASE u.form \notin {"bare", "path", "member", "attribute", "callback"}
    BY <2>5 DEF CallEdges
  <2> QED BY <2>1, <2>2, <2>3, <2>4, <2>5
<1> QED BY <1>2 DEF PathOf

\* What a text contains, but for what it lends to the types of other files.
LEMMA ContainsOwn ==
  ASSUME NEW I, NEW texts, NEW f \in DOMAIN texts
  PROVE  {e \in OwnEdges(ContainsEdges(I, texts), f) : ~ Lent(e)}
           = {e \in OwnEdges(ContainsEdges(I, Alone(f, texts[f])), f) : ~ Lent(e)}
<1> DEFINE top(g)   == {<<FileNode(g), "contains", Node(g, texts[g], d)>> : d \in texts[g].defs}
           held(n)  == <<I[n].parent, "contains", n>>
           inner(S) == {held(n) : n \in {n \in DOMAIN I : PathOf(n) \in S /\ I[n].parent # NoParent}}
<1>1. ContainsEdges(I, texts) = (UNION {top(g) : g \in DOMAIN texts}) \union inner(DOMAIN texts)
  BY DEF ContainsEdges
<1>2. ContainsEdges(I, Alone(f, texts[f])) = top(f) \union inner({f})
  <2> DEFINE alone == Alone(f, texts[f])
  <2>1. DOMAIN alone = {f} /\ alone[f] = texts[f]
    BY DEF Alone
  <2> HIDE DEF alone
  <2>2. ContainsEdges(I, alone)
          = (UNION {{<<FileNode(g), "contains", Node(g, alone[g], d)>> : d \in alone[g].defs} : g \in DOMAIN alone})
              \union inner(DOMAIN alone)
    BY DEF ContainsEdges
  <2> HIDE DEF inner
  <2> QED BY <2>1, <2>2 DEF alone
<1>3. \A g : \A e \in top(g) : PathOf(e[1]) = g
  BY DEF FileNode, PathOf
<1> HIDE DEF top
<1>4. \A n : held(n)[1] = I[n].parent /\ held(n)[2] = "contains" /\ held(n)[3] = n
  OBVIOUS
<1> HIDE DEF held
<1>5. \A e \in inner(DOMAIN texts) : PathOf(e[1]) = f /\ ~ Lent(e) => e \in inner({f})
  BY <1>4 DEF Lent
<1>6. inner({f}) \subseteq inner(DOMAIN texts)
  OBVIOUS
<1> HIDE DEF inner
<1> DEFINE all   == ContainsEdges(I, texts)
           alone == ContainsEdges(I, Alone(f, texts[f]))
<1>7. alone \subseteq all
  BY <1>1, <1>2, <1>6
<1>8. \A e \in all : PathOf(e[1]) = f /\ ~ Lent(e) => e \in alone
  BY <1>1, <1>2, <1>3, <1>5
<1> HIDE DEF all, alone
<1> QED BY <1>7, <1>8 DEF OwnEdges, all, alone

\* The edges of a file, but for those that it lends and is lent.
Keeps(edges, f) == {e \in OwnEdges(edges, f) : ~ Lent(e)}

\* What an extraction binds the texts of its batch to.
Resolution(x, facts, active) ==
  [index |-> x.index, reexports |-> x.reexports, parents |-> x.parents, facts |-> facts, active |-> active]

\* The passes over a batch make what each text is bound to.
LEMMA LinkedOwn ==
  ASSUME NEW texts, NEW active, NEW index, NEW passed, NEW facts, NEW parents, NEW f \in DOMAIN texts,
         NEW x, x = Linked(texts, active, index, ImportEdges(index, texts), passed, facts, parents)
  PROVE  Keeps(x.edges, f) = Keeps(TextEdges(f, texts[f], Resolution(x, facts, active)), f)
<1> DEFINE alone   == Alone(f, texts[f])
           first   == ImportsOf(index, texts, {})
           again   == ImportsOf(index, texts, Reexported(texts, first))
           call(g, u) == CallEdges(index, g, texts[g], u, facts, [h \in {g} |-> texts[g].snap], parents, passed)
           called(g)  == UNION {call(g, u) : u \in texts[g].uses}
           calls   == UNION {called(g) : g \in DOMAIN texts}
           contains(ts) == ContainsEdges(index, ts)
           files(ts)    == FileEdges(ts, active)
           blocks  == ImplementsEdges(index, texts)
           returns(ts)  == ReturnEdges(index, ts)
           edges   == (first \union again) \union calls \union contains(texts) \union files(texts) \union blocks
                        \union returns(texts)
           own     == ImportsOf(index, alone, {}) \union ImportsOf(index, alone, Reexported(texts, first)) \union called(f)
                        \union contains(alone) \union files(alone) \union returns(alone)
<1>1. ImportEdges(index, texts) = first \union again
  BY DEF ImportEdges
<1>2. x = GraphOf(index, edges, DOMAIN texts, parents, <<Reexported(texts, first), passed>>)
  <2>1. x = GraphOf(index, ImportEdges(index, texts) \union calls \union contains(texts) \union files(texts) \union blocks
                             \union returns(texts), DOMAIN texts, parents, <<Reexported(texts, first), passed>>)
    BY DEF Linked
  <2> QED BY <1>1, <2>1
<1>3. /\ x.edges = edges /\ x.index = index /\ x.parents = parents
      /\ x.reexports[1] = Reexported(texts, first) /\ x.reexports[2] = passed
  <2> HIDE DEF edges, first
  <2> QED BY <1>2 DEF GraphOf
<1> DEFINE w == Resolution(x, facts, active)
<1>4. /\ w.index = index /\ w.reexports[1] = Reexported(texts, first) /\ w.reexports[2] = passed
      /\ w.parents = parents /\ w.facts = facts /\ w.active = active
  <2> HIDE DEF first
  <2> QED BY <1>3 DEF Resolution
<1>5. TextEdges(f, texts[f], w) = own
  <2> HIDE DEF w
  <2>1. TextEdges(f, texts[f], w)
          = ImportsOf(w.index, alone, {}) \union ImportsOf(w.index, alone, w.reexports[1])
              \union (UNION {CallEdges(w.index, f, texts[f], u, w.facts, [g \in {f} |-> texts[f].snap], w.parents, w.reexports[2])
                               : u \in texts[f].uses})
              \union ContainsEdges(w.index, alone) \union FileEdges(alone, w.active) \union ReturnEdges(w.index, alone)
    BY DEF TextEdges
  <2> QED BY <1>4, <2>1
<1>6. OwnEdges(first, f) = ImportsOf(index, alone, {}) /\ OwnEdges(again, f) = ImportsOf(index, alone, Reexported(texts, first))
  BY ImportsOwn
<1>7. OwnEdges(calls, f) = called(f)
  <2>1. \A g \in DOMAIN texts : \A e \in called(g) : PathOf(e[1]) = g
    BY CallsStart
  <2> HIDE DEF called
  <2> QED BY <2>1 DEF OwnEdges
<1>8. {e \in OwnEdges(contains(texts), f) : ~ Lent(e)} = {e \in OwnEdges(contains(alone), f) : ~ Lent(e)}
  BY ContainsOwn
<1>9. OwnEdges(files(texts), f) = files(alone)
  BY FileEdgesOwn
<1>10. OwnEdges(returns(texts), f) = returns(alone)
  BY ReturnsOwn
<1>11. \A e \in blocks : Lent(e)
  BY DEF ImplementsEdges, Lent
<1>12. \A es : \A e : e \in OwnEdges(es, f) <=> e \in es /\ PathOf(e[1]) = f
  BY DEF OwnEdges
<1> HIDE DEF first, again, called, calls, contains, files, blocks, returns, alone, w
<1>13. Keeps(edges, f) = Keeps(own, f)
  BY <1>6, <1>7, <1>8, <1>9, <1>10, <1>11, <1>12 DEF Keeps
<1> HIDE DEF edges, own
<1> QED BY <1>3, <1>5, <1>13 DEF w

\* The type of an impl block depends on the kinds of symbols alone.
LEMMA OwnerByKind ==
  ASSUME NEW I, NEW J, DOMAIN I = DOMAIN J, \A n \in DOMAIN I : I[n].kind = J[n].kind, NEW f, NEW type
  PROVE  SelectOwnerType(I, f, type) = SelectOwnerType(J, f, type)
<1>1. Named(I, type) = Named(J, type)
  BY DEF Named
<1>2. \A n \in Named(I, type) : I[n].kind = J[n].kind
  BY NamedIn
<1>3. {n \in Named(I, type) : I[n].kind \in TypeKinds} = {n \in Named(J, type) : J[n].kind \in TypeKinds}
  BY <1>1, <1>2
<1> QED BY <1>3 DEF SelectOwnerType

\* The index of a batch holds its texts.
LEMMA IndexHolds ==
  ASSUME NEW texts, NEW context, \A n \in DOMAIN context : PathOf(n) \notin DOMAIN texts, NEW f \in DOMAIN texts
  PROVE  HoldsText(WithParents(Over(Symbols(texts), context), texts), f, texts[f])
<1> DEFINE nodes      == Over(Symbols(texts), context)
           parents(n) == UNION {ParentNode(nodes, texts, PathOf(n), d) : d \in DefsOf(texts, n)}
           held       == {n \in DOMAIN nodes : PathOf(n) \in DOMAIN texts /\ parents(n) # {}}
           above(n)   == CHOOSE p \in parents(n) : TRUE
           raised     == [n \in held |-> [nodes[n] EXCEPT !.parent = above(n)]]
           index      == WithParents(Over(Symbols(texts), context), texts)
           own        == {Node(f, texts[f], d) : d \in texts[f].defs}
<1>1. index = Over(raised, nodes)
  BY DEF WithParents
<1>2. /\ DOMAIN nodes = DOMAIN Symbols(texts) \union DOMAIN context
      /\ \A n \in DOMAIN Symbols(texts) : nodes[n] = Symbols(texts)[n]
  BY DEF Over
<1>3. \A n \in DOMAIN Symbols(texts) : /\ PathOf(n) \in DOMAIN texts
                                      /\ \E k : Symbols(texts)[n] = [kind |-> k, parent |-> NoParent]
  BY SymbolsFacts
<1>4. {n \in DOMAIN Symbols(texts) : PathOf(n) = f} = own
  <2> DEFINE ids(g) == {Node(g, texts[g], d) : d \in texts[g].defs}
  <2>1. DOMAIN Symbols(texts) = UNION {ids(g) : g \in DOMAIN texts}
    BY DEF Symbols
  <2>2. \A g : \A n \in ids(g) : PathOf(n) = g
    BY DEF Node, PathOf
  <2>3. own = ids(f)
    OBVIOUS
  <2> HIDE DEF ids, own
  <2> QED BY <2>1, <2>2, <2>3
<1>5. {n \in DOMAIN nodes : PathOf(n) = f} = own
  BY <1>2, <1>4
<1>6. \A n : PathOf(n) = f => parents(n) = UNION {ParentNode(nodes, Alone(f, texts[f]), f, d) : d \in DefsOf(Alone(f, texts[f]), n)}
  <2> TAKE n
  <2> HAVE PathOf(n) = f
  <2>1. DefsOf(texts, n) = DefsOf(Alone(f, texts[f]), n)
    BY DEF DefsOf, Alone
  <2>2. \A d : ParentNode(nodes, texts, PathOf(n), d) = ParentNode(nodes, Alone(f, texts[f]), f, d)
    BY DEF ParentNode, Alone
  <2> HIDE DEF nodes
  <2> QED BY <2>1, <2>2
<1> DEFINE mine(K, n) == UNION {ParentNode(K, Alone(f, texts[f]), f, d) : d \in DefsOf(Alone(f, texts[f]), n)}
<1>7. \A K, n : ParentIn(K, f, texts[f], n) = IF mine(K, n) # {} THEN CHOOSE p \in mine(K, n) : TRUE ELSE NoParent
  BY DEF ParentIn
<1>8. DOMAIN index = DOMAIN nodes /\ \A n \in DOMAIN nodes : index[n].kind = nodes[n].kind
  <2>1. DOMAIN index = DOMAIN Symbols(texts) \union DOMAIN context
    BY IndexKinds
  <2>2. \A n \in DOMAIN Symbols(texts) : index[n].kind = Symbols(texts)[n].kind
    BY IndexKinds
  <2>3. \A n \in DOMAIN context \ DOMAIN Symbols(texts) : index[n] = context[n]
    BY IndexKinds
  <2>4. \A n \in DOMAIN context \ DOMAIN Symbols(texts) : nodes[n] = context[n]
    BY DEF Over
  <2> HIDE DEF index, nodes
  <2> QED BY <1>2, <2>1, <2>2, <2>3, <2>4
<1>9. \A d : ParentNode(index, Alone(f, texts[f]), f, d) = ParentNode(nodes, Alone(f, texts[f]), f, d)
  <2> TAKE d
  <2> HIDE DEF index, nodes
  <2>1. SelectOwnerType(index, f, d.impl) = SelectOwnerType(nodes, f, d.impl)
    BY <1>8, OwnerByKind
  <2> QED BY <2>1 DEF ParentNode
<1>10. \A n : mine(index, n) = mine(nodes, n)
  <2> TAKE n
  <2> HIDE DEF index, nodes
  <2> QED BY <1>9
<1>11. ASSUME NEW n \in own
       PROVE  index[n].parent = ParentIn(index, f, texts[f], n)
  <2>1. n \in DOMAIN nodes /\ PathOf(n) = f /\ n \in DOMAIN Symbols(texts)
    BY <1>4, <1>5
  <2>2. PICK k : nodes[n] = [kind |-> k, parent |-> NoParent]
    BY <1>2, <1>3, <2>1
  <2>3. parents(n) = mine(index, n)
    <3> HIDE DEF index, nodes, mine
    <3> QED BY <1>6, <1>10, <2>1 DEF mine
  <2>4. ParentIn(index, f, texts[f], n) = IF parents(n) # {} THEN above(n) ELSE NoParent
    <3> HIDE DEF mine, index
    <3> QED BY <1>7, <2>3
  <2>5. n \in held <=> parents(n) # {}
    BY <2>1
  <2>6. index[n] = IF n \in held THEN raised[n] ELSE nodes[n]
    <3>1. held \subseteq DOMAIN nodes /\ DOMAIN raised = held
      OBVIOUS
    <3> HIDE DEF index, nodes, held, raised
    <3> QED BY <1>1, <2>1, <3>1 DEF Over
  <2>7. n \in held => raised[n] = [nodes[n] EXCEPT !.parent = above(n)]
    <3> HIDE DEF held, nodes, above
    <3> QED OBVIOUS
  <2> HIDE DEF index, nodes, held, raised, parents, above
  <2>8. [nodes[n] EXCEPT !.parent = above(n)].parent = above(n)
    BY <2>2
  <2>9. nodes[n].parent = NoParent
    BY <2>2
  <2> QED BY <2>4, <2>5, <2>6, <2>7, <2>8, <2>9
<1>12. {n \in DOMAIN index : PathOf(n) = f} = own
  <2> HIDE DEF index, nodes, own
  <2> QED BY <1>5, <1>8
<1> HIDE DEF index, nodes, own
<1>13. HoldsText(index, f, texts[f])
  <2>1. {n \in DOMAIN index : PathOf(n) = f} = {Node(f, texts[f], d) : d \in texts[f].defs}
    BY <1>12 DEF own
  <2>2. \A n \in DOMAIN index : PathOf(n) = f => index[n].parent = ParentIn(index, f, texts[f], n)
    BY <1>11, <1>12
  <2> QED BY <2>1, <2>2 DEF HoldsText
<1> QED BY <1>13 DEF index

\* The facts that an extraction knows: those of the batch, joined with those it is given.
SnapsOf(texts) == [f \in DOMAIN texts |-> texts[f].snap]
Known(texts, typeContext) ==
  LET fresh == ProjectOf(SnapsOf(texts))
  IN Over([k \in DOMAIN typeContext |-> typeContext[k] \union fresh[k]], fresh)

\* An extraction makes what a text is bound to by some resolution, which holds the text.
Resolves(x, w, f, text) ==
  /\ Keeps(x.edges, f) = Keeps(TextEdges(f, text, w), f)
  /\ HoldsText(w.index, f, text)
  /\ w.index = x.index /\ w.reexports = x.reexports /\ w.parents = x.parents

\* Its own index, with the facts that it knows, is such a resolution.
LEMMA ExtractResolves ==
  ASSUME NEW texts, NEW context, \A n \in DOMAIN context : PathOf(n) \notin DOMAIN texts,
         NEW typeContext, NEW typeParents, NEW active, NEW f \in DOMAIN texts
  PROVE  Resolves(Extract(texts, context, typeContext, typeParents, active),
                  Resolution(Extract(texts, context, typeContext, typeParents, active), Known(texts, typeContext), active),
                  f, texts[f])
<1> DEFINE x == Extract(texts, context, typeContext, typeParents, active)
           index   == WithParents(Over(Symbols(texts), context), texts)
           known   == Known(texts, typeContext)
           above   == typeParents \union Parents(SnapsOf(texts))
           imports == ImportEdges(index, texts)
           passed  == Reexported(texts, imports)
<1>1. x = Resolved(texts, active, index, known, above)
  BY DEF Extract, Known, SnapsOf
<1>2. HoldsText(index, f, texts[f])
  BY IndexHolds
<1> HIDE DEF index, known, above, x
<1>3. x = Linked(texts, active, index, imports, passed, known, above)
  BY <1>1 DEF Resolved
<1>4. x.index = index /\ x.parents = above
  <2>1. PICK edges, reexports : x = GraphOf(index, edges, DOMAIN texts, above, reexports)
    BY <1>3 DEF Linked
  <2> QED BY <2>1 DEF GraphOf
<1>5. Keeps(x.edges, f) = Keeps(TextEdges(f, texts[f], Resolution(x, known, active)), f)
  <2> HIDE DEF passed
  <2> QED BY <1>3, LinkedOwn
<1> DEFINE w == Resolution(x, known, active)
<1>6. w.index = x.index /\ w.reexports = x.reexports /\ w.parents = x.parents
  BY DEF Resolution
<1>7. Resolves(x, w, f, texts[f])
  <2> HIDE DEF w
  <2> QED BY <1>2, <1>4, <1>5, <1>6 DEF Resolves, w
<1> HIDE DEF w
<1> QED BY <1>7 DEF x, known, w

\* Its parents are those that it is given and those of the batch.
LEMMA ExtractParents ==
  ASSUME NEW texts, NEW context, NEW typeContext, NEW typeParents, NEW active
  PROVE  Extract(texts, context, typeContext, typeParents, active).parents = typeParents \union Parents(SnapsOf(texts))
<1> DEFINE x     == Extract(texts, context, typeContext, typeParents, active)
           index == WithParents(Over(Symbols(texts), context), texts)
           above == typeParents \union Parents(SnapsOf(texts))
<1>1. x = Resolved(texts, active, index, Known(texts, typeContext), above)
  BY DEF Extract, Known, SnapsOf
<1> HIDE DEF index, above, x
<1>2. PICK edges, reexports : x = GraphOf(index, edges, DOMAIN texts, above, reexports)
  BY <1>1 DEF Resolved, Linked
<1>3. x.parents = above
  BY <1>2 DEF GraphOf
<1> QED BY <1>3 DEF x, above

\* The facts of some texts are below those of more.
LEMMA ProjectGrows ==
  ASSUME NEW some, IsFactsOf(some), NEW all, IsFactsOf(all),
         DOMAIN some \subseteq DOMAIN all, \A f \in DOMAIN some : some[f] = all[f]
  PROVE  /\ ProjectOf(some) \in Facts /\ ProjectOf(all) \in Facts
         /\ \A k \in FactKey : ProjectOf(some)[k] \subseteq ProjectOf(all)[k]
<1>1. /\ IsFiniteSet(Reexports(some)) /\ IsFiniteSet(Reexports(all))
      /\ Reexports(some) \in FactEdges /\ Reexports(all) \in FactEdges
  BY PaddedFacts, ReexportsTyped
<1>2. ProjectOf(some) \in Facts /\ ProjectOf(all) \in Facts
  BY <1>1, ProjectFacts
<1>3. \A k \in FactKey : Direct(some, k) \subseteq Direct(all, k)
  BY DEF Direct
<1>4. Reexports(some) \subseteq Reexports(all)
  BY DEF Reexports
<1>5. /\ \A k \in FactKey : Direct(all, k) \subseteq ProjectOf(all)[k]
      /\ \A r \in Reexports(all) : ProjectOf(all)[r[1]] \subseteq ProjectOf(all)[r[2]]
  BY <1>1, ProjectFacts
<1>6. \A k \in FactKey : Direct(some, k) \subseteq ProjectOf(all)[k]
  BY <1>3, <1>5
<1>7. \A r \in Reexports(some) : ProjectOf(all)[r[1]] \subseteq ProjectOf(all)[r[2]]
  BY <1>4, <1>5
<1> DEFINE q == ProjectOf(all)
<1>8. q \in Facts /\ (\A k \in FactKey : Direct(some, k) \subseteq q[k])
      /\ \A r \in Reexports(some) : q[r[1]] \subseteq q[r[2]]
  BY <1>2, <1>6, <1>7
<1> HIDE DEF q
<1>9. \A k \in FactKey : ProjectOf(some)[k] \subseteq q[k]
  BY <1>1, <1>8, ProjectFacts
<1> QED BY <1>2, <1>9 DEF q

\* An extraction knows what the project says, wherever its context does.
LEMMA KnownAgrees ==
  ASSUME NEW texts, IsFactsOf(SnapsOf(texts)), NEW all, IsFactsOf(all),
         DOMAIN texts \subseteq DOMAIN all, \A f \in DOMAIN texts : texts[f].snap = all[f],
         NEW context, DOMAIN context \subseteq FactKey, \A k \in DOMAIN context : context[k] = ProjectOf(all)[k]
  PROVE  /\ DOMAIN Known(texts, context) = FactKey
         /\ \A k \in DOMAIN context : Known(texts, context)[k] = ProjectOf(all)[k]
<1> DEFINE some  == SnapsOf(texts)
           fresh == ProjectOf(some)
           top   == [k \in DOMAIN context |-> context[k] \union fresh[k]]
<1>1. DOMAIN some = DOMAIN texts /\ \A f \in DOMAIN some : some[f] = all[f]
  BY DEF SnapsOf
<1> HIDE DEF some
<1>2. /\ fresh \in Facts
      /\ \A k \in FactKey : fresh[k] \subseteq ProjectOf(all)[k]
  BY <1>1, ProjectGrows DEF some
<1>3. Known(texts, context) = Over(top, fresh)
  BY DEF Known, some
<1> HIDE DEF fresh
<1>4. DOMAIN fresh = FactKey
  BY <1>2 DEF Facts
<1>5. DOMAIN top = DOMAIN context /\ \A k \in DOMAIN context : top[k] = ProjectOf(all)[k]
  BY <1>2
<1> HIDE DEF top
<1> QED BY <1>3, <1>4, <1>5 DEF Over

\* The facts of a build from nothing are those of what was read.
FactsRead(rd) == [f \in DOMAIN rd |-> Content[rd[f]].snap]

\* A build from nothing binds each file by such a resolution, which knows the project.
CleanBinds(rd, f, w) ==
  /\ Resolves(Clean(rd), w, f, Content[rd[f]])
  /\ w.facts \in Facts /\ w.parents \in SUBSET (Types \X Types) /\ w.active = DOMAIN rd
  /\ \A k \in FactKey : w.facts[k] = ProjectOf(FactsRead(rd))[k]

\* There is one if all that was read is there.
LEMMA CleanResolves ==
  ASSUME NEW rd, DOMAIN rd \subseteq Files, \A f \in DOMAIN rd : rd[f] \in TextIds, NEW f \in DOMAIN rd
  PROVE  \E w : CleanBinds(rd, f, w)
<1> DEFINE texts == Texts(DOMAIN rd, rd)
           facts == FactsRead(rd)
           x     == Clean(rd)
           known == Known(texts, ProjectOf(facts))
           w     == Resolution(x, known, DOMAIN rd)
<1>1. {g \in DOMAIN rd : rd[g] # Absent} = DOMAIN rd
  <2>1. Absent \notin TextIds
    BY ScanAssumption
  <2> QED BY <2>1
<1>2. DOMAIN texts = DOMAIN rd /\ \A g \in DOMAIN rd : texts[g] = Content[rd[g]]
  BY DEF Texts
<1>3. SnapsOf(texts) = facts
  <2> HIDE DEF texts
  <2> QED BY <1>2 DEF SnapsOf, FactsRead
<1>4. x = Extract(texts, Empty, ProjectOf(facts), Parents(facts), DOMAIN rd)
  <2>1. [g \in DOMAIN rd |-> texts[g].snap] = facts
    BY <1>2, <1>3 DEF SnapsOf
  <2>2. x = LET files == DOMAIN rd
                snaps == [g \in files |-> texts[g].snap]
            IN Extract(texts, Empty, ProjectOf(snaps), Parents(snaps), DOMAIN rd)
    BY <1>1 DEF Clean
  <2> HIDE DEF texts, facts, x
  <2> QED BY <2>1, <2>2
<1>5. IsFactsOf(facts)
  BY DEF IsFactsOf, FactsRead, Snaps
<1>6. DOMAIN Empty = {}
  BY DEF Empty
<1>7. ProjectOf(facts) \in Facts
  BY <1>5, ProjectGrows
<1>8. /\ DOMAIN known = FactKey
      /\ \A k \in FactKey : known[k] = ProjectOf(facts)[k]
  <2> DEFINE top == ProjectOf(facts)
  <2>1. DOMAIN top = FactKey
    BY <1>7 DEF Facts
  <2>2. \A k \in DOMAIN top : top[k] = ProjectOf(facts)[k]
    OBVIOUS
  <2>3. DOMAIN texts \subseteq DOMAIN facts /\ \A g \in DOMAIN texts : texts[g].snap = facts[g]
    BY <1>2 DEF FactsRead
  <2>4. IsFactsOf(SnapsOf(texts))
    BY <1>3, <1>5
  <2> HIDE DEF top, texts, facts
  <2> QED BY <1>5, <2>1, <2>2, <2>3, <2>4, KnownAgrees DEF top
<1>9. known \in Facts
  <2> DEFINE fresh == ProjectOf(facts)
             both  == [k \in DOMAIN fresh |-> fresh[k] \union fresh[k]]
  <2>1. known = Over(both, fresh)
    BY <1>3 DEF Known
  <2> HIDE DEF known, fresh
  <2>2. fresh \in Facts /\ \A k \in FactKey : known[k] = fresh[k]
    BY <1>7, <1>8 DEF fresh
  <2>3. known = [k \in DOMAIN both \union DOMAIN fresh |-> IF k \in DOMAIN both THEN both[k] ELSE fresh[k]]
    BY <2>1 DEF Over
  <2>4. DOMAIN both = FactKey /\ DOMAIN fresh = FactKey
    BY <2>2 DEF Facts
  <2>5. \A k \in FactKey : fresh[k] \in Fact
    BY <2>2 DEF Facts
  <2> HIDE DEF both
  <2>6. known = [k \in FactKey |-> known[k]]
    BY <2>3, <2>4
  <2> QED BY <2>2, <2>5, <2>6 DEF Facts
<1>10. Parents(facts) \in SUBSET (Types \X Types)
  <2>1. \A g \in DOMAIN facts : facts[g].parents \in SUBSET (Types \X Types)
    BY <1>2, ScanAssumption DEF FactsRead, Text, Snapshot
  <2> HIDE DEF facts
  <2> QED BY <2>1 DEF Parents
<1>11. \A n \in DOMAIN Empty : PathOf(n) \notin DOMAIN texts
  BY <1>6
<1> HIDE DEF texts, facts, x, known, w
<1>12. Resolves(x, w, f, texts[f]) /\ x.parents = Parents(facts) \union Parents(SnapsOf(texts))
  <2> DEFINE y == Extract(texts, Empty, ProjectOf(facts), Parents(facts), DOMAIN rd)
  <2>1. f \in DOMAIN texts
    BY <1>2
  <2>2. Resolves(y, Resolution(y, Known(texts, ProjectOf(facts)), DOMAIN rd), f, texts[f])
    BY <1>11, <2>1, ExtractResolves
  <2>3. y.parents = Parents(facts) \union Parents(SnapsOf(texts))
    BY ExtractParents
  <2> HIDE DEF y
  <2> QED BY <1>4, <2>2, <2>3 DEF y, w, known
<1>13. w.facts = known /\ w.active = DOMAIN rd /\ w.parents = x.parents
  BY DEF w, Resolution
<1>14. CleanBinds(rd, f, w)
  BY <1>2, <1>3, <1>8, <1>9, <1>10, <1>12, <1>13 DEF CleanBinds, x, facts
<1> QED BY <1>14

\* A view is of the index, the re-exports and the parents alone.
LEMMA ViewOfParts ==
  ASSUME NEW x, NEW w, w.index = x.index, w.reexports = x.reexports, w.parents = x.parents, NEW t, NEW active
  PROVE  ViewOf(w, t, active) = ViewOf(x, t, active)
BY DEF ViewOf

\* The edges of a row are what the text was bound to, by facts that the project still
\* agrees with wherever the file needs them.
Bound(f, edges, t, vw, proj) ==
  \E w : /\ vw = ViewOf(w, t, w.active) /\ HoldsText(w.index, f, Content[t])
         /\ {e \in edges : ~ Lent(e)} = Keeps(TextEdges(f, Content[t], w), f)
         /\ AgreeAt(w.facts, proj, Content[t].snap.needs)

\* The rows have the facts of what was hashed; as long as nothing else was read, each
\* is bound so.
RowsBound(rws, rd, vw, proj, astray) ==
  /\ \A f \in DOMAIN rws : rws[f].hash \in TextIds /\ rws[f].facts = Content[rws[f].hash].snap
  /\ ~ astray => \A f \in DOMAIN rws : rd[f] = rws[f].hash /\ Bound(f, rws[f].edges, rd[f], vw[f], proj)

\* A row whose view is that of a build from nothing has the edges of one.
LEMMA RowIsClean ==
  ASSUME Joins(rows, project), RowsBound(rows, read, view, project, FALSE), DOMAIN read = DOMAIN rows,
         NEW f \in DOMAIN rows, view[f] = ViewOf(Clean(read), read[f], DOMAIN rows)
  PROVE  {e \in rows[f].edges : ~ Lent(e)} = Keeps(Clean(read).edges, f)
<1>1. /\ DOMAIN rows \subseteq Files /\ project = ProjectOf(FactsOf(rows))
      /\ \A g \in DOMAIN read : read[g] \in TextIds /\ rows[g].facts = Content[read[g]].snap
      /\ Bound(f, rows[f].edges, read[f], view[f], project)
  BY DEF Joins, RowsBound
<1>2. FactsRead(read) = FactsOf(rows)
  BY <1>1 DEF FactsRead, FactsOf
<1>3. PICK v : CleanBinds(read, f, v)
  BY <1>1, CleanResolves
<1>4. PICK w : /\ view[f] = ViewOf(w, read[f], w.active) /\ HoldsText(w.index, f, Content[read[f]])
               /\ {e \in rows[f].edges : ~ Lent(e)} = Keeps(TextEdges(f, Content[read[f]], w), f)
               /\ AgreeAt(w.facts, project, Content[read[f]].snap.needs)
  BY <1>1 DEF Bound
<1> DEFINE t     == read[f]
           clean == Clean(read)
<1>5. /\ Keeps(clean.edges, f) = Keeps(TextEdges(f, Content[t], v), f)
      /\ HoldsText(v.index, f, Content[t])
      /\ v.index = clean.index /\ v.reexports = clean.reexports /\ v.parents = clean.parents
      /\ v.facts \in Facts /\ v.parents \in SUBSET (Types \X Types) /\ v.active = DOMAIN rows
      /\ \A k \in FactKey : v.facts[k] = project[k]
  BY <1>1, <1>2, <1>3 DEF CleanBinds, Resolves
<1>6. t \in TextIds
  BY <1>1
<1> HIDE DEF t, clean
<1>7. ViewOf(v, t, v.active) = view[f]
  <2>1. ViewOf(v, t, v.active) = ViewOf(clean, t, v.active)
    BY <1>5, ViewOfParts
  <2> QED BY <1>5, <2>1 DEF t, clean
<1>8. AgreeAt(w.facts, v.facts, Content[t].snap.needs)
  BY <1>4, <1>5 DEF AgreeAt, t
<1>9. TextEdges(f, Content[t], w) = TextEdges(f, Content[t], v)
  <2>1. ViewOf(w, t, w.active) = ViewOf(v, t, v.active) /\ HoldsText(w.index, f, Content[t])
    BY <1>4, <1>7 DEF t
  <2> QED BY <1>5, <1>6, <1>8, <2>1, TextEdgesAlike
<1> QED BY <1>4, <1>5, <1>9 DEF t, clean

\* A plan of which the hashes go with the facts, and which extracts all files whose
\* needs it changes.
PlanBinds(plan) ==
  /\ PlanFits(plan) /\ PlanOfJoin(plan)
  /\ \A f \in plan.active : plan.hashes[f] \in TextIds /\ plan.facts[f] = Content[plan.hashes[f]].snap
  /\ \A f \in plan.active \ plan.dirty : AgreeAt(project, plan.project, rows[f].facts.needs)

\* Such is the plan of an operation.
LEMMA PlanBound ==
  ASSUME tree \in [Files -> TextIds \union {Absent}], Joins(rows, project),
         NEW astray, RowsBound(rows, read, view, project, astray),
         NEW dirty \in SUBSET OnDisk, NEW removed \in SUBSET DOMAIN rows
  PROVE  PlanBinds(PlanOf(dirty, removed, dirty \union (DOMAIN rows \ removed)))
<1> DEFINE active   == dirty \union (DOMAIN rows \ removed)
           fresh    == [f \in dirty |-> Content[tree[f]].snap]
           new      == NewFacts(rows, removed, fresh)
           promoted == Promotion(rows, project, dirty, removed, fresh)
           changed  == dirty \union removed
           plan     == PlanOf(dirty, removed, active)
<1>1. /\ plan.active = active /\ plan.dirty = dirty \union promoted.files
      /\ plan.facts = promoted.facts /\ plan.project = promoted.project
      /\ plan.hashes = [f \in active |-> IF f \in dirty THEN tree[f] ELSE rows[f].hash]
  BY DEF PlanOf
<1>2. promoted.facts = new /\ promoted.files = Affected(new, ChangedKeys(project, promoted.project), changed)
  BY DEF Promotion
<1>3. \A f \in dirty : tree[f] \in TextIds
  BY DEF OnDisk
<1>4. /\ DOMAIN new = active
      /\ \A f \in active : new[f] = IF f \in dirty THEN Content[tree[f]].snap ELSE rows[f].facts
  BY DEF NewFacts, Over
<1>5. PlanFits(plan) /\ PlanOfJoin(plan)
  BY OperationsFit, PlanJoins DEF Joins
<1> HIDE DEF plan, fresh, new, promoted
<1>6. ASSUME NEW f \in active PROVE plan.hashes[f] \in TextIds /\ plan.facts[f] = Content[plan.hashes[f]].snap
  <2>1. plan.hashes[f] = IF f \in dirty THEN tree[f] ELSE rows[f].hash
    BY <1>1
  <2>2. plan.facts[f] = IF f \in dirty THEN Content[tree[f]].snap ELSE rows[f].facts
    BY <1>1, <1>2, <1>4
  <2>3. f \notin dirty => rows[f].hash \in TextIds /\ rows[f].facts = Content[rows[f].hash].snap
    BY DEF RowsBound
  <2> QED BY <1>3, <2>1, <2>2, <2>3
<1>7. ASSUME NEW f \in active \ plan.dirty PROVE AgreeAt(project, plan.project, rows[f].facts.needs)
  <2>1. f \in DOMAIN new \ changed /\ new[f] = rows[f].facts
    BY <1>1, <1>4
  <2>2. f \notin Affected(new, ChangedKeys(project, plan.project), changed)
    BY <1>1, <1>2
  <2> HIDE DEF active, changed
  <2>3. \A k \in ChangedKeys(project, plan.project) :
          k \notin new[f].needs /\ ~ (k \in FieldKeys /\ AnyOwner(k[3]) \in new[f].needs)
    BY <2>1, <2>2 DEF Affected
  <2> QED BY <2>1, <2>3 DEF AgreeAt, ChangedKeys
<1> QED BY <1>1, <1>5, <1>6, <1>7 DEF PlanBinds, plan

\* What a build changes besides.
LEMMA BuildRest ==
  ASSUME NEW plan, Build(plan)
  PROVE  /\ project' = plan.project /\ tree' = tree
         /\ strayed' = (strayed \/ \E f \in plan.dirty : plan.hashes[f] # tree[f])
BY DEF Build

\* A file that is extracted is bound by what the extraction knew.
LEMMA ExtractedBound ==
  ASSUME IInv, NEW plan, PlanBinds(plan), \A g \in plan.dirty : plan.hashes[g] = tree[g],
         NEW restored, NEW x, NEW nodes, NEW edges, IsBuild(plan, restored, x, nodes, edges), NEW f \in plan.dirty
  PROVE  read'[f] = rows'[f].hash /\ Bound(f, rows'[f].edges, read'[f], view'[f], plan.project)
<1> DEFINE dirty   == plan.dirty
           facts   == plan.facts
           texts   == Texts(dirty, tree)
           context == [n \in {n \in restored : graph.nodes[n].kind # "file"} |-> graph.nodes[n]]
           needed  == Context(plan.project, facts, dirty)
           w       == Resolution(x, Known(texts, needed), plan.active)
           t       == tree[f]
<1>1. /\ dirty \subseteq plan.active /\ plan.active \subseteq Files
      /\ IsFactsOf(facts) /\ DOMAIN facts = plan.active /\ plan.project = ProjectOf(facts)
      /\ \A g \in dirty : tree[g] \in TextIds /\ facts[g] = Content[tree[g]].snap
  BY DEF PlanBinds, PlanFits, PlanOfJoin
<1>2. Readable(dirty) = dirty
  <2>1. Absent \notin TextIds
    BY ScanAssumption
  <2> QED BY <1>1, <2>1 DEF Readable
<1>3. /\ restored = Restored(graph, rows, plan.active \ dirty, dirty, plan.active)
      /\ x = ExtractDirty(dirty, restored, plan.active, facts, plan.project)
      /\ edges = x.edges \union RestoredEdges(rows, plan.active \ dirty, nodes)
      /\ rows' = [g \in plan.active |-> IF g \in dirty THEN Row(g, plan.hashes[g], facts[g], nodes, edges) ELSE rows[g]]
      /\ read' = ReadBy(plan)
      /\ view' = [g \in plan.active |-> IF g \in Readable(dirty) THEN ViewOf(x, tree[g], plan.active)
                                        ELSE IF g \in dirty THEN NoView ELSE view[g]]
  BY DEF IsBuild
<1>4. x = Extract(texts, context, needed, Parents(facts), plan.active)
  <2>1. ExtractDirty(dirty, restored, plan.active, facts, plan.project)
          = Extract(Texts(Readable(dirty), tree), context, needed, Parents(facts), plan.active)
    BY DEF ExtractDirty
  <2> HIDE DEF context, needed
  <2> QED BY <1>2, <1>3, <2>1
<1>5. DOMAIN texts = dirty /\ \A g \in dirty : texts[g] = Content[tree[g]]
  BY DEF Texts
<1>6. \A n \in DOMAIN context : PathOf(n) \notin DOMAIN texts
  <2>1. \A n \in restored : PathOf(n) \notin dirty
    BY <1>3 DEF Restored
  <2> QED BY <1>5, <2>1
<1>7. DOMAIN needed \subseteq FactKey /\ \A k \in DOMAIN needed : needed[k] = plan.project[k]
  BY DEF Context
<1>8. \A k \in FactKey : k \in facts[f].needs \/ (k \in FieldKeys /\ AnyOwner(k[3]) \in facts[f].needs)
                           => k \in DOMAIN needed
  BY DEF Context
<1> HIDE DEF texts, context, needed, w, t
<1>9. AgreeAt(w.facts, plan.project, facts[f].needs)
  <2>1. IsFactsOf(SnapsOf(texts))
    <3>1. DOMAIN SnapsOf(texts) = dirty /\ \A g \in dirty : SnapsOf(texts)[g] = Content[tree[g]].snap
      BY <1>5 DEF SnapsOf
    <3> QED BY <1>1, <3>1 DEF IsFactsOf, Snaps
  <2>2. DOMAIN texts \subseteq DOMAIN facts /\ \A g \in DOMAIN texts : texts[g].snap = facts[g]
    BY <1>1, <1>5
  <2>3. \A k \in DOMAIN needed : needed[k] = ProjectOf(facts)[k]
    BY <1>1, <1>7
  <2>4. \A k \in DOMAIN needed : Known(texts, needed)[k] = ProjectOf(facts)[k]
    BY <1>1, <1>7, <2>1, <2>2, <2>3, KnownAgrees
  <2>5. w.facts = Known(texts, needed)
    BY DEF w, Resolution
  <2> QED BY <1>1, <1>8, <2>4, <2>5 DEF AgreeAt
<1>10. Resolves(x, w, f, Content[t])
  <2>1. f \in DOMAIN texts /\ texts[f] = Content[t]
    BY <1>5 DEF t
  <2> DEFINE y == Extract(texts, context, needed, Parents(facts), plan.active)
  <2>2. Resolves(y, Resolution(y, Known(texts, needed), plan.active), f, texts[f])
    BY <1>6, <2>1, ExtractResolves
  <2> HIDE DEF y
  <2> QED BY <1>4, <2>1, <2>2 DEF y, w
<1>11. OwnEdges(edges, f) = OwnEdges(x.edges, f)
  <2>1. \A g \in plan.active \ dirty : \A e \in rows[g].edges : PathOf(e[1]) = g
    BY DEF IInv, Consistent, RowFits, PlanBinds, PlanFits
  <2>2. \A e \in RestoredEdges(rows, plan.active \ dirty, nodes) : PathOf(e[1]) # f
    BY <2>1 DEF RestoredEdges
  <2> QED BY <1>3, <2>2 DEF OwnEdges
<1>12. /\ rows'[f].hash = t /\ rows'[f].edges = OwnEdges(edges, f)
       /\ read'[f] = t /\ view'[f] = ViewOf(x, t, plan.active)
  <2>1. f \in plan.active
    BY <1>1
  <2>2. rows'[f] = Row(f, t, facts[f], nodes, edges)
    BY <1>3, <2>1 DEF t
  <2>3. rows'[f].hash = t /\ rows'[f].edges = OwnEdges(edges, f)
    BY <2>2 DEF Row, OwnEdges
  <2>4. read'[f] = t
    BY <1>3, <2>1 DEF ReadBy, t
  <2>5. view'[f] = ViewOf(x, t, plan.active)
    BY <1>2, <1>3, <2>1 DEF t
  <2> QED BY <2>3, <2>4, <2>5
<1>13. w.active = plan.active
  BY DEF w, Resolution
<1>14. ViewOf(w, t, w.active) = view'[f]
  <2>1. w.index = x.index /\ w.reexports = x.reexports /\ w.parents = x.parents
    BY <1>10 DEF Resolves
  <2>2. ViewOf(w, t, w.active) = ViewOf(x, t, w.active)
    BY <2>1, ViewOfParts
  <2> QED BY <1>12, <1>13, <2>2
<1>15. {e \in rows'[f].edges : ~ Lent(e)} = Keeps(TextEdges(f, Content[t], w), f)
  BY <1>10, <1>11, <1>12 DEF Resolves, Keeps
<1>16. facts[f].needs = Content[t].snap.needs
  BY <1>1 DEF t
<1>17. Bound(f, rows'[f].edges, t, view'[f], plan.project)
  <2>1. HoldsText(w.index, f, Content[t])
    BY <1>10 DEF Resolves
  <2> QED BY <1>9, <1>14, <1>15, <1>16, <2>1 DEF Bound
<1> QED BY <1>12, <1>17

\* A build keeps the rows bound.
LEMMA BuildKeepsBound ==
  ASSUME IInv, RowsBound(rows, read, view, project, strayed), NEW plan, PlanBinds(plan), Build(plan)
  PROVE  RowsBound(rows', read', view', project', strayed')
<1>1. PICK restored, x, nodes, edges : IsBuild(plan, restored, x, nodes, edges)
  BY BuildParts
<1>2. /\ rows' = [f \in plan.active |-> IF f \in plan.dirty THEN Row(f, plan.hashes[f], plan.facts[f], nodes, edges)
                                        ELSE rows[f]]
      /\ read' = [f \in plan.active |-> IF f \in plan.dirty THEN tree[f] ELSE read[f]]
      /\ view' = [f \in plan.active |-> IF f \in Readable(plan.dirty) THEN ViewOf(x, tree[f], plan.active)
                                        ELSE IF f \in plan.dirty THEN NoView ELSE view[f]]
  BY <1>1 DEF IsBuild, ReadBy
<1>3. /\ project' = plan.project
      /\ strayed' = (strayed \/ \E f \in plan.dirty : plan.hashes[f] # tree[f])
  BY BuildRest
<1>4. ASSUME NEW f \in DOMAIN rows'
      PROVE  rows'[f].hash \in TextIds /\ rows'[f].facts = Content[rows'[f].hash].snap
  <2>1. f \in plan.active
    BY <1>2
  <2>2. CASE f \in plan.dirty
    <3>1. rows'[f] = Row(f, plan.hashes[f], plan.facts[f], nodes, edges)
      BY <1>2, <2>1, <2>2
    <3>2. rows'[f].hash = plan.hashes[f] /\ rows'[f].facts = plan.facts[f]
      BY <3>1 DEF Row
    <3> QED BY <2>1, <3>2 DEF PlanBinds
  <2>3. CASE f \notin plan.dirty
    <3>1. f \in DOMAIN rows /\ rows'[f] = rows[f]
      BY <1>2, <2>1, <2>3 DEF PlanBinds, PlanFits
    <3> QED BY <3>1 DEF RowsBound
  <2> QED BY <2>2, <2>3
<1>5. ASSUME ~ strayed', NEW f \in DOMAIN rows'
      PROVE  read'[f] = rows'[f].hash /\ Bound(f, rows'[f].edges, read'[f], view'[f], project')
  <2>1. ~ strayed /\ (\A g \in plan.dirty : plan.hashes[g] = tree[g]) /\ f \in plan.active
    BY <1>2, <1>3, <1>5
  <2>2. CASE f \in plan.dirty
    BY <1>1, <1>3, <2>1, <2>2, ExtractedBound
  <2>3. CASE f \notin plan.dirty
    <3>1. /\ f \in DOMAIN rows /\ rows'[f] = rows[f] /\ read'[f] = read[f]
          /\ view'[f] = view[f]
      BY <1>2, <2>1, <2>3 DEF PlanBinds, PlanFits, Readable
    <3>2. /\ read[f] = rows[f].hash /\ rows[f].facts = Content[rows[f].hash].snap
          /\ Bound(f, rows[f].edges, read[f], view[f], project)
      BY <2>1, <3>1 DEF RowsBound
    <3>3. AgreeAt(project, plan.project, Content[read[f]].snap.needs)
      BY <2>1, <2>3, <3>2 DEF PlanBinds
    <3>4. PICK w : /\ view[f] = ViewOf(w, read[f], w.active) /\ HoldsText(w.index, f, Content[read[f]])
                   /\ {e \in rows[f].edges : ~ Lent(e)} = Keeps(TextEdges(f, Content[read[f]], w), f)
                   /\ AgreeAt(w.facts, project, Content[read[f]].snap.needs)
      BY <3>2 DEF Bound
    <3>5. AgreeAt(w.facts, plan.project, Content[read[f]].snap.needs)
      BY <3>3, <3>4 DEF AgreeAt
    <3>6. Bound(f, rows[f].edges, read[f], view[f], plan.project)
      BY <3>4, <3>5 DEF Bound
    <3> QED BY <1>3, <3>1, <3>2, <3>6
  <2> QED BY <2>2, <2>3
<1> QED BY <1>4, <1>5 DEF RowsBound

\* All that the rows keep of what was read.
ViewInv == IInv /\ SymbolsKept(rows, graph, read) /\ JoinInv /\ RowsBound(rows, read, view, project, strayed)

\* Every operation keeps the rows bound.
LEMMA StepBound == ViewInv /\ [Next]_vars => RowsBound(rows, read, view, project, strayed)'
<1> SUFFICES ASSUME ViewInv, [Next]_vars
             PROVE  RowsBound(rows', read', view', project', strayed')
  BY DEF RowsBound, Bound, Keeps, AgreeAt, HoldsText
<1>0. /\ IInv /\ RowsBound(rows, read, view, project, strayed)
      /\ tree \in [Files -> TextIds \union {Absent}] /\ Joins(rows, project)
  BY DEF ViewInv, JoinInv
<1>1. CASE Operates
  <2>1. CASE NothingToDo
    BY <1>0, <2>1 DEF NothingToDo
  <2>2. ASSUME NEW dirty \in SUBSET OnDisk, NEW removed \in SUBSET DOMAIN rows,
               Build(PlanOf(dirty, removed, dirty \union (DOMAIN rows \ removed)))
        PROVE  RowsBound(rows', read', view', project', strayed')
    <3> DEFINE plan == PlanOf(dirty, removed, dirty \union (DOMAIN rows \ removed))
    <3>1. PlanBinds(plan)
      BY <1>0, PlanBound
    <3> HIDE DEF plan
    <3>2. Build(plan)
      BY <2>2 DEF plan
    <3> QED BY <1>0, <3>1, <3>2, BuildKeepsBound
  <2> QED BY <1>1, <2>1, <2>2 DEF Operates
<1>2. ASSUME NEW f \in Files, NEW t \in TextsOf[f], Edit(f, t)
      PROVE  RowsBound(rows', read', view', project', strayed')
  BY <1>0, <1>2 DEF Edit
<1>3. CASE UNCHANGED vars
  BY <1>0, <1>3 DEF vars
<1> QED BY <1>1, <1>2, <1>3, OperationsBuild DEF Next

\* The graph has the edges of the rows that have both their ends, and those of a
\* build from nothing have.
LEMMA BoundIsClean == ViewInv => CurrentViewsAreClean
<1> SUFFICES ASSUME ViewInv, ~ strayed, NEW f \in DOMAIN rows, view[f] = ViewOf(Clean(read), read[f], DOMAIN rows)
             PROVE  Keeps(graph.edges, f) = Keeps(Clean(read).edges, f)
  BY DEF CurrentViewsAreClean, Keeps
<1> DEFINE clean == Clean(read)
<1>1. /\ IInv /\ Joins(rows, project) /\ RowsBound(rows, read, view, project, FALSE)
      /\ DOMAIN read = DOMAIN rows /\ DOMAIN rows \subseteq Files
      /\ \A g \in DOMAIN read : read[g] \in TextIds \union {Absent}
  BY DEF ViewInv, JoinInv, RowsBound, SymbolsKept, Joins
<1>2. {e \in rows[f].edges : ~ Lent(e)} = Keeps(clean.edges, f)
  BY <1>1, RowIsClean
<1>3. /\ Keeps(graph.edges, f) \subseteq rows[f].edges
      /\ RestoredEdges(rows, {f}, graph.nodes) \subseteq graph.edges
      /\ RowFits(f, rows[f], graph)
      /\ \A g \in DOMAIN rows : FileNode(g) \in DOMAIN graph.nodes
      /\ \A e \in graph.edges : {e[1], e[3]} \subseteq DOMAIN graph.nodes
  <2>1. Consistent(rows, graph)
    BY <1>1 DEF IInv
  <2>2. \A g \in DOMAIN rows : RowFits(g, rows[g], graph)
    BY <2>1 DEF Consistent
  <2>3. \A g \in DOMAIN rows : FileNode(g) \in DOMAIN graph.nodes
    BY <2>2 DEF RowFits, FileNode, PathOf
  <2>4. /\ Keeps(graph.edges, f) \subseteq rows[f].edges
        /\ RestoredEdges(rows, {f}, graph.nodes) \subseteq graph.edges
    BY <2>1 DEF Consistent, Reproduced, Keeps
  <2> QED BY <2>1, <2>2, <2>3, <2>4 DEF Consistent, Whole
<1>4. DOMAIN clean.index \subseteq DOMAIN graph.nodes
  BY CleanSymbols DEF ViewInv, SymbolsKept
<1>5. \A e \in clean.edges : Anchored(e, clean.index, TextsRead(read), DOMAIN rows)
  <2> DEFINE texts == TextsRead(read)
             snaps == [g \in {g \in DOMAIN read : read[g] # Absent} |-> texts[g].snap]
  <2>1. clean = Extract(texts, Empty, ProjectOf(snaps), Parents(snaps), DOMAIN read)
    BY DEF Clean, TextsRead
  <2>2. Sourced(texts)
    BY <1>1, ReadTexts
  <2>4. \A n \in DOMAIN Empty : PathOf(n) \notin DOMAIN texts
    BY DEF Empty
  <2> HIDE DEF texts, snaps, clean
  <2>3. Batch(clean, texts, Empty, DOMAIN read)
    BY <2>1, <2>2, <2>4, ExtractFacts
  <2> QED BY <1>1, <2>3 DEF Batch, texts
<1>6. ASSUME NEW e \in Keeps(clean.edges, f) PROVE e \in graph.edges
  <2>1. e \in clean.edges /\ PathOf(e[1]) = f /\ ~ Lent(e) /\ e \in rows[f].edges
    BY <1>2 DEF Keeps, OwnEdges
  <2>2. /\ e[1] \in DOMAIN clean.index \union {FileNode(g) : g \in DOMAIN TextsRead(read)}
        /\ e[3] \in DOMAIN clean.index \union {FileNode(g) : g \in DOMAIN rows} \union Externals
    BY <1>5, <2>1 DEF Anchored
  <2>3. DOMAIN TextsRead(read) \subseteq DOMAIN rows
    BY <1>1 DEF TextsRead, Texts
  <2>4. e[1] \in DOMAIN graph.nodes
    BY <1>3, <1>4, <2>2, <2>3
  <2>5. e[3] \in DOMAIN graph.nodes
    <3>1. CASE e[3] \in Externals
      <4>1. PathOf(e[3]) = None
        BY <3>1 DEF Externals, External, PathOf
      <4>2. e[3] \in rows[f].nodes
        BY <1>3, <2>1 DEF RowFits
      <4> QED BY <1>3, <4>1, <4>2 DEF RowFits
    <3>2. CASE e[3] \notin Externals
      BY <1>3, <1>4, <2>2, <3>2
    <3> QED BY <3>1, <3>2
  <2>6. e \in RestoredEdges(rows, {f}, graph.nodes)
    BY <2>1, <2>4, <2>5 DEF RestoredEdges
  <2> QED BY <1>3, <2>6
<1> HIDE DEF clean
<1>7. Keeps(graph.edges, f) \subseteq Keeps(clean.edges, f)
  BY <1>2, <1>3 DEF Keeps
<1>8. Keeps(clean.edges, f) \subseteq Keeps(graph.edges, f)
  BY <1>6 DEF Keeps, OwnEdges
<1> QED BY <1>7, <1>8 DEF clean

\* A file whose extraction saw what a build from nothing would show it has the edges
\* of a build from nothing, whatever was edited, scanned, updated and removed before.
THEOREM CurrentViewsAreCleanHolds == Spec => []CurrentViewsAreClean
<1>1. Init => RowsBound(rows, read, view, project, strayed)
  <2> SUFFICES ASSUME Init PROVE RowsBound(rows, read, view, project, strayed)
    OBVIOUS
  <2>1. DOMAIN rows = {}
    BY DEF Init, Empty
  <2> QED BY <2>1 DEF RowsBound
<1>2. Init => ViewInv
  BY <1>1, InitInv, InitSymbols, InitJoins DEF ViewInv
<1>3. ViewInv /\ [Next]_vars => ViewInv'
  BY StepInv, StepSymbols, StepJoins, StepBound DEF ViewInv
<1> QED BY <1>2, <1>3, BoundIsClean, PTL DEF Spec
=============================================================================
