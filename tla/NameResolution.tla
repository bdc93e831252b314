--------------------------- MODULE NameResolution ---------------------------
(***************************************************************************)
(* From the texts of a batch of files to nodes and edges: which definition *)
(* each import, base class, return type, call and callback names           *)
(* (scanner/frontends/extractors.py, syntax.py, edges.py, module_calls.py, *)
(* rust.py, scanner/imports.py).                                           *)
(*                                                                         *)
(* A batch is extracted against the symbols of the files that are not in   *)
(* it (`context`) and the type facts that the batch needs.  A text is what *)
(* the parser makes of a file: definitions, imports and uses of names.     *)
(***************************************************************************)
EXTENDS TypeFacts, FiniteSetsExt

CONSTANTS
  Packages,    \* the files that are the __init__ of a package
  Tests,       \* the files that hold tests
  Family,      \* the language family of each file
  ClassScoped, \* the files in whose language a bare call reaches a sibling method
  Stem,        \* the last component of each file's module path
  Outsiders,   \* packages that are not part of the project
  Nearness     \* Nearness[f][g]: how near the directory of g is to that of f

ASSUME NameResolutionAssumption ==
  /\ Packages \subseteq Files /\ Tests \subseteq Files /\ ClassScoped \subseteq Files
  /\ DOMAIN Family = Files /\ DOMAIN Stem = Files
  /\ Nearness \in [Files -> [Files -> Nat]]

Labels    == Names \union Types
TypeKinds == {"class", "struct", "trait", "interface", "enum", "type"}
CallKinds == {"function", "method"}

\* A definition: what it is, the definition it is nested in, the type of the impl
\* block around it, and the names of its bases and of the types it returns.
Def == [name: Labels, kind: TypeKinds \union CallKinds, in: Labels \union {None},
        impl: Types \union {None}, bases: SUBSET Types, returns: SUBSET Types]
\* An import names a symbol and the module it is taken from, by path and by stem.
Import == [name: Labels, module: Files \union {None}, stem: {Stem[f] : f \in Files} \union {None}]
\* An alias binds a name, often that of the module itself, to a whole module.
Alias  == (Labels \union Files) \X Files
\* The receiver of a call: the enclosing object or a field of it, a local that was
\* constructed, bound to an imported variable or to a result, or read from such a
\* one; a module; a package outside the project.
Receiver ==
  {<<None>>, <<"this">>} \union ({"self"} \X Attrs) \union ({"type"} \X Types) \union ({"key"} \X ModuleKeys)
    \union ({"path"} \X ModuleKeys \X Attrs) \union ({"module"} \X (Labels \union Files)) \union ({"external"} \X Outsiders)
\* A use of a name: the callable whose body holds it (its type and name), how the
\* name is written, the receiver, and for a path-qualified name the files that its
\* nearest and its outer qualifiers match.
CallSite == [by: (Types \union {None}) \X Names, form: {"bare", "path", "member", "attribute", "callback"},
             name: Labels, recv: Receiver, qual: (SUBSET Files) \X (SUBSET Files)]
\* What the parser makes of a file; `impls` are the pairs of a trait and a type.
Text == [defs: SUBSET Def, imports: SUBSET Import, aliases: SUBSET Alias, impls: SUBSET (Types \X Types),
         uses: SUBSET CallSite, snap: Snapshot]

-----------------------------------------------------------------------------
\* Definitions and their nodes.

\* _collect_defs, _attach_lexical_method_owners: a callable directly in a type, or
\* in an impl block, is a method of it.
Owner(text, d) ==
  IF d.kind \notin CallKinds THEN None
  ELSE IF d.impl # None THEN d.impl
  ELSE IF \E t \in text.defs : t.name = d.in /\ t.kind \in TypeKinds THEN d.in ELSE None
Kind(text, d) == IF Owner(text, d) # None THEN "method" ELSE d.kind

\* _definition_node_id: a symbol is known by its file, the type it is a method of,
\* and its name.
FileNode(f)   == <<f, None, None>>
Node(f, text, d) == <<f, Owner(text, d), d.name>>
PathOf(id)    == id[1]
LabelOf(id)   == id[3]
External(pkg, name) == <<None, pkg, name>>
\* What a node without a parent has for one.
NoParent == <<None, None, None>>

DefsOf(texts, n) == {d \in texts[PathOf(n)].defs : Node(PathOf(n), texts[PathOf(n)], d) = n}
Symbols(texts) ==
  [n \in UNION {{Node(f, texts[f], d) : d \in texts[f].defs} : f \in DOMAIN texts} |->
     [kind |-> Kind(texts[PathOf(n)], CHOOSE d \in DefsOf(texts, n) : TRUE), parent |-> NoParent]]

\* _eligible_context_name_symbol and the name index: all symbols of one name, the
\* external ones of the context with them.
Named(nodes, name) == {n \in DOMAIN nodes : LabelOf(n) = name /\ nodes[n].kind # "file"}

\* _lang_family: an external symbol is of no language.
SameFamily(f, ns) == {n \in ns : PathOf(n) # None /\ Family[PathOf(n)] = Family[f]}
Outside(ns)       == {n \in ns : PathOf(n) = None}

\* _unique_callables_for_language.
UniqueCallable(nodes, f, name) ==
  LET found == {n \in SameFamily(f, Named(nodes, name)) : nodes[n].kind \in CallKinds}
  IN IF Cardinality(found) = 1 THEN found ELSE {}

\* _select_owner_type: the type that a method of an impl block belongs to, the one
\* in its own file before the only one of that name.
SelectOwnerType(nodes, f, type) ==
  LET found == {n \in Named(nodes, type) : nodes[n].kind \in TypeKinds}
      here  == {n \in found : PathOf(n) = f}
  IN IF Cardinality(here) = 1 THEN here
     ELSE IF Cardinality(found) = 1 THEN found ELSE {}

\* _add_nested_contains, _add_rust_method_owners: the node that holds a definition.
ParentNode(nodes, texts, f, d) ==
  IF d.impl # None THEN SelectOwnerType(nodes, f, d.impl)
  ELSE {Node(f, texts[f], t) : t \in {t \in texts[f].defs : t.name = d.in /\ t # d}}

WithParents(nodes, texts) ==
  LET parents(n) == UNION {ParentNode(nodes, texts, PathOf(n), d) : d \in DefsOf(texts, n)}
      held       == {n \in DOMAIN nodes : PathOf(n) \in DOMAIN texts /\ parents(n) # {}}
  IN Over([n \in held |-> [nodes[n] EXCEPT !.parent = CHOOSE p \in parents(n) : TRUE]], nodes)

\* _method_owner.
MethodOwner(nodes, n) ==
  IF nodes[n].parent \in DOMAIN nodes THEN LabelOf(nodes[n].parent) ELSE None

-----------------------------------------------------------------------------
\* Imports.

\* _select_import_target: the only symbol of that name, else the one in the module
\* that the specifier names, else the one in a module of that stem, the nearest
\* of several, else the one that the package re-exports.
SelectImport(nodes, f, i, reexports) ==
  LET found   == SameFamily(f, Named(nodes, i.name)) \union Outside(Named(nodes, i.name))
      located == {n \in SameFamily(f, found) : PathOf(n) = i.module}
      matched == {n \in SameFamily(f, found) : Stem[PathOf(n)] = i.stem}
      nearest == {n \in matched : \A m \in matched : Nearness[f][PathOf(n)] >= Nearness[f][PathOf(m)]}
      passed  == {r[3] : r \in {r \in reexports : r[1] = i.stem /\ r[2] = i.name}} \intersect found
  IN IF Cardinality(found) = 1 THEN found
     ELSE IF Cardinality(located) = 1 THEN located
     ELSE IF i.stem = None THEN {}
     ELSE IF Cardinality(nearest) = 1 THEN nearest ELSE passed

\* _reexported_symbols: what the packages of this batch import, if it is one symbol.
Reexported(texts, edges) ==
  LET from(p, name) == {e[3] : e \in {e \in edges : e[1] = FileNode(p) /\ e[2] = "imports_from"
                                                      /\ LabelOf(e[3]) = name}}
      packages == DOMAIN texts \intersect Packages
  IN UNION {{<<Stem[p], name, CHOOSE n \in from(p, name) : TRUE>>
               : name \in {name \in Labels : Cardinality(from(p, name)) = 1}} : p \in packages}

ImportsOf(nodes, texts, reexports) ==
  UNION {{<<FileNode(f), "imports_from", n>>
            : n \in {n \in UNION {SelectImport(nodes, f, i, reexports) : i \in texts[f].imports}
                        : PathOf(n) # f}} : f \in DOMAIN texts}

\* _add_imports_from: a second pass binds through the packages what the first left.
ImportEdges(nodes, texts) ==
  LET twice(first) == first \union ImportsOf(nodes, texts, Reexported(texts, first))
  IN twice(ImportsOf(nodes, texts, {}))

\* add_file_edges: a file imports the files of the modules it names, if they are
\* part of the scan.
FileEdges(texts, active) ==
  UNION {{<<FileNode(f), "imports", FileNode(g)>>
            : g \in ({i.module : i \in texts[f].imports} \union {a[2] : a \in texts[f].aliases})
                      \intersect (active \ {f})} : f \in DOMAIN texts}

-----------------------------------------------------------------------------
\* Structure.

ContainsEdges(nodes, texts) ==
  (UNION {{<<FileNode(f), "contains", Node(f, texts[f], d)>> : d \in texts[f].defs} : f \in DOMAIN texts})
    \union {<<nodes[n].parent, "contains", n>>
              : n \in {n \in DOMAIN nodes : PathOf(n) \in DOMAIN texts /\ nodes[n].parent # NoParent}}

\* _add_tree_sitter_implements: an impl block links all types and traits of its
\* names, a base class only the one class of its name.
ImplementsEdges(nodes, texts) ==
  LET only(child, base) == LET found == Named(nodes, base) \ {child}
                           IN IF Cardinality(Named(nodes, base)) = 1
                              THEN {n \in found : nodes[n].kind = "class"} ELSE {}
      blocks(f) == {e \in UNION {Named(nodes, i[2]) \X {"implements"} \X Named(nodes, i[1])
                                   : i \in texts[f].impls} : e[1] # e[3]}
      bases(f)  == UNION {{Node(f, texts[f], d)} \X {"implements"}
                             \X UNION {only(Node(f, texts[f], d), b) : b \in d.bases}
                            : d \in {d \in texts[f].defs : d.kind = "class"}}
  IN UNION {blocks(f) \union bases(f) : f \in DOMAIN texts}

\* _add_returns: the only definition of the name of the type.
ReturnEdges(nodes, texts) ==
  LET only(names) == UNION {IF Cardinality(Named(nodes, t)) = 1 THEN Named(nodes, t) ELSE {} : t \in names}
  IN UNION {UNION {{Node(f, texts[f], d)} \X {"returns"} \X (only(d.returns) \ {Node(f, texts[f], d)})
                     : d \in {d \in texts[f].defs : d.kind \in CallKinds}} : f \in DOMAIN texts}

-----------------------------------------------------------------------------
\* Calls.

\* resolve_module_qualified_call: what the module of the alias re-exports, else the
\* only symbol of that name in it, or in a module of the same last name.
ModuleCall(nodes, f, text, u, reexports) ==
  LET modules  == {a[2] : a \in {a \in text.aliases : u.recv = <<"module", a[1]>>}}
      usable   == {n \in SameFamily(f, Named(nodes, u.name)) :
                     nodes[n].kind \in CallKinds \union {"class"} /\ n # <<f, u.by[1], u.by[2]>>}
      passed   == {r[3] : r \in {r \in reexports : r[1] \in {Stem[m] : m \in modules} /\ r[2] = u.name}}
      exact    == {n \in usable : PathOf(n) \in modules}
      loose    == {n \in usable : Stem[PathOf(n)] \in {Stem[m] : m \in modules}}
      best     == IF exact # {} THEN exact ELSE loose
  IN IF passed \intersect usable # {} THEN passed \intersect usable
     ELSE IF Cardinality(best) = 1 THEN best ELSE {}

\* _resolve_path_qualified_target: the nearest qualifier is mandatory, outer ones
\* break ties.
PathQualified(nodes, u) ==
  LET found  == {n \in Named(nodes, u.name) : nodes[n].kind \in CallKinds /\ PathOf(n) \in u.qual[1]}
      better == {n \in found : PathOf(n) \in u.qual[2]}
      best   == IF better # {} THEN better ELSE found
  IN IF Cardinality(best) = 1 THEN best ELSE {}

\* _resolve_member_call: the methods of the receiver's type, else of its nearest
\* ancestors that have one, those of this file before others.
MemberTargets(nodes, f, src, name, type, parents) ==
  LET methods == {n \in SameFamily(f, Named(nodes, name)) : nodes[n].kind = "method" /\ n # src}
      owned(ts, ms) == {n \in ms : MethodOwner(nodes, n) \in ts}
      inherited(layers, ms) ==
        LET near == {k \in DOMAIN layers : owned(layers[k], ms) # {}}
        IN UNION {owned(layers[k], ms) : k \in {k \in near : \A m \in near : k <= m}}
      found(direct, ms) == IF direct # {} THEN direct ELSE inherited(Layers(parents, type, {type}), ms)
      chosen(ns) == LET here == {n \in ns : PathOf(n) = f}
                    IN IF Cardinality(ns) > 1 /\ Cardinality(here) = 1 THEN here ELSE ns
      resolve(ms) == chosen(found(owned({type}, ms), ms))
  IN resolve(methods)

MemberEdges(nodes, f, src, name, types, parents) ==
  LET calls(targets) == {src} \X {IF Cardinality(targets) = 1 THEN "calls" ELSE "calls_candidate"} \X targets
  IN calls(UNION {MemberTargets(nodes, f, src, name, t, parents) : t \in types})

\* The bindings of one file: its own functions, over its imports, over what is the
\* only callable of that name in its language.  An import of the name wins.
Binding(nodes, f, text, name, reexports) ==
  LET imports  == {i \in text.imports : i.name = name}
      imported == UNION {SelectImport(nodes, f, i, reexports) : i \in imports}
      local    == {Node(f, text, d) : d \in {d \in text.defs : d.name = name /\ d.kind \in CallKinds
                                                                 /\ Owner(text, d) = None}}
  IN CASE imports = {} /\ local # {} -> local
       [] imported # {}              -> imported
       [] OTHER                      -> UniqueCallable(nodes, f, name)

\* A bare or path-qualified call: the qualifier, the caller's own class, the file,
\* the repository.  A name bound to a whole module does not reach a method.
BareTargets(nodes, f, text, u, reexports) ==
  LET path    == IF u.form = "path" THEN PathQualified(nodes, u) ELSE {}
      sibling == {<<f, u.by[1], u.name>>} \intersect DOMAIN nodes
      class   == IF u.form = "bare" /\ f \in ClassScoped /\ u.by[1] # None THEN sibling ELSE {}
      bound   == Binding(nodes, f, text, u.name, reexports)
      target  == IF path # {} THEN path ELSE IF class # {} THEN class ELSE bound
      wholeModule == u.name \in {a[1] : a \in text.aliases}
  IN {n \in SameFamily(f, target) \union Outside(target) : ~ (u.form = "bare" /\ nodes[n].kind = "method" /\ wholeModule)}

\* A use of an attribute in a test, of a receiver whose type has one such member.
AttributeTargets(nodes, f, src, name, types) ==
  LET found == {n \in SameFamily(f, Named(nodes, name)) :
                  nodes[n].kind = "method" /\ n # src /\ MethodOwner(nodes, n) \in types}
  IN IF f \in Tests /\ Cardinality(found) = 1 THEN found ELSE {}

\* _add_tree_sitter_calls for one use: the module first, then the package outside
\* the project, then the type of the receiver.
CallEdges(nodes, f, text, u, facts, own, parents, reexports) ==
  LET src    == <<f, u.by[1], u.by[2]>>
      types  == Concrete(ReceiverFact(facts, own, parents, u.by[1], u.recv))
      module == ModuleCall(nodes, f, text, u, reexports)
      callback == UniqueCallable(nodes, f, u.name) \ {src}
  IN CASE u.form \in {"bare", "path"} ->
            {src} \X {"calls"} \X BareTargets(nodes, f, text, u, reexports)
       [] u.form = "member" ->
            IF module # {} THEN {src} \X {"calls"} \X module
            ELSE IF u.recv[1] = "external" THEN {<<src, "calls", External(u.recv[2], u.name)>>}
            ELSE MemberEdges(nodes, f, src, u.name, types, parents)
       [] u.form = "attribute" -> {src} \X {"reads"} \X AttributeTargets(nodes, f, src, u.name, types)
       [] u.form = "callback" -> {src} \X {"references"} \X callback
       [] OTHER -> {}

-----------------------------------------------------------------------------
\* The graph of a batch: its own symbols, and what lies outside that its edges reach.
GraphOf(index, edges, files, parents, reexports) ==
  LET outside == {e[3] : e \in {e \in edges : PathOf(e[3]) = None}}
      new     == {n \in DOMAIN index : PathOf(n) \in files}
  IN [nodes |-> [n \in new \union outside |->
                   IF n \in new THEN index[n] ELSE [kind |-> "external", parent |-> NoParent]],
      edges |-> edges, index |-> index, parents |-> parents, reexports |-> reexports]

\* The passes over a batch whose imports and re-exports are known.
Linked(texts, active, index, imports, passed, facts, parents) ==
  LET calls == UNION {UNION {CallEdges(index, f, texts[f], u, facts, [g \in {f} |-> texts[f].snap], parents, passed)
                               : u \in texts[f].uses} : f \in DOMAIN texts}
  IN GraphOf(index, imports \union calls \union ContainsEdges(index, texts) \union FileEdges(texts, active)
                      \union ImplementsEdges(index, texts) \union ReturnEdges(index, texts),
             DOMAIN texts, parents, <<Reexported(texts, ImportsOf(index, texts, {})), passed>>)

Resolved(texts, active, index, facts, parents) ==
  LET linked(imports) == Linked(texts, active, index, imports, Reexported(texts, imports), facts, parents)
  IN linked(ImportEdges(index, texts))

\* TreeSitterExtractor.extract_symbols: the nodes and edges of a batch of texts,
\* with what they were resolved against: the name index, the parents and, after
\* each pass over the imports, the re-exports.  The facts are those of the batch
\* joined with the context's.
Extract(texts, context, typeContext, typeParents, active) ==
  LET snaps == [f \in DOMAIN texts |-> texts[f].snap]
      fresh == ProjectOf(snaps)
      joined(new) == Over([k \in DOMAIN typeContext |-> typeContext[k] \union new[k]], new)
  IN Resolved(texts, active, WithParents(Over(Symbols(texts), context), texts), joined(fresh),
              typeParents \union Parents(snaps))

\* The names whose definitions can change what is extracted from a text.
UsedNames(text) ==
  {i.name : i \in text.imports} \union {u.name : u \in text.uses}
    \union (UNION {d.bases \union d.returns \union {d.impl} : d \in text.defs})
    \union UNION {{i[1], i[2]} : i \in text.impls}
=============================================================================
