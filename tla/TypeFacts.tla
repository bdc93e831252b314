------------------------------ MODULE TypeFacts ------------------------------
(***************************************************************************)
(* What the files of a project say about types, and how a change of a few  *)
(* of them is joined again without opening the others                      *)
(* (scanner/frontends/persistent_facts.py, type_facts.py, scope_graph.py). *)
(*                                                                         *)
(* A file's snapshot holds the facts that it states, the keys of the facts *)
(* that its own receivers need, the re-exports of a package, and the       *)
(* parents of its classes.  A fact is a set of pairs of a type and the     *)
(* file that is the evidence for it, and facts join by union: more than    *)
(* one type is ambiguous and types nothing.                                *)
(***************************************************************************)
EXTENDS Naturals, Sequences, FiniteSets, TLC

CONSTANTS
  Files,  \* source files; a file is also the name of its module
  Types,  \* names of classes
  Attrs,  \* names of fields
  Names   \* names of module variables, functions and methods

None == "none"

\* ("field", owner, attribute), ("global", module, name), ("return", module, name).
FieldKeys  == {"field"} \X Types \X Attrs
ModuleKeys == {"global", "return"} \X Files \X Names
FactKey    == FieldKeys \union ModuleKeys
AnyOwner(a) == <<"field", None, a>>
Need       == FactKey \union {AnyOwner(a) : a \in Attrs}
Fact       == SUBSET (Types \X Files)

Snapshot == [facts    : SUBSET (FactKey \X Types),
             needs    : SUBSET Need,
             parents  : SUBSET (Types \X Types),
             reexports: SUBSET (ModuleKeys \X ModuleKeys)]
NoSnapshot == [facts |-> {}, needs |-> {}, parents |-> {}, reexports |-> {}]

\* dict.update: what f says, and for other keys what g says.
Over(f, g) == [x \in DOMAIN f \union DOMAIN g |-> IF x \in DOMAIN f THEN f[x] ELSE g[x]]

-----------------------------------------------------------------------------
\* Facts.

\* TypeFact.concrete: the type, if the evidence agrees on one.
Concrete(fact) ==
  LET types == {p[1] : p \in fact} IN IF Cardinality(types) = 1 THEN types ELSE {}

\* _snapshot_contributions.
Keys(s) == {p[1] : p \in s.facts}

\* _direct_fact: what the files themselves say of a key, joined.
Direct(snaps, key) ==
  {p \in Types \X Files : p[2] \in DOMAIN snaps /\ <<key, p[1]>> \in snaps[p[2]].facts}

\* The re-export edges that some file still owns, from key to key.
Reexports(snaps) == UNION {snaps[f].reexports : f \in DOMAIN snaps}

\* All keys that the facts of `seeds` flow to.
Downstream(snaps, seeds) ==
  LET edges == Reexports(snaps)
      grow[n \in Nat] ==
        IF n = 0 THEN seeds
        ELSE LET reached == grow[n - 1]
             IN reached \union {r[2] : r \in {r \in edges : r[1] \in reached}}
  IN grow[Cardinality(edges)]

\* n rounds of joining, along the re-exports, into each of the keys.
Rounds(start, snaps, keys, n) ==
  LET edges  == {r \in Reexports(snaps) : r[2] \in keys}
      step[i \in Nat] ==
        IF i = 0 THEN start
        ELSE LET p == step[i - 1]
             IN [k \in DOMAIN p |-> p[k] \union UNION {p[r[1]] : r \in {r \in edges : r[2] = k}}]
  IN step[n]

\* join_python_project_type_facts: the whole project joined from nothing.  It is
\* the reference for what the persistent index keeps up to date.
ProjectOf(snaps) ==
  Rounds([k \in FactKey |-> Direct(snaps, k)], snaps, FactKey, Cardinality(Reexports(snaps)))

\* _fixed_point: the keys are reset to what the files say and joined along the
\* re-exports until nothing grows; all others are left as they are.
FixedPoint(project, snaps, keys) ==
  Rounds(Over([k \in keys |-> Direct(snaps, k)], project), snaps, keys, Cardinality(Reexports(snaps)))

-----------------------------------------------------------------------------
\* PersistentPythonTypeIndex.update.

\* MUTANT of Seeds: what a file no longer says is forgotten.
SeedsOfNew(old, new, changed) ==
  UNION {Keys(new[f]) \union {r[2] : r \in new[f].reexports} : f \in changed}
\* The keys that a changed file said something of, or says something of now.
Seeds(old, new, changed) ==
  UNION {Keys(old[f]) \union Keys(new[f])
           \union {r[2] : r \in old[f].reexports \union new[f].reexports} : f \in changed}

\* The project after the `changed` files went from their old snapshots to new.
Rejoin(project, old, new, changed) ==
  FixedPoint(project, new, Downstream(new, Seeds(old, new, changed)))

ChangedKeys(before, after) == {k \in FactKey : before[k] # after[k]}

\* MUTANT of Affected: a field wakes those only that name its owner.
AffectedByOwner(snaps, keys, changed) ==
  {f \in DOMAIN snaps \ changed : keys \intersect snaps[f].needs # {}}
\* affected_files: the consumers of a changed fact; a field is needed by name,
\* whoever owns it.
Affected(snaps, keys, changed) ==
  {f \in DOMAIN snaps \ changed :
     \E k \in keys : \/ k \in snaps[f].needs
                     \/ k \in FieldKeys /\ AnyOwner(k[3]) \in snaps[f].needs}

\* context_for_files: the facts that the files to extract need, and no others.
Context(project, snaps, files) ==
  LET requested == UNION {snaps[f].needs : f \in files}
  IN [k \in {k \in FactKey : k \in requested \/ (k \in FieldKeys /\ AnyOwner(k[3]) \in requested)}
        |-> project[k]]

-----------------------------------------------------------------------------
\* Scopes.

\* The parents of all classes, whichever file declares them (ScopeGraph.add_parent
\* ignores a class that is its own parent).
Parents(snaps) == {p \in UNION {snaps[f].parents : f \in DOMAIN snaps} : p[1] # p[2]}

\* ancestor_layers: the classes at each distance, none of them twice nor any of
\* those in `seen`.
Layers(parents, type, seen) ==
  LET up(ts) == {p[2] : p \in {p \in parents : p[1] \in ts}}
      layer[n \in Nat] == IF n = 0 THEN <<{type}, seen>>
                          ELSE LET below == layer[n - 1]
                                   next  == up(below[1]) \ below[2]
                               IN <<next, below[2] \union next>>
  IN [n \in 1 .. Cardinality(Types) |-> layer[n][1]]

\* visible_bindings of one field, the class itself left out at first: what the
\* nearest ancestors with such a field say, joined.
Visible(facts, parents, type, attr) ==
  LET at(ts) == UNION {facts[<<"field", t, attr>>] : t \in ts}
      layers == Layers(parents, type, {})
      near   == {n \in DOMAIN layers : at(layers[n]) # {}}
  IN IF near = {} THEN {} ELSE at(layers[CHOOSE n \in near : \A m \in near : n <= m])

\* resolve_type_obligation, for a field read from a receiver: a root or a field
\* of which the facts do not agree gives nothing.
FieldOf(facts, root, attr) == UNION {facts[<<"field", t, attr>>] : t \in Concrete(root)}

\* local_bindings: what the body of a callable says of its receiver, which is
\* annotated or constructed ("type"), bound to an imported variable or to the
\* result of a call ("key"), or read from such a one ("path").
LocalFact(facts, recv) ==
  CASE recv[1] = "type" -> {<<recv[2], None>>}
    [] recv[1] = "key"  -> facts[recv[2]]
    [] recv[1] = "path" -> FieldOf(facts, facts[recv[2]], recv[3])
    [] OTHER            -> {}

\* BindingEnvironment: what a body reads of its own object.  What the project says
\* of the class comes first if it agrees, then what the class body in this file
\* says, then what the nearest ancestors with such a field say.
SelfFact(facts, own, parents, owner, attr) ==
  LET key    == <<"field", owner, attr>>
      direct == Direct(own, key)
  IN IF Concrete(facts[key]) # {} THEN facts[key]
     ELSE IF direct # {} THEN direct ELSE Visible(facts, parents, owner, attr)

\* The type of the receiver of a call, `this` being the enclosing instance.
ReceiverFact(facts, own, parents, owner, recv) ==
  CASE recv[1] = "this" -> {<<owner, None>>}
    [] recv[1] = "self" -> SelfFact(facts, own, parents, owner, recv[2])
    [] OTHER            -> LocalFact(facts, recv)
=============================================================================
