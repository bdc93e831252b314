---------------------------- MODULE ContextGraph ----------------------------
(***************************************************************************)
(* The graph as retrieval reads it: the relation ontology, the traversal   *)
(* policies, the budgeted frontier expansion Graph.expand, and what a      *)
(* packet at its budget gives up first.                                    *)
(*                                                                         *)
(* Nodes and edges are a universe fixed by the instance; a request's graph *)
(* says which edges it has and which of them were expired (kept with       *)
(* active = False).  An edge is a number: the order of the graph's list,   *)
(* which is also that of its (source, target, type).  A sort key is a      *)
(* tuple of integers that ends in what no two elements share.  Real numbers *)
(* are scaled: values in hundredths, penalties in thousandths, logarithms  *)
(* in hundredths.                                                          *)
(***************************************************************************)
EXTENDS Integers, FiniteSets, FiniteSetsExt, SequencesExt

CONSTANTS
  Nodes, NodeRank,       \* node ids, and the order of the ids and of the graph
  Kind, Path,            \* each node's kind and file
  Edges,                 \* edges: numbers in the order of the graph's list
  Source, Target, Type,  \* each edge's ends and relation
  Conf,                  \* its confidence, in tenths; every provenance weighs one
  Damping, Drain         \* 1 / sqrt(degree) and 1 + log10(degree), in thousandths

Relations == {"calls", "calls_candidate", "imports", "tests", "configures", "contains",
              "implements", "references", "explains"}

ASSUME GraphAssumption ==
  /\ IsFiniteSet(Nodes) /\ IsFiniteSet(Edges)
  /\ NodeRank \in [Nodes -> Nat] /\ \A m, n \in Nodes : NodeRank[m] = NodeRank[n] => m = n
  /\ Edges \subseteq Nat \ {0}
  /\ Source \in [Edges -> Nodes] /\ Target \in [Edges -> Nodes]
  /\ Type \in [Edges -> Relations] /\ Conf \in [Edges -> 1..10]
  /\ {Damping, Drain} \subseteq [0..(2 * Cardinality(Edges)) -> Nat]

-----------------------------------------------------------------------------
(* The ontology and the traversal policies *)

Family == [
  calls |-> "execution", calls_candidate |-> "execution", imports |-> "dependency",
  tests |-> "validation", configures |-> "configuration", contains |-> "hierarchy",
  implements |-> "type", references |-> "mention", explains |-> "document"]

\* Strengths in hundredths, and their logarithms.  A candidate is not traversed.
Strength == [
  calls |-> 100, calls_candidate |-> 0, imports |-> 95, tests |-> 85, configures |-> 85,
  contains |-> 70, implements |-> 90, references |-> 70, explains |-> 95]

LogStrength == [
  calls |-> 0, imports |-> -5, tests |-> -16, configures |-> -16, contains |-> -36,
  implements |-> -11, references |-> -36, explains |-> -5]

Weak == {"references", "calls_candidate"}

Structural == {"calls", "imports", "implements", "tests", "configures"}
NonStructural == {"concept", "section", "markdown"}

Preferred == [
  direct_lookup     |-> <<"contains", "imports", "calls", "references">>,
  reverse_lookup    |-> <<"imports", "calls", "implements", "tests", "references", "contains">>,
  multi_hop_path    |-> <<"calls", "imports", "implements", "contains", "references">>,
  blast_radius      |-> <<"calls", "imports", "tests", "configures", "implements", "contains",
                          "references">>,
  subsystem_summary |-> <<"contains", "imports", "calls", "references", "implements",
                          "explains">>]

PreferredFamilies == [
  direct_lookup     |-> <<"hierarchy", "dependency", "execution", "document">>,
  reverse_lookup    |-> <<"dependency", "execution", "type", "validation", "document",
                          "hierarchy">>,
  multi_hop_path    |-> <<"execution", "dependency", "dataflow", "type">>,
  blast_radius      |-> <<"execution", "dependency", "validation", "configuration", "type">>,
  subsystem_summary |-> <<"hierarchy", "dependency", "execution", "document", "type">>]

Classes == DOMAIN Preferred
Prefers(class) == ToSet(Preferred[class])

Direction == [direct_lookup |-> "out", reverse_lookup |-> "in", multi_hop_path |-> "both",
              blast_radius |-> "both", subsystem_summary |-> "both"]
WeakLimit == [direct_lookup |-> 8, reverse_lookup |-> 12, multi_hop_path |-> 6,
              blast_radius |-> 10, subsystem_summary |-> 20]
LeastConf(class) == IF class = "multi_hop_path" THEN 2 ELSE 0

BlastImpact   == {"calls", "imports", "tests", "implements", "references"}
BlastSupport  == {"tests", "configures", "contains", "references", "explains"}
BlastOutgoing == {"calls", "imports", "implements", "contains"}

\* The order of the names, and the place in a list or, for what it lacks, the last.
NameRank == [calls |-> 1, calls_candidate |-> 2, configures |-> 3, contains |-> 4, explains |-> 5,
             implements |-> 6, imports |-> 7, references |-> 8, tests |-> 9]
Position(x, s) == IF x \in ToSet(s) THEN CHOOSE i \in DOMAIN s : s[i] = x ELSE 9

\* relation_rank: by relation, then by family, then by name.
RelationRank == [class \in Classes |-> [e \in Edges |->
                   100 * Position(Type[e], Preferred[class])
                   + 10 * Position(Family[Type[e]], PreferredFamilies[class])
                   + NameRank[Type[e]]]]

-----------------------------------------------------------------------------
(* Orders *)

\* Tuples are compared where they first differ.
Below(k, l) == \E i \in DOMAIN k : k[i] < l[i] /\ \A j \in 1..(i - 1) : k[j] = l[j]

\* How many of S come before x, in the order of a key.
Rank(S, key, x) == Cardinality({y \in S : Below(key[y], key[x])})

InOrder(S, key) ==
  LET rank == [x \in S |-> Rank(S, key, x)]
  IN  [i \in 1..Cardinality(S) |-> CHOOSE x \in S : rank[x] = i - 1]
FirstOf(S, k, key) == {x \in S : Rank(S, key, x) < k}

ByNode == [n \in Nodes |-> <<NodeRank[n]>>]
ByNumber == [e \in Edges |-> <<e>>]
ByRank == [class \in Classes |-> [e \in Edges |-> <<RelationRank[class][e], e>>]]

AtMost(list, k) == SubSeq(list, 1, IF Len(list) < k THEN Len(list) ELSE k)

\* What of a list is in a set.
Among(list, S) ==
  LET at == InOrder({i \in DOMAIN list : list[i] \in S}, [i \in DOMAIN list |-> <<i>>])
  IN  [j \in DOMAIN at |-> list[at[j]]]

-----------------------------------------------------------------------------
(* Edges and packets *)

Bigger(a, b) == IF a > b THEN a ELSE b

Ends(es) == {Source[e] : e \in es} \union {Target[e] : e \in es}
Within(es, ns) == {e \in es : Source[e] \in ns /\ Target[e] \in ns}
Touching(es, ns) == {e \in es : Source[e] \in ns \/ Target[e] \in ns}
Other(e, n) == IF Source[e] = n THEN Target[e] ELSE Source[e]

InForce(g) == g.edges \ g.expired
Degree(g, n) == Cardinality({e \in InForce(g) : Source[e] = n})
                + Cardinality({e \in InForce(g) : Target[e] = n})

\* Nodes in the order in which the edges es meet them.
AsMet(S, es) ==
  InOrder(S, [n \in S |-> <<Min(Touching(es, {n})), NodeRank[n]>>])

\* A packet s that holds these nodes, and of its edges and the others those inside.
Packed(s, nodes, es) == [s EXCEPT !.nodes = nodes, !.edges = Within(@ \union es, nodes)]

-----------------------------------------------------------------------------
(* Graph.expand *)

Value(e) == (Strength[Type[e]] * Conf[e]) \div 10

\* What is left of 100 after a hub of this degree was crossed by e.
Energy(g, n, e) == 100 - (25 * Drain[Degree(g, n)]) \div (10 * Value(e))

Incident(g, n, how) ==
  LET all   == {e \in InForce(g) : \/ how.direction # "in"  /\ Source[e] = n
                                   \/ how.direction # "out" /\ Target[e] = n}
      gated == {e \in all : Type[e] \in how.relations}
  IN  {e \in (IF gated # {} THEN gated ELSE all) : Value(e) > 0}

\* The edges by which a round steps to node m.
Steps(g, how, s, m) ==
  {e \in Touching(InForce(g), {m}) :
     LET n == Other(e, m)
     IN  /\ n \in s.frontier /\ e \in Incident(g, n, how)
         /\ how.hubs => Energy(g, n, e) > 0}

Gain(g, how, n, e) ==
  (Value(e) * Damping[Degree(g, n)] * (IF how.hubs THEN Energy(g, n, e) ELSE 100)) \div 100

\* The sum of the worths of some edges, by their numbers.
Total(es, worth) ==
  LET sum[i \in 0..Max(es \union {0})] ==
        IF i = 0 THEN 0 ELSE sum[i - 1] + (IF i \in es THEN worth[i] ELSE 0)
  IN  sum[Max(es \union {0})]

\* The score of each node that a round reaches.
Scores(g, how, s) ==
  [m \in {m \in how.scope \ s.nodes : Steps(g, how, s, m) # {}} |->
     LET es == Steps(g, how, s, m)
     IN  Total(es, [e \in es |-> Gain(g, how, Other(e, m), e)])]

\* MUTANT of Chosen: a round leaves half of the room to the rounds after it.
ChosenByHalves(score, room) ==
  FirstOf(DOMAIN score, (room + 1) \div 2, [m \in DOMAIN score |-> <<-score[m], NodeRank[m]>>])

\* The best of the nodes reached, as many as there is room for.
Chosen(score, room) ==
  FirstOf(DOMAIN score, room, [m \in DOMAIN score |-> <<-score[m], NodeRank[m]>>])

After(s, how, fresh, next) ==
  [nodes    |-> s.nodes \union next,
   frontier |-> next,
   seen     |-> s.seen \union fresh,
   edges    |-> s.edges \union Within(fresh, s.nodes \union next),
   open     |-> next # {} /\ Cardinality(s.nodes \union next) < how.max]

\* One hop: new edges are noted, the best of the nodes reached are let in.
Hop(g, how, s) ==
  After(s, how, (UNION {Incident(g, n, how) : n \in s.frontier}) \ s.seen,
        Chosen(Scores(g, how, s), how.max - Cardinality(s.nodes)))

\* Before the first hop: the roots, and the edges between them.
Rooted(g, roots) ==
  LET joins == {e \in Within(InForce(g), roots) : Value(e) > 0}
  IN  [nodes |-> roots, frontier |-> roots, seen |-> joins, edges |-> joins, open |-> TRUE]

\* Expansion from the starts: how = [direction, relations, scope, hubs, max].
Expand(g, starts, hops, how) ==
  LET after[i \in 0..hops] ==
        IF i = 0 THEN Rooted(g, starts \cap how.scope)
        ELSE LET s == after[i - 1] IN IF s.open THEN Hop(g, how, s) ELSE s
  IN  after[hops]

-----------------------------------------------------------------------------
(* What a full packet gives up *)

Worth(n) == CASE Kind[n] = "concept" -> 1
              [] Kind[n] \in NonStructural \ {"concept"} -> 2
              [] Kind[n] = "field" -> 3
              [] Kind[n] \in {"function", "method"} -> 4
              [] OTHER -> 5

\* _least_valuable_context_node
ByWorth == [n \in Nodes |-> <<Worth(n), NodeRank[n]>>]

\* Nodes taken away until the packet fits.
Fitted(nodes, protected, max) ==
  nodes \ FirstOf(nodes \ protected, Cardinality(nodes) - max, ByWorth)

\* MUTANT of Admitted: what may go is looked for, but not taken out.
AdmittedBesides(nodes, n, max, protected, worth) ==
  IF n \in nodes \/ (Cardinality(nodes) >= max /\ nodes \subseteq protected) THEN nodes
  ELSE nodes \union {n}

\* A node is let in: into free room, or for the cheapest that may go.
Admitted(nodes, n, max, protected, worth) ==
  IF n \in nodes \/ (Cardinality(nodes) >= max /\ nodes \subseteq protected) THEN nodes
  ELSE IF Cardinality(nodes) < max THEN nodes \union {n}
  ELSE (nodes \ FirstOf(nodes \ protected, 1, worth)) \union {n}

\* The nodes of a list are let in, until none may go: then none of the rest is in.
AdmitAll(list, nodes, max, protected, worth) ==
  LET held[i \in 0..Len(list)] ==
        IF i = 0 THEN nodes ELSE Admitted(held[i - 1], list[i], max, protected, worth)
  IN  held[Len(list)]
=============================================================================
