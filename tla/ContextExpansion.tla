-------------------------- MODULE ContextExpansion --------------------------
(***************************************************************************)
(* expand_context: from the starts of a request to the nodes and edges of  *)
(* its packet, for the classes direct_lookup, reverse_lookup, multi_hop_   *)
(* path with two starts or more, blast_radius and subsystem_summary.       *)
(*                                                                         *)
(* A request q has its class, its starts (a sequence), a budget of nodes,  *)
(* the nodes within its strict scopes, and whether its words ask for calls.*)
(* Nodes and edges are sets: a packet lists its edges in the order of      *)
(* their rank, and last (late, a sequence) those that were appended for    *)
(* its starts.                                                             *)
(***************************************************************************)
EXTENDS ContextGraph

CONSTANTS
  TestDir,      \* the directory of each node's file if it is one of tests, or ""
  Support,      \* the nodes of files called __init__.py, compat.py, conftest.py
  DenseAbove,   \* packets of more nodes than this are throttled (10)
  DenseFloor,   \* the least budget of a dense packet (25)
  TightFloor,   \* the least budget of a cohesive packet (20)
  CallHops,     \* the hops of a path of calls (6)
  BeamWidth     \* how many partial paths a level keeps (32)

ASSUME ExpansionAssumption ==
  /\ DenseAbove \in Nat \ {0}
  /\ {DenseFloor, TightFloor, CallHops, BeamWidth} \subseteq Nat

\* The universe has an edge from each node to the support files of its directory.
ASSUME SupportAssumption ==
  /\ Support \subseteq Nodes
  /\ \A m \in Nodes, n \in Support : TestDir[m] = TestDir[n] /\ TestDir[n] # "" =>
       \E e \in Edges : Source[e] = m /\ Target[e] = n /\ Type[e] = "configures"

Hops(q) == IF q.class \in {"multi_hop_path", "blast_radius"} THEN 2 ELSE 1

StartSet(q) == ToSet(q.starts)
AtStart(q, e) == {Source[e], Target[e]} \cap StartSet(q) # {}

How(q, direction, relations, hubs, max) ==
  [direction |-> direction, relations |-> relations, scope |-> q.scope,
   hubs |-> hubs, max |-> max]

-----------------------------------------------------------------------------
(* multi_hop_path: the proofs first *)

LogTenths == <<-230, -161, -120, -92, -69, -51, -36, -22, -11, 0>>

PathEdgeStrength(e) ==
  (IF Value(e) = 0 THEN -1382 + LogTenths[Conf[e]]
                   ELSE LogStrength[Type[e]] + 2 * LogTenths[Conf[e]])
  + (IF Type[e] \in Prefers("multi_hop_path") THEN 179 ELSE 0)

\* The steps of a level: along each edge from the end of a partial path that
\* leads to no node of it.  A path's edges out come before those in.
Ways(es, beam, root) ==
  LET new(p) == LET b == beam[p[1]]
                IN  /\ b.node \in {Source[p[2]], Target[p[2]]}
                    /\ Other(p[2], b.node) \notin Ends(b.path) \union {root}
  IN  {[at    |-> <<p[1], IF Source[p[2]] = beam[p[1]].node THEN 0 ELSE 1, p[2]>>,
        node  |-> Other(p[2], beam[p[1]].node),
        score |-> beam[p[1]].score + PathEdgeStrength(p[2]),
        path  |-> beam[p[1]].path \union {p[2]}] : p \in {p \in (DOMAIN beam) \X es : new(p)}}

\* The way of a set that was found first, and the strongest, the first of equals.
ByTime(ways) == [w \in ways |-> w.at]
Earliest(ways) == CHOOSE w \in FirstOf(ways, 1, ByTime(ways)) : TRUE

ByStrength(ways) == [w \in ways |-> <<-w.score, w.at[1], w.at[2], w.at[3]>>]
Strongest(ways) == CHOOSE w \in FirstOf(ways, 1, ByStrength(ways)) : TRUE

Ending(ways, n) == {w \in ways : w.node = n}

\* The strongest way to each node; the strongest comes first, and of equals the
\* one to the node that was found first.
Beam(ways) ==
  InOrder({Strongest(Ending(ways, w.node)) : w \in ways},
          [w \in ways |-> LET first == Earliest(Ending(ways, w.node)).at
                          IN  <<-w.score, first[1], first[2], first[3]>>])

NextLevel(level, ways, target) ==
  IF level.found # {} THEN level
  ELSE IF Ending(ways, target) # {} THEN [level EXCEPT !.found = Strongest(Ending(ways, target)).path]
  ELSE [level EXCEPT !.beam = AtMost(Beam(ways), BeamWidth)]

\* _beam_best_path: the strongest of the shortest paths, or none.
BestPath(es, root, target, hops) ==
  LET level[i \in 0..hops] ==
        IF i = 0 THEN [beam |-> <<[at |-> <<0, 0, 0>>, node |-> root, score |-> 0, path |-> {}]>>,
                       found |-> {}]
        ELSE LET from == level[i - 1] IN NextLevel(from, Ways(es, from.beam, root), target)
  IN  level[hops].found

InScope(q, path) == IF Ends(path) \subseteq q.scope THEN path ELSE {}

\* A path joins the proof if the budget holds the nodes of both.
Proven(q, proof, path) ==
  LET nodes == proof.nodes \union Ends(path)
  IN  IF Cardinality(nodes) > q.budget THEN proof
      ELSE [nodes |-> nodes, edges |-> proof.edges \union path]

\* The starts and the paths from the first of them that fit the budget.
Proof(g, q) ==
  LET es   == {e \in InForce(g) : q.asks = "calls" => Type[e] = "calls"}
      hops == IF q.asks = "calls" THEN CallHops ELSE Hops(q)
      proof[i \in 0..(Len(q.starts) - 1)] ==
        IF i = 0 THEN [nodes |-> StartSet(q), edges |-> {}]
        ELSE Proven(q, proof[i - 1], InScope(q, BestPath(es, q.starts[1], q.starts[i + 1], hops)))
  IN  proof[Len(q.starts) - 1]

Sure(class, es) == {e \in es : Conf[e] >= LeastConf(class)}

Assembled(q, path, wide) ==
  [nodes |-> wide.nodes, late |-> <<>>, room |-> q.budget,
   edges |-> Sure(q.class, Within(wide.edges \union path, wide.nodes))]

Widened(g, q, proof) ==
  Assembled(q, proof.edges, Expand(g, proof.nodes, Hops(q),
                                   How(q, "both", Prefers(q.class), FALSE, q.budget)))

\* _expand_monotone_multi_hop
Monotone(g, q) == Widened(g, q, Proof(g, q))

-----------------------------------------------------------------------------
(* blast_radius: three expansions, and what stays next to the starts *)

\* The budgets of callers, of what supports the starts, and of what they use.
\* round() meets no half at a budget below ten.
Shares(n, total) ==
  LET impact  == Bigger(n, (65 * total + 50) \div 100)
      support == Bigger(n, (20 * total + 50) \div 100)
  IN  <<impact, support, Bigger(n, total - impact - support)>>

Branches(q, share) ==
  {<<Hops(q), How(q, "in", BlastImpact, FALSE, share[1])>>,
   <<Hops(q), How(q, "both", BlastSupport, FALSE, share[2])>>,
   <<1, How(q, "out", BlastOutgoing, TRUE, share[3])>>}

United(S) == [nodes |-> UNION {s.nodes : s \in S}, edges |-> UNION {s.edges : s \in S}]

\* _expand_blast_radius
Impact(g, q) ==
  United({Expand(g, StartSet(q), b[1], b[2]) :
            b \in Branches(q, Shares(Len(q.starts), Bigger(Len(q.starts), q.budget)))})

Neighbour(e, starts) == IF Source[e] \in starts THEN Target[e] ELSE Source[e]

EvidencePriority(q, e) == CASE Type[e] = "contains" /\ Target[e] \in StartSet(q) -> 0
                            [] Type[e] # "contains" -> 1
                            [] OTHER -> 2

\* The edges to the four neighbours of the starts that matter most.
StartEvidence(g, q) ==
  AtMost(InOrder({e \in InForce(g) : \/ Type[e] = "contains" /\ AtStart(q, e)
                                     \/ Type[e] \in Structural /\ Source[e] \in StartSet(q)},
                 [e \in Edges |-> <<EvidencePriority(q, e), RelationRank[q.class][e],
                                   NodeRank[Neighbour(e, StartSet(q))], e>>]),
         4)

\* reserve_test_support_files: four of those beside the starts, in the order of ids.
SupportFiles(q) ==
  AtMost(InOrder({n \in Support : TestDir[n] \in {TestDir[m] : m \in StartSet(q)} \ {""}}, ByNode), 4)

\* The edges from a start to a support file of its own test directory.
InSupport(q) == {e \in Edges : /\ Source[e] \in StartSet(q) /\ Target[e] \in Support
                               /\ Type[e] = "configures"
                               /\ TestDir[Source[e]] = TestDir[Target[e]] /\ TestDir[Target[e]] # ""}

\* Of those the ones that are made up for a packet with these nodes: each support
\* file is joined to the first start of its directory that is in the packet.
SupportEdges(q, nodes) ==
  LET near(n) == Among(q.starts, {m \in nodes : TestDir[m] = TestDir[n]})
  IN  {e \in InSupport(q) : /\ Target[e] \in nodes \cap ToSet(SupportFiles(q))
                            /\ Source[e] \in nodes /\ Source[e] = near(Target[e])[1]}

\* The edges that come last: what was found at the starts, then what was made up.
Appended(evidence, made) ==
  evidence \o InOrder(made \ ToSet(evidence), [e \in Edges |-> <<NodeRank[Target[e]], e>>])

WithAppended(s, nodes, list) ==
  [Packed(s, nodes, ToSet(list)) EXCEPT !.late = Among(list, Within(ToSet(list) \ s.edges, nodes))]

\* The neighbours and the support files are let in, at the cost of what is
\* neither one of them nor a start.
WithEvidence(q, s, evidence, list) ==
  LET nodes == AdmitAll(list, s.nodes, s.room, StartSet(q) \union ToSet(list), ByWorth)
  IN  WithAppended(s, nodes, Appended(evidence, SupportEdges(q, nodes)))

\* reserve_start_evidence
StartsReserved(g, q, s) ==
  LET evidence == StartEvidence(g, q)
  IN  IF q.class # "blast_radius" THEN s
      ELSE WithEvidence(q, s, evidence,
                        [i \in DOMAIN evidence |-> Neighbour(evidence[i], StartSet(q))]
                          \o SupportFiles(q))

\* What a supporting neighbour displaces: what a start leads to, else any node.
Displaced(q, es) ==
  LET used == {Target[e] : e \in {f \in es : Source[f] \in StartSet(q)}}
  IN  [n \in Nodes |-> <<IF n \in used THEN 0 ELSE 1, NodeRank[n]>>]

\* The place of an edge among those that came late, or 0.
Place(e, late) == IF e \in ToSet(late) THEN CHOOSE i \in DOMAIN late : late[i] = e ELSE 0

WithSupport(q, s, es, list) ==
  LET nodes == AdmitAll(list, s.nodes, s.room, StartSet(q) \union ToSet(list), Displaced(q, es))
  IN  [s EXCEPT !.nodes = nodes, !.edges = Within(es, nodes)]

\* _reserve_blast_support_evidence, after a partition of what had the edges es.
SupportReserved(q, s, es) ==
  LET near == InOrder({e \in es : Type[e] \in {"tests", "configures"} /\ AtStart(q, e)},
                      [e \in Edges |-> <<Place(e, s.late), RelationRank[q.class][e], e>>])
      list == AtMost(near, 4)
  IN  WithSupport(q, s, es, [i \in DOMAIN list |-> IF Target[list[i]] \in StartSet(q)
                                                   THEN Source[list[i]] ELSE Target[list[i]]])

-----------------------------------------------------------------------------
(* subsystem_summary: one edge per family, fewer documents, more structure *)

\* Of the edges at the starts the best of each family, of four at most.
FamilyEdges(g, q) ==
  LET all   == {e \in InForce(g) : AtStart(q, e)}
      known == {e \in all : Type[e] \in Prefers(q.class)}
      from  == IF known # {} THEN known ELSE all
      alike(e) == {f \in from : Family[Type[f]] = Family[Type[e]]}
      first == {e \in from : e \in FirstOf(alike(e), 1, ByRank[q.class])}
  IN  FirstOf(first, 4, ByRank[q.class])

WithFamilies(q, s, chosen, reserved) ==
  Packed(s, Fitted(s.nodes \union reserved, reserved, q.budget), chosen)

\* _reserve_relation_family_evidence
FamiliesReserved(g, q, s) ==
  LET chosen == FamilyEdges(g, q)
  IN  IF q.class # "subsystem_summary" THEN s
      ELSE WithFamilies(q, s, chosen, StartSet(q) \union Ends(chosen))

IsStructural(n) == Kind[n] \notin NonStructural

\* The score of a node in a list of edges, in hundredths.
EdgeScore(es, n) ==
  LET bonus(e) == CASE Type[e] = "explains" -> 30 [] Type[e] = "contains" -> 25 [] OTHER -> 10
  IN  Max({bonus(e) * Conf[e] : e \in Touching(es, {n})} \union {0})
      + (IF Path[n] # "" THEN 200 ELSE 0)

\* What is not code, and no start: the best of the documents and concepts.
Spared(s, S, limit) ==
  FirstOf(S, limit, [n \in S |-> <<-EdgeScore(s.edges, n), -NodeRank[n]>>])

\* reserve_structural_neighbors: the list, in the order of the graph's edges.
NeighboursOf(g, structural, keep) ==
  LET es == Touching({e \in InForce(g) : Type[e] \in Structural}, structural)
  IN  AtMost(AsMet({n \in Ends(es) \ keep : IsStructural(n)}, es), 12)

\* include_reserved_structural_edges: of all edges, expired ones too.
Restored(g, nodes) == {e \in Within(g.edges, nodes) : Type[e] \in Structural}

\* For structure, documents and concepts make room, but no start does.
WithStructure(g, q, s, structural, keep) ==
  LET nodes == AdmitAll(NeighboursOf(g, structural, keep), keep, s.room,
                        StartSet(q) \union {n \in Nodes : IsStructural(n)}, ByWorth)
  IN  Packed(s, nodes, Restored(g, nodes))

\* prune_doc_concept_noise
NoisePruned(g, q, s) ==
  LET concepts == {n \in s.nodes \ StartSet(q) : Kind[n] = "concept"}
      docs     == {n \in s.nodes \ (StartSet(q) \union concepts) : ~IsStructural(n)}
      structural == s.nodes \ (concepts \union docs)
  IN  IF q.class # "subsystem_summary" THEN s
      ELSE WithStructure(g, q, s, structural,
             UNION {structural, Spared(s, docs, Bigger(6, Min({18, s.room \div 5}))),
                    Spared(s, concepts, Bigger(1, Min({4, s.room \div 30})))})

-----------------------------------------------------------------------------
(* What all classes but multi_hop_path share *)

\* The budget after the density, and after the cohesion, of what was reached.
Dense(q, n, e) ==
  IF 2 * e <= 3 * n THEN q.budget
  ELSE Bigger(DenseFloor, Bigger((2 * q.budget) \div 5, (3 * n * q.budget) \div (2 * e)))

Tight(budget, tight, pairs) ==
  IF 5 * tight <= 2 * pairs THEN budget
  ELSE Bigger(TightFloor, Bigger((3 * budget) \div 5,
                                 (budget * (1268 * pairs - 670 * tight)) \div (1000 * pairs)))

Throttled(q, n, es) ==
  IF n <= DenseAbove THEN q.budget
  ELSE Tight(Dense(q, n, Cardinality(es)), Cardinality({{Source[e], Target[e]} : e \in es}),
             (n * (n - 1)) \div 2)

\* budget_edges.  Lists of twice the limit, which adapt it, do not come up.
Thinned(class, es, room) ==
  LET limit(t) == IF t = "references" THEN Min({WeakLimit[class], Bigger(1, room \div 2)})
                                      ELSE WeakLimit[class]
  IN  {e \in es : Type[e] \in Weak =>
                     Cardinality({f \in es : Type[f] = Type[e] /\ f < e}) < limit(Type[e])}

Reached(g, q) ==
  IF q.class = "blast_radius" THEN Impact(g, q)
  ELSE Expand(g, StartSet(q), Hops(q),
              How(q, Direction[q.class], Prefers(q.class), FALSE, q.budget))

Listed(q, reached) ==
  [nodes |-> reached.nodes, edges |-> reached.edges, late |-> <<>>, room |-> q.budget]

Trimmed(q, s, es, room) == [s EXCEPT !.room = room, !.edges = Thinned(q.class, es, room)]
WithRoom(q, s, es) == Trimmed(q, s, es, Throttled(q, Cardinality(s.nodes), es))
Budgeted(q, s) == WithRoom(q, s, Sure(q.class, s.edges))

\* Up to the partition: nodes, edges, and the budget in force.
Gathered(g, q) ==
  LET listed == Budgeted(q, FamiliesReserved(g, q, Listed(q, Reached(g, q))))
  IN  NoisePruned(g, q, StartsReserved(g, q, listed))

\* What is linked to the roots by edges of es among the nodes ns.
Linked(roots, es, ns) ==
  LET near[i \in 0..Cardinality(ns)] ==
        IF i = 0 THEN roots
        ELSE LET from == near[i - 1]
             IN  from \union {n \in ns : \E e \in es : /\ n \in {Source[e], Target[e]}
                                                      /\ Other(e, n) \in from}
  IN  near[Cardinality(ns)]

\* connected_greedy_context_partition keeps the starts and what its ranking
\* picks of a forest that grows from them.  The ranking is of real numbers and
\* token costs; here any such part, of no more nodes than there is room for.
Partitions(q, s) ==
  LET roots == StartSet(q) \cap s.nodes
  IN  {S \in SUBSET s.nodes : /\ roots \subseteq S
                              /\ Cardinality(S) <= Bigger(s.room, Cardinality(roots))
                              /\ Linked(roots, Within(s.edges, S), S) = S}

\* After a part was kept; an empty one changes nothing.
Part(s, S) == IF S = {} THEN s ELSE [s EXCEPT !.nodes = S, !.edges = Within(@, S)]

Cut(q, s, S) ==
  IF q.class = "blast_radius" THEN SupportReserved(q, Part(s, S), s.edges) ELSE Part(s, S)

\* What fits is kept whole.
Parts(q, s) ==
  IF Cardinality(s.nodes) <= s.room THEN {s} ELSE {Cut(q, s, S) : S \in Partitions(q, s)}

\* round(n + n / sqrt(density)) for n nodes and e edges.
ShapeTarget(n, e) == n + Max({0} \union {k \in 1..n : (2 * k - 1)^2 * e <= 4 * n^3})

Alike(es, e) == {f \in es : Type[f] = Type[e]}
RelationFloor(es, e) ==
  Max({k \in 1..Cardinality(es) : k = 1 \/ k * k <= Cardinality(Alike(es, e))})

\* Those at the starts, then some of each relation, then the best of the rest.
Fan(q, es, target) ==
  LET near == {e \in es : AtStart(q, e)}
      some == {e \in es \ near :
                 Cardinality(Alike(near, e)) + Rank(Alike(es \ near, e), ByNumber, e)
                   < RelationFloor(es, e)}
  IN  FirstOf(es, target, [e \in es |-> <<IF e \in near THEN 0 ELSE IF e \in some THEN 1 ELSE 2,
                                         RelationRank[q.class][e], e>>])

\* shape_edge_budget: a fan of more than two edges a node is thinned.
Shaped(q, s) ==
  LET target == ShapeTarget(Cardinality(s.nodes), Cardinality(s.edges))
  IN  IF \/ q.class \notin {"blast_radius", "subsystem_summary"}
         \/ Cardinality(s.edges) <= 2 * Cardinality(s.nodes) \/ target >= Cardinality(s.edges)
      THEN s
      ELSE [s EXCEPT !.edges = Fan(q, @, target)]
=============================================================================
