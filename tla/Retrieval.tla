------------------------------ MODULE Retrieval ------------------------------
(***************************************************************************)
(* A structural query, from its anchors to a packet and its receipt: the   *)
(* phases of _execute_anchor_search behind the ranking and of              *)
(* _assemble_retrieval_result.                                             *)
(*                                                                         *)
(* What is decided by words is an input: the anchors that were ranked, the *)
(* siblings a query names, the relation it asks for, whether a facet lacks *)
(* evidence, whether the anchors are trusted.                              *)
(***************************************************************************)
EXTENDS ContextExpansion

CONSTANTS
  Missing,  \* edges that the graph lacks: only packets have them, made up for support files
  Searches
  \* Records of class, anchors and modified (sequences of nodes), asks ("any",
  \* "calls", "tests"), budget, scope (the nodes within the strict scopes),
  \* inferred (those within the inferred one, or none), expired (edges), named
  \* (nodes), members (a sequence: of the contracts whose uses by tests the words
  \* ask for, the methods, functions and fields), exact (were the anchors named
  \* exactly?).

ASSUME SearchAssumption ==
  \A r \in Searches :
    /\ r \in [class : Classes, anchors : Seq(Nodes), modified : Seq(Nodes),
              asks : {"any", "calls", "tests"}, budget : Nat, scope : SUBSET Nodes,
              inferred : SUBSET Nodes, expired : SUBSET Edges, named : SUBSET Nodes,
              members : Seq(Nodes), exact : BOOLEAN]
    /\ r.anchors # <<>>

VARIABLES
  search,   \* the request, with its starts
  stage,
  packet,   \* nodes, edges, which of those came late, and the budget in force (room)
  removed,  \* direct answers that a rule other than the budget took out
  pruned,   \* starts that were dropped because they touched no edge
  receipt   \* status, abstained, omitted neighbours, minimum, complete

searchVars == <<search, stage, packet, removed, pruned, receipt>>

Graph == [edges |-> Edges \ Missing, expired |-> search.expired]

Empty == [nodes |-> {}, edges |-> {}, late |-> <<>>, room |-> search.budget]
Answerable == [status |-> "answerable", abstained |-> FALSE, omitted |-> {},
               minimum |-> FALSE, complete |-> FALSE]

SearchInit ==
  /\ \E r \in Searches :
       search = [x \in DOMAIN r \union {"starts"} |-> IF x = "starts" THEN r.anchors ELSE r[x]]
  /\ stage = "anchor"
  /\ packet = Empty
  /\ removed = {} /\ pruned = {}
  /\ receipt = Answerable

Go(from, to) == stage = from /\ stage' = to

-----------------------------------------------------------------------------
(* From anchors to starts *)

\* Who implements an anchor is asked about too.
Implementors(g, anchors) ==
  LET es == {e \in InForce(g) : Type[e] = "implements" /\ Target[e] \in ToSet(anchors)}
  IN  AsMet({Source[e] : e \in es} \ ToSet(anchors), es)

\* A list, and of the members those that are not in it.
Joined(list, members) == list \o Among(members, Nodes \ ToSet(list))

\* reserve_reverse_contract_starts
ContractStarts(g, r) == Joined(r.anchors \o Implementors(g, r.anchors), r.members)

\* Dirty files join the starts of a summary, within the inferred scope.
SessionStarts(r) ==
  r.anchors \o Among(r.modified, {n \in Nodes \ ToSet(r.anchors) :
                                    r.inferred = {} \/ n \in r.inferred})

Starts ==
  AtMost(CASE search.class = "reverse_lookup" -> ContractStarts(Graph, search)
           [] search.class = "subsystem_summary" -> SessionStarts(search)
           [] OTHER -> search.anchors, 12)

Anchor ==
  /\ Go("anchor", "expand")
  /\ search' = [search EXCEPT !.starts = Starts]
  /\ UNCHANGED <<packet, removed, pruned, receipt>>

-----------------------------------------------------------------------------
(* expand_context *)

ExpandPaths ==
  /\ search.class = "multi_hop_path"
  /\ Go("expand", "reserve")
  /\ packet' = Monotone(Graph, search)
  /\ UNCHANGED <<search, removed, pruned, receipt>>

ExpandOthers ==
  /\ search.class # "multi_hop_path"
  /\ Go("expand", "partition")
  /\ packet' = Gathered(Graph, search)
  /\ UNCHANGED <<search, removed, pruned, receipt>>

\* What was reached fits, or a part of it is kept; a summary then has its
\* families again, and a fan of edges is thinned.
Partition ==
  /\ Go("partition", "reserve")
  /\ \E s \in Parts(search, packet) : packet' = Shaped(search, FamiliesReserved(Graph, search, s))
  /\ UNCHANGED <<search, removed, pruned, receipt>>

-----------------------------------------------------------------------------
(* What is reserved beside the expansion *)

\* Code named by the query beside the starts, in the file of one of them.
NamedSiblings(r, s) ==
  AtMost(InOrder({n \in r.named \ s.nodes : /\ Path[n] \in {Path[m] : m \in StartSet(r)} \ {""}
                                            /\ IsStructural(n) /\ Kind[n] # "field"}, ByNode), 12)

\* The edges at the starts or siblings, and the hierarchy of the packet.
WithSiblings(g, s, nodes, protected) ==
  Packed(s, nodes, {e \in InForce(g) : \/ {Source[e], Target[e]} \cap protected # {}
                                       \/ Type[e] \in {"contains", "implements"}})

\* reserve_query_named_siblings
SiblingsReserved(g, r, s) ==
  LET list == NamedSiblings(r, s)
      protected == StartSet(r) \union ToSet(list)
  IN  IF r.class \notin {"blast_radius", "subsystem_summary"} \/ list = <<>> THEN s
      ELSE WithSiblings(g, s, AdmitAll(list, s.nodes, r.budget, protected, ByWorth), protected)

\* _reverse_lookup_relations
ReverseRelations(r) ==
  CASE r.asks = "calls" -> {"calls"}
    [] r.asks = "tests" -> {"calls", "references", "tests"}
    [] OTHER -> Prefers("reverse_lookup")

\* The edges that answer a reverse lookup of these nodes directly.
AnswersTo(starts, g, r) ==
  {e \in InForce(g) : /\ Target[e] \in starts /\ Source[e] \in r.scope
                      /\ Type[e] \in ReverseRelations(r)
                      /\ Conf[e] >= LeastConf(r.class)}

Answers(g, r) == AnswersTo(StartSet(r), g, r)

AnswerOrder(g, r) ==
  InOrder(Answers(g, r), [e \in Edges |-> <<RelationRank[r.class][e], -Conf[e], e>>])

\* Who answers is let in, at the cost of what does not and is no start.
WithAnswers(r, s, es, from) ==
  Packed(s, AdmitAll(from, s.nodes, r.budget, StartSet(r) \union ToSet(from), ByWorth), es)

\* MUTANT of AnswersReserved: answers reached late do not displace context.
AnswersReservedIfFree(g, r, s) ==
  LET list == AnswerOrder(g, r)
      from == [i \in DOMAIN list |-> Source[list[i]]]
  IN  Packed(s, AdmitAll(from, s.nodes, r.budget, s.nodes, ByWorth), Answers(g, r))

\* reserve_reverse_direct_neighbors
AnswersReserved(g, r, s) ==
  LET list == AnswerOrder(g, r)
  IN  WithAnswers(r, s, Answers(g, r), [i \in DOMAIN list |-> Source[list[i]]])

\* prune_concrete_contract_siblings: those who implement what an anchor implements.
ContractSiblings(g, r) ==
  LET roots == {n \in ToSet(AtMost(r.anchors, 12)) : Kind[n] \notin {"interface", "trait"}}
      promises == {e \in InForce(g) : Type[e] = "implements"}
      contracts == {Target[e] : e \in {f \in promises : Source[f] \in roots}} \ roots
  IN  {Source[e] : e \in {f \in promises : Target[f] \in contracts}} \ roots

Limited(s, ns) == [s EXCEPT !.nodes = ns, !.edges = Within(@, ns)]

ReserveAnswers ==
  /\ search.class = "reverse_lookup"
  /\ Go("reserve", "constrain")
  /\ \E s \in {AnswersReserved(Graph, search, packet)} :
       LET siblings == ContractSiblings(Graph, search)
       IN  /\ packet' = Limited(s, s.nodes \ siblings)
           /\ removed' = removed \union (s.nodes \cap siblings)
  /\ UNCHANGED <<search, pruned, receipt>>

ReserveSiblings ==
  /\ search.class # "reverse_lookup"
  /\ Go("reserve", "constrain")
  /\ packet' = SiblingsReserved(Graph, search, packet)
  /\ UNCHANGED <<search, removed, pruned, receipt>>

-----------------------------------------------------------------------------
(* What the packet may not hold *)

\* The exact question for callees is read from the graph.
CallsOf(g, r) ==
  LET calls == {e \in InForce(g) : Type[e] = "calls" /\ Source[e] \in StartSet(r)}
  IN  [nodes |-> StartSet(r) \union {Target[e] : e \in calls}, edges |-> calls,
       late |-> <<>>, room |-> r.budget]

\* prune_unexplained_structural_nodes
Explained(r, s) ==
  IF r.class \notin {"blast_radius", "multi_hop_path", "reverse_lookup"} THEN s
  ELSE Limited(s, s.nodes \cap (StartSet(r) \union Ends(s.edges)))

\* cap_inferred_scope_crossings: the starts outside and the best linked others.
Log2Above(n) == Min({k \in 0..n : 2^k > n})

CrossingLimit(inside, starts) ==
  Min({12, starts + Bigger(2, Min({6, Log2Above(inside)}))})

LinkScore(s, inside, n) ==
  LET es == Touching(s.edges, {n})
  IN  Total(es, [e \in es |-> (IF Other(e, n) \in inside THEN 8 ELSE 1) * Value(e)])

WithCrossings(s, inside, starts, others, limit) ==
  Limited(s, inside \union starts
             \union FirstOf(others, limit - Cardinality(starts),
                            [n \in others |-> <<-LinkScore(s, inside, n), NodeRank[n]>>]))

CrossingsCapped(r, s) ==
  LET inside == s.nodes \cap r.inferred
      starts == (s.nodes \ inside) \cap StartSet(r)
  IN  IF r.inferred = {} \/ (r.class = "multi_hop_path" /\ r.exact) \/ s.nodes = inside THEN s
      ELSE WithCrossings(s, inside, starts, s.nodes \ (inside \union starts),
                         CrossingLimit(Cardinality(inside), Cardinality(starts)))

\* Here exact callees replace the packet; the last cut is to the strict scopes.
InExactly(g, r, s) ==
  IF r.class = "direct_lookup" /\ r.exact /\ r.asks = "calls" THEN CallsOf(g, r) ELSE s

Scoped(r, s) == Limited(s, s.nodes \cap r.scope)

Constrain ==
  /\ Go("constrain", "anchors")
  /\ \E s \in {Explained(search, InExactly(Graph, search, packet))} :
       \E t \in {Scoped(search, CrossingsCapped(search, s))} :
         /\ packet' = t
         /\ removed' = removed \union (s.nodes \ t.nodes)
  /\ UNCHANGED <<search, pruned, receipt>>

\* prune_unsupported_anchors: a start that touches no edge goes, unless none
\* does, or it was ranked first or named exactly.
PruneAnchors ==
  LET covered == Ends(packet.edges)
      safe    == {search.anchors[1]} \union (IF search.exact THEN ToSet(search.anchors) ELSE {})
      idle    == IF StartSet(search) \cap covered = {} THEN {} ELSE StartSet(search) \ (covered \union safe)
  IN  /\ Go("anchors", "facets")
      /\ pruned' = idle
      /\ packet' = [packet EXCEPT !.nodes = @ \ idle]
      /\ search' = [search EXCEPT !.starts = Among(@, Nodes \ idle)]
      /\ UNCHANGED <<removed, receipt>>

-----------------------------------------------------------------------------
(* The receipt *)

Abstained == [receipt EXCEPT !.status = "incomplete", !.abstained = TRUE]

\* exact_path_obligation_closure
DirectedFrom(n, es, ns) ==
  LET reach[i \in 0..Cardinality(ns)] ==
        IF i = 0 THEN {n} \cap ns
        ELSE LET from == reach[i - 1]
             IN  from \union {Target[e] : e \in {f \in Within(es, ns) : Source[f] \in from}}
  IN  reach[Cardinality(ns)]

PathsProven ==
  StartSet(search) \subseteq
    DirectedFrom(search.starts[1],
                 {e \in packet.edges \ search.expired : search.asks = "calls" => Type[e] = "calls"},
                 packet.nodes)

\* Facets first; an exact path must then be proved end to end.
JudgeFacets ==
  /\ Go("facets", "evidence")
  /\ \E lacking \in BOOLEAN :
       /\ lacking => search.class # "multi_hop_path"
       /\ receipt' = IF search.class = "multi_hop_path" /\ search.exact /\ Len(search.starts) >= 2 /\ ~PathsProven
                     THEN Abstained
                     ELSE [receipt EXCEPT !.status = IF lacking THEN "incomplete" ELSE @]
  /\ UNCHANGED <<search, packet, removed, pruned>>

\* relationship_obligation_coverage: the edges one of which must be there.
Obliged(r, es) ==
  LET apart == {e \in es \ r.expired : Source[e] # Target[e]}
  IN  CASE r.class = "reverse_lookup" ->
             {e \in apart : /\ Target[e] \in StartSet(r)
                            /\ Type[e] \in (CASE r.asks = "calls" -> {"calls"}
                                              [] r.asks = "tests" -> {"tests", "calls", "references"}
                                              [] OTHER -> {"calls", "implements", "references",
                                                           "tests", "imports"})}
        [] r.class = "direct_lookup" ->
             {e \in apart : Source[e] \in StartSet(r) /\ Type[e] = "calls"}
        [] OTHER ->
             {e \in es \ r.expired :
                IF r.asks = "calls" THEN Type[e] = "calls"
                ELSE Type[e] \in {"calls", "imports", "implements", "references", "contains"}}

HasObligation(r) == \/ r.class \in {"reverse_lookup", "multi_hop_path"}
                    \/ r.class = "direct_lookup" /\ r.asks = "calls"

\* reverse_lookup_truncation: known neighbours without an edge in the packet.
Omitted(g, r, s) ==
  LET returned == {e \in s.edges : /\ Target[e] \in StartSet(r) /\ Source[e] \in s.nodes
                                          /\ Type[e] \in ReverseRelations(r)}
  IN  {Source[e] : e \in Answers(g, r)} \ {Source[e] : e \in returned}

JudgeEvidence ==
  /\ Go("evidence", "documents")
  /\ LET omitted  == IF search.class = "reverse_lookup" THEN Omitted(Graph, search, packet) ELSE {}
         unproven == /\ HasObligation(search) /\ Obliged(search, packet.edges) = {}
                     /\ receipt.status = "answerable"
         judged   == IF unproven \/ omitted # {} THEN Abstained ELSE receipt
     IN  receipt' = [judged EXCEPT !.omitted = omitted]
  /\ UNCHANGED <<search, packet, removed, pruned>>

\* An anchor in a document that the scanner cut short makes the answer partial.
JudgeDocuments ==
  /\ Go("documents", "finish")
  /\ \E clipped \in BOOLEAN :
       receipt' = [receipt EXCEPT !.status = IF clipped /\ @ = "answerable" THEN "partial" ELSE @]
  /\ UNCHANGED <<search, packet, removed, pruned>>

\* _record_evidence_and_completeness
Recorded(r, starts, s) ==
  LET minimum == r.status # "unanswerable" /\ (starts # <<>> \/ s.nodes # {})
  IN  [r EXCEPT !.minimum = minimum,
                !.complete = /\ minimum /\ r.status = "answerable" /\ ~r.abstained
                             /\ r.omitted = {}]

\* An answer that is not incomplete is kept if its anchors are trusted: by
\* facets, by their confidence, or by a strict winner among them.
Conclude ==
  /\ Go("finish", "done")
  /\ \E trusted \in BOOLEAN :
       IF trusted \/ receipt.status = "incomplete"
       THEN /\ receipt' = Recorded(receipt, search.starts, packet)
            /\ UNCHANGED <<search, packet>>
       ELSE /\ packet' = Empty
            /\ search' = [search EXCEPT !.starts = <<>>]
            /\ receipt' = Recorded([receipt EXCEPT !.status = "unanswerable", !.abstained = TRUE],
                                   <<>>, Empty)
  /\ UNCHANGED <<removed, pruned>>

SearchNext ==
  \/ Anchor \/ ExpandPaths \/ ExpandOthers \/ Partition \/ ReserveAnswers
  \/ ReserveSiblings \/ Constrain \/ PruneAnchors \/ JudgeFacets \/ JudgeEvidence
  \/ JudgeDocuments \/ Conclude

SearchSpec == SearchInit /\ [][SearchNext]_searchVars

-----------------------------------------------------------------------------
(* Properties *)

Delivered == stage = "done" /\ receipt.status # "unanswerable"

\* The starts that were asked about, those that were pruned included.
Asked == StartSet(search) \union pruned

\* The most nodes a packet may have.  The starts stay whatever the budget; a
\* summary keeps a node for each of four families beside them; the throttle of
\* a dense or cohesive packet has a floor above a smaller budget.
Allowed ==
  Bigger(packet.room, Bigger(search.budget,
    Cardinality(Asked) + (IF search.class = "subsystem_summary" THEN 4 ELSE 0)))

\* What may join two nodes of a packet: an edge in force; an expired one in a
\* summary; and around a start that is a test, one made up for a support file.
Permitted(g, r) ==
  CASE r.class = "subsystem_summary" -> g.edges
    [] r.class = "blast_radius" -> InForce(g) \union InSupport(r)
    [] OTHER -> InForce(g)

\* The packet is a subgraph within its budget: both ends of each edge are in
\* it, and the graph has each edge but those that join a start of a blast radius
\* to a support file of its tests; each start that was not pruned or out of scope
\* or taken as a contract sibling is kept, and the evictions that make room for
\* what is reserved never let the packet outgrow its bound.
PacketIsSound ==
  Delivered =>
    /\ Ends(packet.edges) \subseteq packet.nodes
    /\ packet.edges \subseteq Permitted(Graph, search)
    /\ StartSet(search) \cap search.scope \subseteq packet.nodes \union removed
    /\ \/ search.class = "direct_lookup" /\ search.exact /\ search.asks = "calls"
       \/ Cardinality(packet.nodes) <= Allowed

\* A reverse lookup spends its budget on direct answers first: one to a start
\* that the packet shows is missing only if starts and answers, to the starts
\* that were pruned too, fill the packet, or a rule other than the budget took it
\* out.  And the receipt says so: a complete answer lacks none of them.
DirectAnswersFirst ==
  (Delivered /\ search.class = "reverse_lookup") =>
    LET shown == {e \in Answers(Graph, search) : Target[e] \in packet.nodes}
    IN  /\ \/ {Source[e] : e \in shown} \ packet.nodes \subseteq removed
           \/ packet.nodes \subseteq
                Asked \union {Source[e] : e \in AnswersTo(Asked, Graph, search)}
        /\ receipt.complete => {Source[e] : e \in Answers(Graph, search)} \subseteq packet.nodes

\* A larger budget extends a path packet: if the same proofs fit both budgets,
\* no node that the smaller one shows is given up for others by the larger.
ExtendedBy(wider) ==
  Proof(Graph, search).nodes = Proof(Graph, wider).nodes
    => packet.nodes \subseteq Monotone(Graph, wider).nodes

LargerBudgetsExtend ==
  (stage = "reserve" /\ search.class = "multi_hop_path")
    => ExtendedBy([search EXCEPT !.budget = @ + 1])
=============================================================================
