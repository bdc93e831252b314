---------------------------- MODULE MCRetrieval ----------------------------
\* Eight nodes: a class c and a class d that implement a trait t, functions f
\* and g, the file m of c and f, a section s and a concept k.  Among the tests,
\* d and t are in a conftest.py (alt) beside the file of g.
EXTENDS Retrieval

MCNodes == {"c", "d", "f", "g", "k", "m", "s", "t"}
MCNodeRank == [c |-> 1, d |-> 2, f |-> 3, g |-> 4, k |-> 5, m |-> 6, s |-> 7, t |-> 8]
MCKind == [c |-> "class", d |-> "class", f |-> "function", g |-> "function",
           k |-> "concept", m |-> "file", s |-> "section", t |-> "trait"]
MCPath == [c |-> "lib", d |-> "alt", f |-> "lib", g |-> "app",
           k |-> "", m |-> "lib", s |-> "doc", t |-> "alt"]

\* source, target, relation, confidence in tenths; in the order of the graph.
Rows == <<
  <<"c", "t", "implements", 9>>,
  <<"d", "c", "calls", 8>>,
  <<"d", "c", "imports", 9>>,
  <<"d", "d", "configures", 8>>,
  <<"d", "m", "calls", 6>>,
  <<"d", "t", "configures", 8>>,
  <<"d", "t", "implements", 9>>,
  <<"f", "c", "calls", 9>>,
  <<"f", "c", "imports", 9>>,
  <<"f", "g", "calls", 8>>,
  <<"g", "c", "calls", 7>>,
  <<"g", "c", "imports", 8>>,
  <<"g", "c", "references", 5>>,
  <<"g", "c", "tests", 9>>,
  <<"g", "d", "calls", 7>>,
  <<"g", "d", "configures", 8>>,
  <<"g", "f", "calls", 9>>,
  <<"g", "f", "tests", 9>>,
  <<"g", "t", "calls_candidate", 3>>,
  <<"g", "t", "configures", 8>>,
  <<"k", "c", "references", 1>>,
  <<"m", "c", "contains", 10>>,
  <<"m", "d", "configures", 8>>,
  <<"m", "f", "contains", 10>>,
  <<"m", "g", "imports", 9>>,
  <<"s", "c", "explains", 9>>,
  <<"s", "m", "references", 4>>,
  <<"t", "d", "configures", 8>>,
  <<"t", "t", "configures", 8>> >>

MCEdges  == DOMAIN Rows
MCSource == [e \in MCEdges |-> Rows[e][1]]
MCTarget == [e \in MCEdges |-> Rows[e][2]]
MCType   == [e \in MCEdges |-> Rows[e][3]]
MCConf   == [e \in MCEdges |-> Rows[e][4]]

Tests == {"d", "g", "t"}
MCSupport == {"d", "t"}
MCTestDir == [n \in MCNodes |-> IF n \in Tests THEN "tests" ELSE ""]
MCMissing == {e \in MCEdges : /\ Rows[e][1] \in Tests /\ Rows[e][2] \in MCSupport
                              /\ Rows[e][3] = "configures"}

\* By degree, which is below that of all edges together; a node that touches no
\* edge counts as one that touches one.
ByDegree(table) == [d \in 0..(2 * Cardinality(MCEdges)) |-> table[Bigger(1, Min({d, Len(table)}))]]
MCDamping == ByDegree(<<
    1000, 707, 577, 500, 447, 408, 378, 354, 333, 316, 302, 289,
    277, 267, 258, 250, 243, 236, 229, 224, 218, 213, 209, 204,
    200, 196, 192, 189, 186, 183, 180, 177, 174, 171, 169, 167,
    164, 162, 160, 158, 156, 154, 152, 151, 149, 147>>)
MCDrain == ByDegree(<<
    1000, 1301, 1477, 1602, 1699, 1778, 1845, 1903, 1954, 2000, 2041, 2079,
    2114, 2146, 2176, 2204, 2230, 2255, 2279, 2301, 2322, 2342, 2362, 2380,
    2398, 2415, 2431, 2447, 2462, 2477, 2491, 2505, 2519, 2531, 2544, 2556,
    2568, 2580, 2591, 2602, 2613, 2623, 2633, 2643, 2653, 2663>>)

Lib == {"c", "f", "m"}
Code == MCNodes \ {"k", "s"}

Of(class, anchors, asks, budgets, scopes, inferred, named, modified, members, exact) ==
  [class : {class}, anchors : anchors, asks : asks, budget : budgets, scope : scopes,
   inferred : inferred, named : named,
   expired : {{}, {8, 15}, {7, 14, 22}, {2, 11, 18, 25}, {1, 13}},
   modified : modified, members : members, exact : exact]

One == {<<n>> : n \in Code}
Two == {<<m, n>> : m \in {"c", "f", "t"}, n \in {"d", "g", "m"}}

MCSearches == UNION {
  Of("reverse_lookup", One \union Two, {"any", "calls", "tests"}, 2..6, {MCNodes, Code},
     {{}, Lib}, {{}}, {<<>>}, {<<>>}, {FALSE}),
  Of("reverse_lookup", {<<"c">>, <<"t">>}, {"tests"}, 2..6, {MCNodes}, {{}}, {{}}, {<<>>},
     {<<"f">>}, {FALSE}),
  Of("reverse_lookup", {<<"t">>, <<"t", "f">>, <<"m", "t">>, <<"c", "t">>, <<"d">>, <<"f", "d">>,
                        <<"m", "d">>}, {"any", "calls", "tests"}, 2..6,
     {Code \ {"d"}, Code \ {"c"}, Code \ {"t"}}, {{}}, {{}}, {<<>>}, {<<>>}, {FALSE}),
  Of("direct_lookup", One \union Two, {"any", "calls"}, {2, 4}, {MCNodes}, {{}, Lib}, {{}},
     {<<>>}, {<<>>}, BOOLEAN),
  Of("multi_hop_path", Two \union {<<"f", "m", "t">>, <<"c", "g", "m">>}, {"any", "calls"},
     2..7, {MCNodes, Code}, {{}}, {{}}, {<<>>}, {<<>>}, BOOLEAN),
  Of("blast_radius", One \union Two, {"any"}, {2, 4, 6, 8, 9}, {MCNodes}, {{}, Lib},
     {{}, {"f", "m"}}, {<<>>}, {<<>>}, {FALSE}),
  Of("subsystem_summary", One \union {<<"c", "g">>}, {"any"}, {2, 4, 6, 8}, {MCNodes},
     {{}, Lib}, {{}, {"f", "m"}}, {<<>>, <<"f">>}, {<<>>}, {FALSE})}
=============================================================================
