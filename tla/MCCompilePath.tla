---------------------------- MODULE MCCompilePath ----------------------------
EXTENDS CompilePath, TLC
Plain        == [mode |-> "auto", refresh |-> FALSE, anchored |-> FALSE, exact |-> FALSE,
                 snippets |-> FALSE, federated |-> FALSE]
Materialized == [Plain EXCEPT !.mode = "all", !.snippets = TRUE]
Federated    == [Plain EXCEPT !.refresh = TRUE, !.federated = TRUE]
MCRequests   == {Materialized, Federated}

\* The first update changes edges only.
MCText == [v \in 0 .. MaxChanges |-> IF v <= 1 THEN 0 ELSE v]

Symmetry == Permutations(Queries)
=============================================================================
