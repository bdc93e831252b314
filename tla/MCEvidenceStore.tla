--------------------------- MODULE MCEvidenceStore ---------------------------
(* A test and the source it is named after; two releases of the providers.   *)
EXTENDS EvidenceStore

MCRelease == [p \in Procs |-> IF p = "old" THEN 1 ELSE 2]
MCFailing == {<<"new", "app">>}
MCOrder   == <<"app", "test">>
MCTests   == << <<"test", "app">> >>

\* No source, a variable that is read, and more than the provider's limits take.
MCFound ==
  [none |-> [nodes |-> <<>>, edges |-> <<>>],
   c0 |-> [nodes |-> <<"x">>, edges |-> << <<Owner, "x">> >>],
   c2 |-> [nodes |-> <<"x", "y", "z">>, edges |-> << <<Owner, "x">>, <<"x", "z">>, <<Owner, Owner>> >>]]

Request(preferred, nodes, edges, known) ==
  [preferred |-> preferred, nodes |-> nodes, edges |-> edges, known |-> known]
Tied == {<< <<"test", Owner>>, <<"app", Owner>> >>}
MCRequests == {Request(<<"test">>, 2, 1, Tied)}

\* evidence.json of the old release, without the structural provider.
MCLegacy == {<<[version |-> 0, rows |-> <<>>],
               [version |-> 1, rows |-> "app" :> [hash |-> "c2", of |-> "c2", by |-> 1, failed |-> FALSE]]>>}
=============================================================================
