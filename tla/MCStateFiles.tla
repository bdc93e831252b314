---------------------------- MODULE MCStateFiles ----------------------------
(* One store and one journal: an older release left a record and an episode. *)
EXTENDS StateFiles

Symmetry == Permutations(Procs)
E1 == [id |-> "a", supersedes |-> "none"]
E2 == [id |-> "b", supersedes |-> "a"]
E3 == [id |-> "b", supersedes |-> "none"]
MCRows == {E1, E2, E3}
MCSplit == {E3}
MCBatches == [j \in Journals |-> {<<E1>>, <<E2>>, <<E2, E1>>, <<E3, E2>>}]
MCOldStores == {{"a"}}
MCOldTexts == {<<>>, <<E1>>}
=============================================================================
