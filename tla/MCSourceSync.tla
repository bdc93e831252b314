---------------------------- MODULE MCSourceSync ----------------------------
(* Two paths, so that an update of one can hide the other; contents are       *)
(* interchangeable, and so are the paths.                                     *)
EXTENDS SourceSync, TLC

Symmetry == Permutations(Paths) \union Permutations(Contents)
=============================================================================
