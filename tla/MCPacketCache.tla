---------------------------- MODULE MCPacketCache ----------------------------
(* Nothing in PacketCache tells two queries, two keys or two contents of the *)
(* base file apart.  There is one key more than there is room for.           *)
EXTENDS PacketCache, TLC

Symmetry == Permutations(Queries) \union Permutations(Keys) \union Permutations(Contents)
=============================================================================
