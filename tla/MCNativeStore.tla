---------------------------- MODULE MCNativeStore ----------------------------
(* A node and an edge at it, so that an update can touch one key and leave   *)
(* the other and a deletion can cascade; one value beside Absent, so that a  *)
(* record can add a key, remove it or not touch it.                          *)
EXTENDS NativeStore, TLC

CONSTANTS node, edge

MCEnds == node :> {} @@ edge :> {node}
=============================================================================
