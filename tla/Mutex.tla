------------------------------- MODULE Mutex -------------------------------
(***************************************************************************)
(* What runtime/state.py promises its callers by `with file_lock(path):`   *)
(* at most one contender runs the guarded body at a time.  How contenders  *)
(* wait, give up or die is not part of the promise.                        *)
(***************************************************************************)
CONSTANT Procs

VARIABLE inside      \* the contenders between acquisition and release

Init == inside = {}

Enter(p) == inside = {} /\ inside' = {p}

Leave(p) == p \in inside /\ inside' = inside \ {p}

Next == \E p \in Procs : Enter(p) \/ Leave(p)

Spec == Init /\ [][Next]_inside
=============================================================================
