----------------------------- MODULE Processes -----------------------------
(* Those who take the file locks: processes, and the threads in them. *)
CONSTANTS
  Procs,   \* the contenders for a lock
  NoProc   \* nobody

ASSUME ContenderAssumption == NoProc \notin Procs
=============================================================================
