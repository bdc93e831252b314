----------------------------- MODULE MCFileLock -----------------------------
(* Three contenders, so that a waiter, a holder and a newcomer coexist; as   *)
(* many inodes, so that a removed and recreated file would be a new one.     *)
EXTENDS FileLock
=============================================================================
