-------------------------- MODULE MCGraphLoadCache --------------------------
(* One loading thread, which the seeds of a local writer overtake, beside a  *)
(* writer of another process: enough writes for an append, a rewrite that    *)
(* folds it, and an append behind the rewrite.                               *)
EXTENDS GraphLoadCache
=============================================================================
