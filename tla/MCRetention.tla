---------------------------- MODULE MCRetention ----------------------------
(* The daemon thread and one request, batches of two among three events,   *)
(* two cutoffs, one crash or failed write.                                 *)
EXTENDS Retention, TLC

Symmetry == Permutations(Threads)

=============================================================================
