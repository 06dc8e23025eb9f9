---------------------------- MODULE MCAlertFile ----------------------------
(* Two ingest threads racing for the rotation, a baseline job appending     *)
(* beside them, files of two lines, one line a second.                      *)
EXTENDS AlertFile, TLC

Symmetry == Permutations(RuleThreads)

=============================================================================
