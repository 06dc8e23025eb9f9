--------------------------- MODULE MCSuppression ---------------------------
(* Two ingest threads, two keys, rules with suppression off or two ticks    *)
(* long; one restart.                                                       *)
EXTENDS Suppression, TLC

Symmetry == Permutations(Threads) \cup Permutations(Keys)

=============================================================================
