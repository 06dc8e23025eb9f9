---------------------------- MODULE MCDetection ----------------------------
(* Kind "fail" meets the first step and the middle one, "pass" the last.   *)
(* Both make the threshold rule look, but only "fail" equals its value, as *)
(* under an operator that is not eq.  One captured value:                  *)
(* the table's entries of others never change what happens to its own.     *)
EXTENDS Detection, TLC

MCHits  == [fail |-> {0, 1}, pass |-> {2}]
MCKinds == {"fail", "pass"}
MCTriggers == {"fail", "pass"}
MCCounted  == {"fail"}

Symmetry == Permutations(Threads)

=============================================================================
