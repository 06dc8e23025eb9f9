------------------------------ MODULE MCCases ------------------------------
(* One linked item, named once or twice in a request: links of different   *)
(* items never meet.                                                       *)
EXTENDS Cases

CONSTANT i1

MCGiven == {<<>>, <<i1>>, <<i1, i1>>}
MCLists == {<<i1>>, <<i1, i1>>}

Symmetry == Permutations(Threads)

=============================================================================
