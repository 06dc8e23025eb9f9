----------------------------- MODULE MCLockout -----------------------------
(* Three requests over two keys; two attempts lock, for one, then two,     *)
(* then the cap of three seconds.                                          *)
EXTENDS Lockout, TLC

Symmetry == Permutations(LoginThreads) \cup Permutations(Keys)

=============================================================================
