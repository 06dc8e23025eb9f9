---------------------------- MODULE MCAccounts ----------------------------
(* Two request threads, the initial superadmin and one more account.       *)
EXTENDS Accounts, TLC

Symmetry == Permutations(Threads) \cup Permutations(Ids)

=============================================================================
