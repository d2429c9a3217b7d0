------------------------------ MODULE MCAccounts ------------------------------
(* Instances of Accounts for TLC. *)
EXTENDS Accounts, TLC

Symmetry == Permutations(Threads) \cup Permutations(Invitations) \cup Permutations(Names)
=============================================================================
