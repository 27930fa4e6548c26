------------------------------ MODULE MCAccounts ------------------------------
(***************************************************************************)
(* Accounts for TLC.  Calls and addresses are interchangeable.             *)
(***************************************************************************)
EXTENDS Accounts, TLC

Symmetry == Permutations(Call) \cup Permutations(Email)
=============================================================================
