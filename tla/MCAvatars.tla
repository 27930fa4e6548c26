------------------------------ MODULE MCAvatars ------------------------------
(***************************************************************************)
(* Avatars for TLC.  Calls and users are interchangeable.                  *)
(***************************************************************************)
EXTENDS Avatars, TLC

Symmetry == Permutations(Call) \cup Permutations(User)
=============================================================================
