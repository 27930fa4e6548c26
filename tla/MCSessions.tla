------------------------------ MODULE MCSessions ------------------------------
(***************************************************************************)
(* Sessions for TLC.  Calls are interchangeable.                           *)
(***************************************************************************)
EXTENDS Sessions, TLC

Symmetry == Permutations(Call)
=============================================================================
