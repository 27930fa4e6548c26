------------------------------ MODULE MCBrowser ------------------------------
(***************************************************************************)
(* Browser for TLC.  Calls are interchangeable.                            *)
(***************************************************************************)
EXTENDS Browser, TLC

Symmetry == Permutations(Call)
=============================================================================
