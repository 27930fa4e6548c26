-------------------------------- MODULE MCChat --------------------------------
(***************************************************************************)
(* Chat for TLC.  Calls and users are interchangeable.                     *)
(***************************************************************************)
EXTENDS Chat, MCIds, TLC

Symmetry == Permutations(Call) \cup Permutations(User)

\* Calls arrive in a fixed order: renaming the calls of a behaviour gives one
\* that does.
Turn ==
  CHOOSE t \in [Call -> 1 .. Cardinality(Call)] :
    \A r, s \in Call : t[r] = t[s] => r = s

InTurn ==
  \A r, s \in Call :
    call[r].pc = "idle" /\ call'[r].pc # "idle" /\ Turn[s] < Turn[r] =>
      call[s].pc # "idle"

\* Whether two messages have one time makes no difference to any property of
\* the run with fairness.
Ticks ==
  \A r \in Call :
    call[r].pc = "createMessage" /\ call'[r].pc = "insertMessage" => clock' # clock

MCFairSpec == Init /\ [][Next /\ InTurn /\ Ticks]_vars /\ Fairness
=============================================================================
