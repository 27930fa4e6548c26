-------------------------------- MODULE MCIds --------------------------------
(***************************************************************************)
(* The ids that clients write, for TLC: <<i>> is the id i in upper case.   *)
(***************************************************************************)
EXTENDS ChatStore

CONSTANTS
  Shouted,      \* ids of users and conversations that come in upper case, too
  Unregistered  \* ids of no user

MCId == User \cup {<<u>> : u \in Shouted \cap User} \cup Unregistered

MCRef == Call \cup {<<r>> : r \in Shouted \cap Call}

MCCast ==
  [i \in MCId \cup MCRef |->
     IF i \in User \cup Call \cup Unregistered THEN i ELSE i[1]]
=============================================================================
