------------------------------ MODULE MCDelivery ------------------------------
(***************************************************************************)
(* Delivery for TLC.  Calls and users are interchangeable.                 *)
(***************************************************************************)
EXTENDS Delivery, MCIds, TLC

Symmetry == Permutations(Call) \cup Permutations(User)

\* The ids of conversations that messages are or will be stored under.
Refs == {m.conversation : m \in messages} \cup ({call[r].ref : r \in Call} \ {None})

Rooms == conversations \cup ({call[r].conversation : r \in Call} \ {None})

\* Bounds: the client opens a conversation by its id as printed.  One id at
\* most comes in upper case, and then there are two users, without a friendship
\* between them, and calls come one by one.
FewInUpperCase ==
  /\ \A c \in Client : client[c].conversation \in Call \cup {None}
  /\ \/ Refs \subseteq Call
     \/ /\ Cardinality(Refs \ Call) <= 1
        /\ Cardinality(UNION {c.members : c \in Rooms}) <= 2
        /\ \A r \in Call : call[r].friendship = None
        /\ friendships = {}
        /\ Cardinality(InFlight) <= 1

MCSpec == DeliveryInit /\ [][DeliveryNext /\ FewInUpperCase']_deliveryVars
=============================================================================
