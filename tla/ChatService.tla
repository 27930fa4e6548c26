----------------------------- MODULE ChatService -----------------------------
(***************************************************************************)
(* What the chat services promise: every API call changes the data once,   *)
(* in one step, or not at all.                                             *)
(*                                                                         *)
(* There are no handlers, transactions, indexes or document ids here: a    *)
(* user has at most one request to each receiver, and what the clients are *)
(* shown as the last messages of a conversation changes together with its  *)
(* messages.  A request names its receiver, a conversation its members and *)
(* a message its conversation as the client wrote the id; a decision is    *)
(* about a request that names the receiver as the server does.             *)
(***************************************************************************)
EXTENDS Naturals, FiniteSets

CONSTANTS User, Id, Ref, Call, Cast, None

VARIABLES
  relation,       \* <<sender, receiver>> -> status of the request, or None
  conversations,  \* set of conversations
  messages,       \* set of messages
  shown           \* set of <<conversation, message>>: the last messages

vars == <<relation, conversations, messages, shown>>

Pair == User \X Id

Init ==
  /\ relation = [p \in Pair |-> None]
  /\ conversations = {}
  /\ messages = {}
  /\ shown = {}

\* One new message enters a conversation, at whatever time it was stamped,
\* and replaces at most one of the last messages of the conversation.
Post(c, u) ==
  \E m \in messages' :
    /\ Cast[m.conversation] = c.id
    /\ m.user = u
    /\ \A n \in messages : n.id # m.id
    /\ messages' = messages \cup {m}
    /\ \/ shown' = shown \cup {<<m.conversation, m.id>>}
       \/ \E n \in messages :
            /\ <<m.conversation, n.id>> \in shown
            /\ shown' = (shown \ {<<m.conversation, n.id>>})
                           \cup {<<m.conversation, m.id>>}

Request(p) ==
  /\ Cast[p[2]] \in User
  /\ relation[p] = None
  /\ relation' = [relation EXCEPT ![p] = "REQUESTED"]
  /\ UNCHANGED <<conversations, messages, shown>>

\* A late decision replaces an earlier one.
Decline(p) ==
  /\ relation[p] # None
  /\ relation' = [relation EXCEPT ![p] = "DECLINED"]
  /\ UNCHANGED <<conversations, messages, shown>>

\* The two users become friends and read so in a conversation of theirs.
IsConversationOf(c, p) ==
  /\ c.type = "ONE_TO_ONE"
  /\ c.size = 2
  /\ {p[1], p[2]} \subseteq c.members

Accept(p) ==
  /\ relation[p] # None
  /\ relation' = [relation EXCEPT ![p] = "ACCEPTED"]
  /\ \E c \in conversations' :
       /\ IsConversationOf(c, p)
       /\ conversations' = conversations \cup {c}
       /\ Post(c, None)

Open(type, members) ==
  /\ members \cap User # {}
  /\ Cardinality({Cast[m] : m \in members} \cap User) = Cardinality(members)
  /\ IF type = "ONE_TO_ONE" THEN Cardinality(members) = 2
                            ELSE Cardinality(members) >= 3
  /\ \E id \in Call :
       /\ \A c \in conversations : c.id # id
       /\ conversations' = conversations \cup
            {[id |-> id, type |-> type, members |-> members,
              size |-> Cardinality(members)]}
  /\ UNCHANGED <<relation, messages, shown>>

\* Only a member posts into a conversation.
PostMessage(c, u) ==
  /\ u \in c.members
  /\ Post(c, u)
  /\ UNCHANGED <<relation, conversations>>

Next ==
  \/ \E p \in Pair : Request(p)
  \/ \E p \in User \X User : Decline(p) \/ Accept(p)
  \/ \E type \in {"ONE_TO_ONE", "GROUP"}, members \in SUBSET Id :
       Open(type, members)
  \/ \E c \in conversations, u \in User : PostMessage(c, u)

Spec == Init /\ [][Next]_vars
=============================================================================
