---------------------------- MODULE Conversations ----------------------------
(***************************************************************************)
(* ConversationsService: creating one-to-one and group conversations, and  *)
(* what the list of a user's conversations shows.                          *)
(***************************************************************************)
EXTENDS ChatStore

\* The body the validation pipe lets through: ArrayUnique makes the length
\* of the array the number of its users, IsValidMembersLength ties it to
\* the type.
ValidBody(type, members) ==
  \/ type = "ONE_TO_ONE" /\ Cardinality(members) = 2
  \/ type = "GROUP" /\ Cardinality(members) >= 3

NewConversation(id, type, members) ==
  [id |-> id, type |-> type, members |-> members,
   size |-> Cardinality(members)]

\* The count of the users found by _id, to which the ids are cast, is the
\* number of ids: each is of a registered user and no two of the same one.
AllRegistered(members) ==
  Cardinality({Cast[m] : m \in members} \cap User) = Cardinality(members)

\* createConversation up to its last read: the caller is a member, every
\* member is a registered user, and no one-to-one conversation of the two
\* exists, the ids compared as they are written.  Users are never removed, so
\* both reads are one step.
CheckConversation(r, u, type, members) ==
  /\ Arrives(r)
  /\ ValidBody(type, members)
  /\ \/ /\ u \in members
        /\ AllRegistered(members)
        /\ type = "ONE_TO_ONE" =>
             ~ \E c \in conversations :
                 \A v, w \in members : IsOneToOneOf(c, v, w)
        /\ call' = [call EXCEPT
             ![r] = [Idle EXCEPT !.pc = "insertConversation",
                                 !.conversation = NewConversation(r, type, members)]]
     \/ /\ \/ u \notin members
           \/ ~ AllRegistered(members)
           \/ /\ type = "ONE_TO_ONE"
              /\ \E c \in conversations :
                   \A v, w \in members : IsOneToOneOf(c, v, w)
        /\ End(r)
  /\ UNCHANGED <<collections, clock>>

\* The insert: a single write outside any transaction.
InsertConversation(r) ==
  /\ call[r].pc = "insertConversation"
  /\ conversations' = conversations \cup {call[r].conversation}
  /\ End(r)
  /\ UNCHANGED <<friendships, messages, lastMessages, clock>>

ConversationsArrival(r) ==
  \E u \in User, type \in {"ONE_TO_ONE", "GROUP"}, members \in SUBSET Id :
    CheckConversation(r, u, type, members)

ConversationsStep(r) == InsertConversation(r)

-----------------------------------------------------------------------------
(* What lastConversations returns: one entry per lastMessages document of  *)
(* a conversation the user belongs to.  The list is of the ids of these    *)
(* conversations, so it leaves out a pointer stored under another spelling.*)

Listed(u) ==
  {d \in lastMessages :
     \E c \in conversations : c.id = d.conversation /\ u \in c.members}
=============================================================================
