------------------------------- MODULE Delivery -------------------------------
(***************************************************************************)
(* The websocket gateway beside the chat services, and the clients that    *)
(* use both: a client opens a socket, then a conversation, pages back      *)
(* through its messages with findAll and shows what the socket brings.     *)
(*                                                                         *)
(* The calls are those of Chat, step by step; the gateway acts in the step *)
(* in which the controller emits 'message.new', as the emitter calls its   *)
(* listeners synchronously.                                                *)
(***************************************************************************)
EXTENDS Chat

CONSTANTS
  Client,  \* sockets, each with the page that opened it
  Limit    \* messages in a page of findAll

VARIABLES
  client,  \* client -> what it has joined, opened and been given
  lost     \* history: messages stored by calls that ended before the event

deliveryVars == <<vars, client, lost>>

ASSUME LimitAssumption == Limit \in Nat \ {0}

ASSUME NoTimeAssumption == None \notin Nat

ClientState ==
  [user: User \cup {None},          \* the room its socket is in
   conversation: Ref \cup {None},   \* what it has opened, as written
   shown: SUBSET Call,              \* messages it was given since it joined
   before: Nat \cup {None}]         \* it has paged back to here; None: not at all

Offline == [user |-> None, conversation |-> None, shown |-> {}, before |-> None]

-----------------------------------------------------------------------------
(* The gateway *)

\* handleConnection: the socket joins the room named by its user's id.
Join(c, u) == client' = [client EXCEPT ![c].user = u]

\* The adapter verifies the access token of the handshake.  A socket without
\* a valid one gets into no room: nothing changes for it.
Connect(c, u) ==
  /\ client[c].user = None
  /\ Join(c, u)
  /\ UNCHANGED <<vars, lost>>

\* The socket leaves its room; the page forgets what it has shown.
Disconnect(c) ==
  /\ client[c].user # None
  /\ client' = [client EXCEPT ![c] = Offline]
  /\ UNCHANGED <<vars, lost>>

\* Mutants: everybody gets the message; its author does not.
Receives_All(c, r) == client[c].user # None

Receives_Others(c, r) ==
  client[c].user \in call[r].conversation.members \ {(CHOOSE m \in messages : m.id = r).user}

\* The sockets in the rooms of the members, the author's own included.
Receives(c, r) == client[c].user \in call[r].conversation.members

\* Mutant: the conversation is sent in place of the message.
Deliver_Conversation(r) ==
  /\ client' = [c \in Client |->
       IF Receives(c, r) THEN [client[c] EXCEPT !.shown = @ \cup {call[r].conversation}]
                         ELSE client[c]]
  /\ UNCHANGED lost

\* handleNewMessageEvent: one message to the room of every member.
Deliver(r) ==
  /\ client' = [c \in Client |->
       IF Receives(c, r) THEN [client[c] EXCEPT !.shown = @ \cup {r}] ELSE client[c]]
  /\ UNCHANGED lost

-----------------------------------------------------------------------------
(* What a page reads *)

\* ConversationsService.findOne: the conversation is found by _id and the user
\* must be a member.
OpenConversation(c, ref) ==
  /\ client[c].user # None /\ client[c].conversation = None
  /\ \E d \in conversations : d.id = Cast[ref] /\ client[c].user \in d.members
  /\ client' = [client EXCEPT ![c].conversation = ref]
  /\ UNCHANGED <<vars, lost>>

\* The filter of findAll compares the conversation's id as it is written.
Older(ref, before) ==
  {m \in messages :
     m.conversation = ref /\ (before # None => m.created_at < before)}

\* Mutant: the sort is ascending.
Pages_Ascending(ref, before) ==
  {P \in SUBSET Older(ref, before) :
     /\ Cardinality(P) <= Limit
     /\ Cardinality(P) < Limit => P = Older(ref, before)
     /\ \A m \in P, n \in Older(ref, before) \ P : n.created_at >= m.created_at}

\* MessagesService.findAll: the newest Limit messages before a time.  Of those
\* with one created_at the sort may put any first.
Pages(ref, before) ==
  {P \in SUBSET Older(ref, before) :
     /\ Cardinality(P) <= Limit
     /\ Cardinality(P) < Limit => P = Older(ref, before)
     /\ \A m \in P, n \in Older(ref, before) \ P : n.created_at <= m.created_at}

\* The client reads the next page.  It goes on from the oldest message of the
\* page, and knows by a short page that there are no more.
ReadPage(c) ==
  /\ client[c].conversation # None
  /\ \E page \in Pages(client[c].conversation, client[c].before) :
       LET oldest == {m \in page : \A n \in page : m.created_at <= n.created_at}
       IN \E before \in (IF Cardinality(page) < Limit THEN {0}
                         ELSE {m.created_at : m \in oldest}) :
            client' = [client EXCEPT
              ![c].shown = @ \cup {m.id : m \in page}, ![c].before = before]
  /\ UNCHANGED <<vars, lost>>

-----------------------------------------------------------------------------

DeliveryInit ==
  /\ Init
  /\ client = [c \in Client |-> Offline]
  /\ lost = {}

\* A step of a call.  Only the event reaches the gateway; a call that fails
\* between its commit and the event leaves its message unannounced.
CallMoves(r) ==
  \/ Arrival(r) /\ UNCHANGED <<client, lost>>
  \/ call[r].pc # "emit" /\ Step(r) /\ UNCHANGED <<client, lost>>
  \/ EmitNewMessage(r) /\ Deliver(r)
  \/ /\ Fail(r)
     /\ lost' = IF call[r].pc = "emit" THEN lost \cup {r} ELSE lost
     /\ UNCHANGED client

DeliveryNext ==
  \/ \E r \in Call : CallMoves(r)
  \/ \E c \in Client :
       \/ \E u \in User : Connect(c, u)
       \/ Disconnect(c)
       \/ \E ref \in Ref : OpenConversation(c, ref)
       \/ ReadPage(c)

DeliverySpec == DeliveryInit /\ [][DeliveryNext]_deliveryVars

-----------------------------------------------------------------------------
(* Properties *)

\* Clients are well typed.
DeliveryTypeOK ==
  /\ client \in [Client -> ClientState]
  /\ lost \subseteq Call

\* A client is given stored messages only, of conversations its user belongs
\* to: the event follows the commit and goes to the members.
ShownToMembers ==
  \A c \in Client : \A id \in client[c].shown :
    \E m \in messages, d \in conversations :
      m.id = id /\ d.id = Cast[m.conversation] /\ client[c].user \in d.members

\* Two messages of one conversation have one created_at.
Tied(m) ==
  \E n \in messages \ {m} : n.conversation = m.conversation /\ n.created_at = m.created_at

\* The conversation on the screen has no hole: as far as the client has paged
\* back, it shows every message that users have stored under the id by which it
\* has opened the conversation, whenever it was committed, but for those about
\* to be announced, those whose announcement a failure has lost, and those with
\* the time of another one: if a page ends between two such messages, the next
\* one begins behind both.  (Friendship notifications are stored and never
\* announced.  A message whose author writes the conversation's id in another
\* way is announced, but in none of these pages.)
NoGap ==
  \A c \in Client :
    client[c].before # None =>
      \A m \in messages :
        /\ m.conversation = client[c].conversation
        /\ m.user # None
        /\ m.created_at >= client[c].before
        => \/ m.id \in client[c].shown \cup lost \cup {r \in Call : call[r].pc = "emit"}
           \/ Tied(m)
=============================================================================
