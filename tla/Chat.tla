--------------------------------- MODULE Chat ---------------------------------
(***************************************************************************)
(* The chat services together: calls of FriendshipsService,                *)
(* ConversationsService and MessagesService interleave at every await and  *)
(* share the collections.                                                  *)
(***************************************************************************)
EXTENDS Friendships, Conversations

Arrival(r) ==
  \/ FriendshipsArrival(r)
  \/ ConversationsArrival(r)
  \/ MessagesArrival(r)

\* What the handler of r does next.
Step(r) ==
  \/ FriendshipsStep(r)
  \/ ConversationsStep(r)
  \/ MessagesStep(r)

Next == \E r \in Call : Arrival(r) \/ Step(r) \/ Fail(r)

Spec == Init /\ [][Next]_vars

\* An await is resumed once its answer is there: the event loop starves no
\* handler.  Clients need not call and nothing needs to fail.
Fairness == \A r \in Call : WF_vars(Step(r))

FairSpec == Spec /\ Fairness

-----------------------------------------------------------------------------
(* What holds however the calls interleave and fail *)

\* The requests of one user to another one differ in how they write the
\* receiver's id, even if two calls have both found none
\* (FriendshipsService.createRequest); and all but one of them stay undecided,
\* for the receiver only finds the one that writes the id as the server does.
OneRequestPerDirection ==
  \A f, g \in friendships :
    f.sender = g.sender /\ Cast[f.receiver] = Cast[g.receiver] /\ f # g =>
      /\ f.receiver # g.receiver
      /\ f.status = "REQUESTED" \/ g.status = "REQUESTED"

\* Users shown as friends have a one-to-one conversation, and a notification
\* in it: changeRequestStatus commits the three together or none of them.
FriendsShareConversation ==
  \A f \in friendships : f.status = "ACCEPTED" =>
    \E c \in conversations :
      /\ IsOneToOneOf(c, f.sender, f.receiver)
      /\ \E m \in messages : m.conversation = c.id /\ m.user = None

\* A message is in a stored conversation, however it writes the id, and its
\* author is a member of it.  A notification is in a one-to-one conversation.
MessagesFromMembers ==
  \A m \in messages :
    \E c \in conversations :
      /\ c.id = Cast[m.conversation]
      /\ IF m.user = None THEN c.type = "ONE_TO_ONE" ELSE m.user \in c.members

\* Every id under which messages are stored has a pointer, to one of them; no
\* message is the last one twice and no pointer exists in two versions:
\* transactions that race for a pointer neither lose it nor mix it up.  (The
\* list looks for the ids as the server prints them: it shows a conversation
\* once a message is stored under that one.)
PointersResolve ==
  /\ \A d \in lastMessages :
       \E m \in messages : m.id = d.message /\ m.conversation = d.conversation
  /\ \A d, e \in lastMessages : d.id = e.id \/ d.message = e.message => d = e
  /\ \A m \in messages :
       \E d \in lastMessages : d.conversation = m.conversation

\* The abstract view of the collections.
StatusIn(requests, p) ==
  LET stored == {f \in requests : <<f.sender, f.receiver>> = p} IN
    IF stored = {} THEN None ELSE (CHOOSE f \in stored : TRUE).status

Service == INSTANCE ChatService WITH
  relation <- [p \in User \X Id |-> StatusIn(friendships, p)],
  shown <- {<<d.conversation, d.message>> : d \in lastMessages}

\* Every call changes the data as one call of the abstract service does, in
\* one step, or not at all.
ImplementsService == Service!Spec

-----------------------------------------------------------------------------
(* What the code means to ensure, and does unless certain handlers overlap *)

\* Two users have at most one one-to-one conversation that both can open: one
\* that names both as the server prints their ids.  More generally, no two
\* one-to-one conversations have the same two strings for members.
OneToOneUnique ==
  \A c, d \in conversations :
    c.type = "ONE_TO_ONE" /\ d.type = "ONE_TO_ONE" /\ c.members = d.members
      => c = d

\* lastConversations lists a conversation once.
ListedOnce ==
  \A u \in User : \A d, e \in Listed(u) : d.conversation = e.conversation => d = e

\* The list of conversations agrees with the pages of messages: no message that
\* findAll gives for an id is newer than the one the pointer with that id names.
NewestListed ==
  \A m \in messages :
    \E d \in lastMessages, n \in messages :
      d.conversation = m.conversation /\ n.id = d.message /\ n.created_at >= m.created_at

\* Another user shows up once in the lists of a user, as a friend, as asked, or
\* as asking (getFriends, getSendRequests, getReceivedRequests), if we leave out
\* what only the sender can see: requests that write the receiver's id
\* otherwise than the server does.
OneLiveFriendship ==
  \A u, v \in User :
    \A f, g \in Friends(u) \cup SentRequests(u) \cup ReceivedRequests(u) :
      {f.sender, f.receiver} = {u, v} /\ {g.sender, g.receiver} = {u, v} => f = g

\* A decided request stays decided: changeRequestStatus finds it only while
\* it is requested.
DecisionIsFinal ==
  [][\A f \in friendships, g \in friendships' :
       f.id = g.id /\ f.status # "REQUESTED" => g.status = f.status]_vars

-----------------------------------------------------------------------------
(* Which overlaps do harm.  The properties above rest on reads made awaits  *)
(* before the writes.  A read is out of date only if another handler writes *)
(* between the two, in the states these predicates rule out.                *)

Posting == {"createMessage", "insertMessage", "writeLast", "commit"}

\* The handler has found no one-to-one conversation and will store one.
Opens(r) ==
  \/ call[r].pc = "insertConversation" /\ call[r].conversation.type = "ONE_TO_ONE"
  \/ /\ call[r].pc \in Posting
     /\ call[r].status = "ACCEPTED"
     /\ call[r].conversation \notin conversations

\* No handler is about to store a conversation of two users while another one
\* has found that they have none.  (Two that write the ids in different ways do
\* not see each other's conversation even one after the other.)
OpeningsApart ==
  \A r, s \in Call :
    /\ Opens(r) /\ Opens(s) /\ call[s].pc \in {"insertConversation", "commit"}
    /\ call[r].conversation.members = call[s].conversation.members
    => r = s

Requests(r) == call[r].pc = "insertRequest"

\* No two users are about to store a request to each other.  (The index
\* refuses the second one of two requests in one direction.)
RequestsApart ==
  \A r, s \in Call :
    /\ Requests(r) /\ Requests(s)
    /\ call[r].friendship.sender = call[s].friendship.receiver
    /\ call[r].friendship.receiver = call[s].friendship.sender
    => r = s

Decides(r) == call[r].pc \in {"save", "lookup"} \cup Posting /\ call[r].status # None

\* No decision is about to be committed while another handler has loaded the
\* request and not begun its transaction.  (Two open transactions conflict.)
DecisionsApart ==
  \A r, s \in Call :
    call[r].pc = "save" /\ call[s].pc = "commit" /\ Decides(s) =>
      call[r].friendship.id # call[s].friendship.id

Posts(r) == call[r].pc = "commit" /\ call[r].status # "DECLINED"

HasPointer(pointers, id) == \E d \in pointers : d.conversation = id

\* The handler may post into c, under the id ref, and its transaction sees no
\* pointer with that id.
PostsUnseen(r, c, ref) ==
  \/ /\ call[r].pc = "lookup"
     /\ IsOneToOneOf(c, call[r].friendship.sender, call[r].friendship.receiver)
     /\ ref = c.id
     /\ ~ HasPointer(call[r].snapshot, ref)
  \/ /\ \/ call[r].pc \in {"createMessage", "insertMessage"} /\ call[r].status # None
        \/ call[r].pc = "writeLast"
     /\ call[r].ref = ref
     /\ ~ HasPointer(call[r].snapshot, ref)
  \/ Posts(r) /\ call[r].target = None /\ call[r].ref = ref

\* No first message of a conversation is about to be committed while another
\* transaction sees the conversation without messages.  (A pointer both see
\* makes the two conflict.)
FirstPostsApart ==
  \A r, s \in Call :
    /\ Posts(s)
    /\ PostsUnseen(s, call[s].conversation, call[s].ref)
    /\ PostsUnseen(r, call[s].conversation, call[s].ref)
    => r = s

\* No message is about to be committed while another handler has stamped one
\* for the same id of a conversation and not begun its transaction.
StampsApart ==
  \A r, s \in Call :
    Posts(s) /\ call[r].pc = "insertMessage" /\ call[r].status = None =>
      call[r].ref # call[s].ref

Apart ==
  OpeningsApart /\ RequestsApart /\ DecisionsApart /\ FirstPostsApart /\ StampsApart

-----------------------------------------------------------------------------
(* What eventually happens *)

\* A transaction never waits for another one: every call ends, whatever the
\* others do.
EveryCallEnds ==
  \A r \in Call : call[r].pc # "idle" ~> call[r].pc = "ended"
=============================================================================
