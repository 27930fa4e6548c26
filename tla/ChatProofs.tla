------------------------------ MODULE ChatProofs ------------------------------
(***************************************************************************)
(* Proofs about Chat, for any users, any number of calls and any number of *)
(* them in flight.                                                         *)
(***************************************************************************)
EXTENDS Chat, FiniteSetTheorems, TLAPS

-----------------------------------------------------------------------------
(* The inductive invariant: what a handler knows at each of its awaits, and  *)
(* which calls have stored documents.                                        *)

\* A request about to be stored is new.
RequestOK(q, r) ==
  q.pc = "insertRequest" =>
    /\ q.friendship \in Friendship
    /\ q.friendship.id = r
    /\ q.friendship.status = "REQUESTED"
    /\ Cast[q.friendship.receiver] \in User

\* So is a conversation, and its body was valid.
OpeningOK(q, r) ==
  q.pc = "insertConversation" =>
    \E type \in {"ONE_TO_ONE", "GROUP"}, members \in SUBSET Id :
      /\ ValidBody(type, members)
      /\ AllRegistered(members)
      /\ members \cap User # {}
      /\ q.conversation = NewConversation(r, type, members)

\* A handler that decides on a request has loaded a stored one, which writes
\* the receiver's id as the server does.
DecisionOK(q) ==
  /\ q.pc = "save" => q.status # None
  /\ q.pc = "lookup" => q.status = "ACCEPTED"
  /\ q.pc \in {"createMessage", "insertMessage", "writeLast"} => q.status # "DECLINED"
  /\ q.status # None =>
       /\ q.author = None
       /\ q.friendship \in Friendship
       /\ q.friendship.receiver \in User
       /\ \E f \in friendships :
            /\ f.id = q.friendship.id
            /\ f.sender = q.friendship.sender
            /\ f.receiver = q.friendship.receiver

\* A user's message is posted where the user is a member; the notification
\* of a friendship where its two users are, and that conversation is stored
\* or stored with the notification.
PostOK(q, r) ==
  /\ q.pc \in Posting /\ q.status = None =>
       /\ q.friendship = None
       /\ q.conversation \in conversations
       /\ q.author \in User \cap q.conversation.members
       /\ q.ref \in Ref
       /\ Cast[q.ref] = q.conversation.id
  /\ q.pc \in Posting /\ q.status = "ACCEPTED" =>
       /\ q.author = None
       /\ q.conversation \in Conversation
       /\ IsOneToOneOf(q.conversation, q.friendship.sender, q.friendship.receiver)
       /\ q.conversation \in conversations \/ q.conversation.id = r
       /\ q.ref = q.conversation.id

\* The pointer a transaction has written is the stored one, under the id of
\* the message, and no other open transaction has written it.
TargetOK(q, r) ==
  q.target # None =>
    /\ q.pc = "commit"
    /\ q.status # "DECLINED"
    /\ q.target \in lastMessages
    /\ q.target.conversation = q.ref
    /\ \A s \in Call \ {r} : ~ HoldsLastMessage(s, q.target.id)

HandlerOK(q, r) ==
  /\ q \in CallState
  /\ RequestOK(q, r)
  /\ OpeningOK(q, r)
  /\ DecisionOK(q)
  /\ PostOK(q, r)
  /\ TargetOK(q, r)

\* A document was stored by a call that will store nothing more.
Done(r) == call[r].pc \in {"emit", "ended"}

DocumentsOK ==
  /\ \A f \in friendships : Done(f.id)
  /\ \A f, g \in friendships : f.id = g.id => f = g
  /\ \A c \in conversations : Done(c.id)
  /\ \A c, d \in conversations : c.id = d.id => c = d
  /\ \A m \in messages : Done(m.id)
  /\ \A d \in lastMessages : Done(d.id)

\* The index holds, and only who is named as the server does has decided.
RequestsOK ==
  /\ \A f, g \in friendships :
       f.sender = g.sender /\ f.receiver = g.receiver => f = g
  /\ \A f \in friendships : f.status # "REQUESTED" => f.receiver \in User

IInv ==
  /\ TypeOK
  /\ \A r \in Call : HandlerOK(call[r], r)
  /\ DocumentsOK
  /\ RequestsOK
  /\ FriendsShareConversation
  /\ MessagesFromMembers
  /\ PointersResolve

-----------------------------------------------------------------------------
(* Steps that only change the local variables of one handler *)

\* A handler that has ended knows nothing.
LEMMA EndedOK ==
  ASSUME NEW r \in Call
  PROVE  HandlerOK([Idle EXCEPT !.pc = "ended"], r)
BY DEF HandlerOK, RequestOK, OpeningOK, DecisionOK, PostOK, TargetOK, Posting,
       Idle, CallState, Pc

\* A step that leaves the collections alone keeps the invariant if the new
\* local variables of its handler are right and it had stored nothing.
LEMMA LocalStep ==
  ASSUME IInv, NEW r \in Call, NEW q,
         UNCHANGED collections, clock' \in Nat,
         call' = [call EXCEPT ![r] = q],
         HandlerOK(q, r),
         Done(r) => q.pc \in {"emit", "ended"}
  PROVE  IInv'
<1>1. /\ call'[r] = q
      /\ \A s \in Call : s # r => call'[s] = call[s]
  BY DEF IInv, TypeOK
<1>2. TypeOK'
  BY <1>1 DEF IInv, TypeOK, HandlerOK, collections
<1>3. \A s \in Call : HandlerOK(call[s], s)'
  <2> SUFFICES ASSUME NEW s \in Call
               PROVE  HandlerOK(call[s], s)'
    OBVIOUS
  <2>0. PICK p : p = call'[s]
    OBVIOUS
  <2>1. HandlerOK(p, s)
    BY <1>1, <2>0 DEF IInv
  <2>2. /\ p \in CallState
        /\ RequestOK(p, s)' /\ OpeningOK(p, s)' /\ DecisionOK(p)' /\ PostOK(p, s)'
    BY <2>1 DEF HandlerOK, RequestOK, OpeningOK, DecisionOK, PostOK, collections
  <2>3. TargetOK(p, s)'
    <3> SUFFICES ASSUME p.target # None,
                        NEW t \in Call \ {s}
                 PROVE  ~ HoldsLastMessage(t, p.target.id)'
      BY <2>1 DEF HandlerOK, TargetOK, collections
    <3>1. \A u \in Call \ {s} : ~ HoldsLastMessage(u, p.target.id)
      BY <2>1 DEF HandlerOK, TargetOK
    <3>2. CASE t = r
      <4>1. SUFFICES ASSUME q.pc = "commit", q.target # None,
                            q.target.id = p.target.id
                     PROVE  FALSE
        BY <1>1, <3>2 DEF HoldsLastMessage
      <4>2. ~ HoldsLastMessage(s, q.target.id)
        BY <3>2, <4>1 DEF HandlerOK, TargetOK
      <4>3. p = call[s]
        BY <1>1, <2>0, <3>2
      <4>4. p.pc = "commit"
        BY <2>1 DEF HandlerOK, TargetOK
      <4>5. QED
        BY <4>1, <4>2, <4>3, <4>4 DEF HoldsLastMessage
    <3>3. CASE t # r
      BY <1>1, <3>1, <3>3 DEF HoldsLastMessage
    <3>4. QED
      BY <3>2, <3>3
  <2>4. QED
    BY <2>0, <2>2, <2>3
    DEF HandlerOK, RequestOK, OpeningOK, DecisionOK, PostOK, TargetOK
<1>4. DocumentsOK'
  <2>1. \A s \in Call : Done(s) => Done(s)'
    BY <1>1 DEF Done
  <2>2. QED
    BY <2>1 DEF IInv, DocumentsOK, collections, TypeOK, Friendship, Conversation,
                Message, LastMessage
<1>5. /\ RequestsOK' /\ FriendsShareConversation'
      /\ MessagesFromMembers' /\ PointersResolve'
  BY DEF IInv, RequestsOK, FriendsShareConversation,
         MessagesFromMembers, PointersResolve, collections
<1>6. QED
  BY <1>2, <1>3, <1>4, <1>5 DEF IInv

\* A handler that ends and stores nothing keeps the invariant.
LEMMA EndStep ==
  ASSUME IInv, NEW r \in Call, End(r), UNCHANGED <<collections, clock>>
  PROVE  IInv'
<1>1. clock' \in Nat
  BY DEF IInv, TypeOK
<1>2. [Idle EXCEPT !.pc = "ended"].pc = "ended"
  BY DEF Idle
<1>3. QED
  BY <1>1, <1>2, EndedOK, LocalStep DEF End

-----------------------------------------------------------------------------
(* Arriving calls *)

LEMMA CheckRequestStep ==
  ASSUME IInv, NEW r \in Call, NEW u \in User, NEW v \in Id, CheckRequest(r, u, v)
  PROVE  IInv'
<1>1. CASE End(r)
  BY <1>1, EndStep DEF CheckRequest
<1>2. CASE ~ End(r)
  <2> DEFINE f == [id |-> r, sender |-> u, receiver |-> v, status |-> "REQUESTED"]
             q == [Idle EXCEPT !.pc = "insertRequest", !.friendship = f]
  <2>1. Cast[v] \in User /\ call' = [call EXCEPT ![r] = q]
    BY <1>2 DEF CheckRequest
  <2>2. /\ f \in Friendship /\ f.id = r /\ f.status = "REQUESTED"
        /\ f.receiver = v
    BY DEF Friendship, FriendshipStatus
  <2>3. HandlerOK(q, r)
    BY <2>1, <2>2 DEF HandlerOK, RequestOK, OpeningOK, DecisionOK, PostOK, TargetOK,
                      Posting, Idle, CallState, Pc
  <2>4. ~ Done(r) /\ UNCHANGED collections /\ clock' \in Nat
    BY DEF CheckRequest, Arrives, Done, IInv, TypeOK
  <2>5. QED
    BY <2>1, <2>3, <2>4, LocalStep
<1>3. QED
  BY <1>1, <1>2

LEMMA FindRequestStep ==
  ASSUME IInv, NEW r \in Call, NEW u \in User, NEW id \in Call,
         NEW status \in {"ACCEPTED", "DECLINED"}, FindRequest(r, u, id, status)
  PROVE  IInv'
<1>1. CASE End(r)
  BY <1>1, EndStep DEF FindRequest
<1>2. CASE ~ End(r)
  <2>1. PICK f \in friendships :
          /\ f.receiver = u
          /\ call' = [call EXCEPT
               ![r] = [Idle EXCEPT !.pc = "save", !.friendship = f, !.status = status]]
    BY <1>2 DEF FindRequest
  <2> DEFINE q == [Idle EXCEPT !.pc = "save", !.friendship = f, !.status = status]
  <2>2. f \in Friendship /\ f.receiver \in User /\ status # None
    BY <2>1, NoneAssumption DEF IInv, TypeOK, FriendshipStatus
  <2>3. HandlerOK(q, r)
    BY <2>2 DEF HandlerOK, RequestOK, OpeningOK, DecisionOK, PostOK, TargetOK,
                Posting, Idle, CallState, Pc, FriendshipStatus
  <2>4. ~ Done(r) /\ UNCHANGED collections /\ clock' \in Nat
    BY DEF FindRequest, Arrives, Done, IInv, TypeOK
  <2>5. QED
    BY <2>1, <2>3, <2>4, LocalStep
<1>3. QED
  BY <1>1, <1>2

LEMMA CheckConversationStep ==
  ASSUME IInv, NEW r \in Call, NEW u \in User, NEW type \in {"ONE_TO_ONE", "GROUP"},
         NEW members \in SUBSET Id, CheckConversation(r, u, type, members)
  PROVE  IInv'
<1>1. CASE End(r)
  BY <1>1, EndStep DEF CheckConversation
<1>2. CASE ~ End(r)
  <2> DEFINE c == NewConversation(r, type, members)
             q == [Idle EXCEPT !.pc = "insertConversation", !.conversation = c]
  <2>1. /\ AllRegistered(members)
        /\ members \cap User # {}
        /\ ValidBody(type, members)
        /\ call' = [call EXCEPT ![r] = q]
    BY <1>2 DEF CheckConversation
  <2>2. Cardinality(members) \in Nat
    BY IdAssumption, FS_Subset, FS_CardinalityType
  <2>3. c \in Conversation
    BY <2>1, <2>2 DEF NewConversation, Conversation
  <2>4. HandlerOK(q, r)
    BY <2>1, <2>3 DEF HandlerOK, RequestOK, OpeningOK, DecisionOK, PostOK, TargetOK,
                      Posting, Idle, CallState, Pc
  <2>5. ~ Done(r) /\ UNCHANGED collections /\ clock' \in Nat
    BY DEF CheckConversation, Arrives, Done, IInv, TypeOK
  <2>6. QED
    BY <2>1, <2>4, <2>5, LocalStep
<1>3. QED
  BY <1>1, <1>2

LEMMA FindConversationStep ==
  ASSUME IInv, NEW r \in Call, NEW u \in User, NEW ref \in Ref,
         FindConversation(r, u, ref)
  PROVE  IInv'
<1>1. CASE End(r)
  BY <1>1, EndStep DEF FindConversation
<1>2. CASE ~ End(r)
  <2>1. PICK c \in conversations :
          /\ u \in c.members /\ c.id = Cast[ref]
          /\ call' = [call EXCEPT
               ![r] = [Idle EXCEPT !.pc = "createMessage", !.conversation = c,
                                   !.author = u, !.ref = ref]]
    BY <1>2 DEF FindConversation
  <2> DEFINE q == [Idle EXCEPT !.pc = "createMessage", !.conversation = c,
                               !.author = u, !.ref = ref]
  <2>2. c \in Conversation
    BY DEF IInv, TypeOK
  <2>3. HandlerOK(q, r)
    BY <2>1, <2>2, NoneAssumption
    DEF HandlerOK, RequestOK, OpeningOK, DecisionOK, PostOK, TargetOK,
        Posting, Idle, CallState, Pc, FriendshipStatus
  <2>4. ~ Done(r) /\ UNCHANGED collections /\ clock' \in Nat
    BY DEF FindConversation, Arrives, Done, IInv, TypeOK
  <2>5. QED
    BY <2>1, <2>3, <2>4, LocalStep
<1>3. QED
  BY <1>1, <1>2

-----------------------------------------------------------------------------
(* Steps inside a transaction *)

LEMMA SaveStatusStep ==
  ASSUME IInv, NEW r \in Call, SaveStatus(r)
  PROVE  IInv'
<1>1. CASE End(r)
  BY <1>1, EndStep DEF SaveStatus
<1>2. CASE ~ End(r)
  <2> DEFINE a == [call[r] EXCEPT !.pc = "lookup", !.snapshot = lastMessages]
             d == [call[r] EXCEPT !.pc = "commit"]
  <2>1. /\ HandlerOK(call[r], r)
        /\ ~ Done(r) /\ UNCHANGED collections /\ clock' \in Nat
        /\ call[r].pc = "save"
        /\ lastMessages \subseteq LastMessage
    BY DEF SaveStatus, Done, IInv, TypeOK
  <2>2. CASE call[r].status = "ACCEPTED" /\ call' = [call EXCEPT ![r] = a]
    <3>1. HandlerOK(a, r)
      BY <2>1, <2>2 DEF HandlerOK, RequestOK, OpeningOK, DecisionOK, PostOK, TargetOK,
                        Posting, CallState, Pc
    <3>2. QED
      BY <2>1, <2>2, <3>1, LocalStep
  <2>3. CASE call[r].status = "DECLINED" /\ call' = [call EXCEPT ![r] = d]
    <3>1. HandlerOK(d, r)
      BY <2>1, <2>3 DEF HandlerOK, RequestOK, OpeningOK, DecisionOK, PostOK, TargetOK,
                        Posting, CallState, Pc
    <3>2. QED
      BY <2>1, <2>3, <3>1, LocalStep
  <2>4. QED
    BY <1>2, <2>2, <2>3 DEF SaveStatus
<1>3. QED
  BY <1>1, <1>2

LEMMA LookupConversationStep ==
  ASSUME IInv, NEW r \in Call, LookupConversation(r)
  PROVE  IInv'
<1> DEFINE f == call[r].friendship
<1>1. /\ HandlerOK(call[r], r)
      /\ ~ Done(r) /\ UNCHANGED collections /\ clock' \in Nat
      /\ call[r].pc = "lookup"
      /\ conversations \subseteq Conversation
  BY DEF LookupConversation, Done, IInv, TypeOK
<1>2. /\ call[r] \in CallState
      /\ call[r].status = "ACCEPTED"
      /\ f \in Friendship
      /\ call[r].target = None
  BY <1>1, NoneAssumption DEF HandlerOK, DecisionOK, TargetOK, FriendshipStatus
<1>3. /\ PairConversation(r) \in Conversation
      /\ PairConversation(r).id = r
      /\ IsOneToOneOf(PairConversation(r), f.sender, f.receiver)
  BY <1>2, UserAssumption DEF PairConversation, IsOneToOneOf, Conversation, Friendship
<1>4. PICK c : /\ c \in conversations \/ c = PairConversation(r)
               /\ IsOneToOneOf(c, f.sender, f.receiver)
               /\ call' = [call EXCEPT ![r].pc = "createMessage", ![r].conversation = c,
                                       ![r].ref = c.id]
  BY <1>3 DEF LookupConversation
<1> DEFINE q == [call[r] EXCEPT !.pc = "createMessage", !.conversation = c, !.ref = c.id]
<1>a. c \in Conversation /\ c.id \in Ref
  BY <1>1, <1>3, <1>4, CastAssumption DEF Conversation
<1>5. HandlerOK(q, r)
  BY <1>1, <1>2, <1>3, <1>4, <1>a, NoneAssumption
  DEF HandlerOK, RequestOK, OpeningOK, DecisionOK, PostOK, TargetOK, Posting,
      CallState, Pc, FriendshipStatus
<1>6. call' = [call EXCEPT ![r] = q]
  BY <1>1, <1>2, <1>4 DEF CallState, IInv, TypeOK
<1>7. QED
  BY <1>1, <1>5, <1>6, LocalStep DEF Done

LEMMA CreateMessageStep ==
  ASSUME IInv, NEW r \in Call, CreateMessage(r)
  PROVE  IInv'
<1> DEFINE t == clock'
           q == [call[r] EXCEPT !.pc = "insertMessage", !.created_at = t]
<1>1. /\ HandlerOK(call[r], r)
      /\ ~ Done(r) /\ UNCHANGED collections /\ t \in {clock, clock + 1}
      /\ call[r].pc = "createMessage"
      /\ call' = [call EXCEPT ![r].pc = "insertMessage", ![r].created_at = t]
  BY DEF CreateMessage, Done, IInv
<1>2. t \in Nat
  BY <1>1 DEF IInv, TypeOK
<1>3. call' = [call EXCEPT ![r] = q]
  BY <1>1 DEF IInv, TypeOK
<1>4. HandlerOK(q, r)
  BY <1>1, <1>2 DEF HandlerOK, RequestOK, OpeningOK, DecisionOK, PostOK, TargetOK, Posting,
              CallState, Pc
<1>5. QED
  BY <1>1, <1>2, <1>3, <1>4, LocalStep

LEMMA InsertMessageStep ==
  ASSUME IInv, NEW r \in Call, InsertMessage(r)
  PROVE  IInv'
<1> DEFINE d == IF call[r].status = None THEN lastMessages ELSE call[r].snapshot
           q == [call[r] EXCEPT !.pc = "writeLast", !.snapshot = d]
<1>1. /\ HandlerOK(call[r], r)
      /\ ~ Done(r) /\ UNCHANGED collections /\ clock' \in Nat
      /\ call[r].pc = "insertMessage"
      /\ call' = [call EXCEPT ![r] = q]
  BY DEF InsertMessage, Done, IInv, TypeOK
<1>2. d \subseteq LastMessage
  BY DEF IInv, TypeOK, CallState
<1>3. HandlerOK(q, r)
  BY <1>1, <1>2 DEF HandlerOK, RequestOK, OpeningOK, DecisionOK, PostOK, TargetOK,
                    Posting, CallState, Pc
<1>4. QED
  BY <1>1, <1>3, LocalStep

LEMMA WriteLastMessageStep ==
  ASSUME IInv, NEW r \in Call, WriteLastMessage(r)
  PROVE  IInv'
<1>1. /\ HandlerOK(call[r], r)
      /\ ~ Done(r) /\ UNCHANGED collections /\ clock' \in Nat
      /\ call[r].pc = "writeLast"
  BY DEF WriteLastMessage, Done, IInv, TypeOK
<1>2. CASE End(r)
  BY <1>2, EndStep DEF WriteLastMessage
<1>3. ASSUME call' = [call EXCEPT ![r].pc = "commit", ![r].snapshot = {}]
      PROVE  IInv'
  <2> DEFINE q == [call[r] EXCEPT !.pc = "commit", !.snapshot = {}]
  <2>1. HandlerOK(q, r)
    BY <1>1 DEF HandlerOK, RequestOK, OpeningOK, DecisionOK, PostOK, TargetOK, Posting,
                CallState, Pc
  <2>2. call' = [call EXCEPT ![r] = q]
    BY <1>3 DEF IInv, TypeOK
  <2>3. QED
    BY <1>1, <2>1, <2>2, LocalStep
<1>4. ASSUME NEW d \in PointersInSnapshot(r), ~ WriteConflict(r, d),
             call' = [call EXCEPT ![r].pc = "commit", ![r].snapshot = {}, ![r].target = d]
      PROVE  IInv'
  <2> DEFINE q == [call[r] EXCEPT !.pc = "commit", !.snapshot = {}, !.target = d]
  <2>1. d.conversation = call[r].ref
    BY DEF PointersInSnapshot
  <2>2. /\ d \in lastMessages
        /\ d \in LastMessage
        /\ \A s \in Call \ {r} : ~ HoldsLastMessage(s, d.id)
    BY <1>4 DEF WriteConflict, IInv, TypeOK
  <2>3. HandlerOK(q, r)
    BY <1>1, <2>1, <2>2
    DEF HandlerOK, RequestOK, OpeningOK, DecisionOK, PostOK, TargetOK, Posting,
        CallState, Pc
  <2>4. call' = [call EXCEPT ![r] = q]
    BY <1>4 DEF IInv, TypeOK
  <2>5. QED
    BY <1>1, <2>3, <2>4, LocalStep
<1>5. QED
  BY <1>2, <1>3, <1>4 DEF WriteLastMessage

-----------------------------------------------------------------------------
(* Steps that store documents *)

\* Requests keep their two users, whatever happens to their status.
RequestsKept ==
  \A f \in friendships : \E g \in friendships' :
    f.id = g.id /\ f.sender = g.sender /\ f.receiver = g.receiver

\* What the other handlers know stays true when one handler stores its
\* documents, as long as these keep requests and conversations and leave
\* alone the pointers the other transactions have written.
LEMMA OtherHandlers ==
  ASSUME IInv, NEW r \in Call, NEW q,
         call' = [call EXCEPT ![r] = q],
         q \in CallState, q.pc \in {"emit", "ended"}, q.status = None, q.target = None,
         RequestsKept,
         conversations \subseteq conversations',
         \A s \in Call \ {r} : call[s].target # None => call[s].target \in lastMessages'
  PROVE  \A s \in Call : HandlerOK(call[s], s)'
<1> SUFFICES ASSUME NEW s \in Call
             PROVE  HandlerOK(call[s], s)'
  OBVIOUS
<1>1. /\ call'[r] = q
      /\ \A t \in Call : t # r => call'[t] = call[t]
  BY DEF IInv, TypeOK
<1>2. CASE s = r
  BY <1>1, <1>2, NoneAssumption
  DEF HandlerOK, RequestOK, OpeningOK, DecisionOK, PostOK, TargetOK, Posting,
      FriendshipStatus
<1>3. CASE s # r
  <2>0. PICK p : p = call[s]
    OBVIOUS
  <2>1. HandlerOK(p, s) /\ call'[s] = p
    BY <1>1, <1>3, <2>0 DEF IInv
  <2>2. p \in CallState /\ RequestOK(p, s)' /\ OpeningOK(p, s)'
    BY <2>1 DEF HandlerOK, RequestOK, OpeningOK
  <2>3. DecisionOK(p)'
    BY <2>1 DEF HandlerOK, DecisionOK, RequestsKept
  <2>4. PostOK(p, s)'
    BY <2>1 DEF HandlerOK, PostOK
  <2>5. TargetOK(p, s)'
    <3> SUFFICES ASSUME p.target # None,
                        NEW t \in Call \ {s}
                 PROVE  ~ HoldsLastMessage(t, p.target.id)'
      BY <1>3, <2>0, <2>1 DEF HandlerOK, TargetOK
    <3>1. ~ HoldsLastMessage(t, p.target.id)
      BY <2>1 DEF HandlerOK, TargetOK
    <3>2. QED
      BY <1>1, <3>1 DEF HoldsLastMessage
  <2>6. QED
    BY <2>1, <2>2, <2>3, <2>4, <2>5
    DEF HandlerOK, RequestOK, OpeningOK, DecisionOK, PostOK, TargetOK
<1>4. QED
  BY <1>2, <1>3

\* The writes of a posted message: the documents of the two collections are
\* well typed and named by calls that are done, the pointers resolve, and
\* the pointers of other open transactions are still there.
LEMMA PostStep ==
  ASSUME IInv, NEW r \in Call, call[r].pc = "commit",
         call[r].status \in {None, "ACCEPTED"}, Post(r)
  PROVE  /\ messages' \subseteq Message /\ lastMessages' \subseteq LastMessage
         /\ \A d \in lastMessages' : d.id = r \/ Done(d.id)
         /\ PointersResolve'
         /\ \A s \in Call \ {r} :
              call[s].target # None => call[s].target \in lastMessages'
<1> DEFINE ref == call[r].ref
           t == call[r].target
           p == Pointer(r)
           m == NewMessage(r)
<1>1. /\ call[r] \in CallState
      /\ TypeOK /\ DocumentsOK /\ PointersResolve
      /\ ~ Done(r)
      /\ \A s \in Call : TargetOK(call[s], s)
  BY DEF IInv, HandlerOK, Done
<1>2. ref \in Ref
  <2>1. CASE call[r].status = None
    BY <2>1 DEF IInv, HandlerOK, PostOK, Posting
  <2>2. CASE call[r].status = "ACCEPTED"
    BY <2>2, CastAssumption DEF IInv, HandlerOK, PostOK, Posting, Conversation
  <2>3. QED
    BY <2>1, <2>2
<1>3. /\ m \in Message /\ m.id = r /\ m.conversation = ref
  BY <1>1, <1>2 DEF NewMessage, Message, CallState
<1>4. /\ p \in LastMessage /\ p.message = r /\ p.conversation = ref
      /\ p.id = IF t = None THEN r ELSE t.id
  <2>1. CASE t = None
    BY <1>2, <2>1 DEF Pointer, LastMessage
  <2>2. CASE t # None
    <3>1. t \in LastMessage /\ t.conversation = ref
      BY <1>1, <2>2 DEF TargetOK, CallState
    <3>2. QED
      BY <2>2, <3>1 DEF Pointer, LastMessage
  <2>3. QED
    BY <2>1, <2>2
<1>5. /\ messages' = messages \cup {m}
      /\ lastMessages' = (lastMessages \ {t}) \cup {p}
  BY DEF Post
<1>6. messages' \subseteq Message /\ lastMessages' \subseteq LastMessage
  BY <1>1, <1>3, <1>4, <1>5 DEF TypeOK
<1>7. \A d \in lastMessages' : d.id = r \/ Done(d.id)
  BY <1>1, <1>4, <1>5 DEF DocumentsOK, TargetOK
<1>8. PointersResolve'
  <2>1. ASSUME NEW d \in lastMessages'
        PROVE  \E n \in messages' : n.id = d.message /\ n.conversation = d.conversation
    BY <1>1, <1>3, <1>4, <1>5 DEF PointersResolve
  <2>2. ASSUME NEW e \in lastMessages, e # t
        PROVE  e.id # p.id /\ e.message # p.message
    <3>1. e.message # r
      BY <1>1 DEF PointersResolve, DocumentsOK
    <3>2. e.id # r
      BY <1>1 DEF DocumentsOK
    <3>3. t # None => e.id # t.id
      BY <1>1, <2>2 DEF PointersResolve, TargetOK
    <3>4. QED
      BY <1>4, <3>1, <3>2, <3>3
  <2>3. ASSUME NEW d \in lastMessages', NEW e \in lastMessages',
               d.id = e.id \/ d.message = e.message
        PROVE  d = e
    BY <1>1, <1>5, <2>2, <2>3 DEF PointersResolve
  <2>4. ASSUME NEW n \in messages'
        PROVE  \E d \in lastMessages' : d.conversation = n.conversation
    <3>1. CASE n = m
      BY <1>3, <1>4, <1>5, <3>1
    <3>2. CASE n # m
      <4>1. PICK d \in lastMessages : d.conversation = n.conversation
        BY <1>1, <1>5, <3>2 DEF PointersResolve
      <4>2. CASE d = t
        <5>1. t # None
          BY <1>1, <4>2, NoneAssumption DEF TypeOK
        <5>2. QED
          BY <1>1, <1>4, <1>5, <4>1, <4>2, <5>1 DEF TargetOK
      <4>3. QED
        BY <1>5, <4>1, <4>2
    <3>3. QED
      BY <3>1, <3>2
  <2>5. QED
    BY <2>1, <2>3, <2>4 DEF PointersResolve
<1>9. ASSUME NEW s \in Call \ {r}, call[s].target # None
      PROVE  call[s].target \in lastMessages'
  <2>1. /\ call[s].target \in lastMessages
        /\ call[s].pc = "commit"
    BY <1>1, <1>9 DEF TargetOK
  <2>2. HoldsLastMessage(s, call[s].target.id)
    BY <1>9, <2>1 DEF HoldsLastMessage
  <2>3. call[s].target # t
    BY <1>1, <1>9, <2>2 DEF TargetOK
  <2>4. QED
    BY <1>5, <2>1, <2>3
<1>10. QED
  BY <1>6, <1>7, <1>8, <1>9

\* The local variables of a handler that has ended.
LEMMA EndedLocals ==
  LET q == [Idle EXCEPT !.pc = "ended"] IN
    q \in CallState /\ q.pc = "ended" /\ q.status = None /\ q.target = None
BY DEF Idle, CallState, Pc

\* Calls that are done stay done, and so does the one that ends now.
LEMMA DoneStep ==
  ASSUME IInv, NEW r \in Call, NEW q,
         call' = [call EXCEPT ![r] = q], q.pc \in {"emit", "ended"}
  PROVE  Done(r)' /\ \A s \in Call : Done(s) => Done(s)'
BY DEF IInv, TypeOK, Done

LEMMA InsertRequestStep ==
  ASSUME IInv, NEW r \in Call, InsertRequest(r)
  PROVE  IInv'
<1> DEFINE f == call[r].friendship
           q == [Idle EXCEPT !.pc = "ended"]
<1>1. CASE UNCHANGED friendships
  BY <1>1, EndStep DEF InsertRequest, collections
<1>2. CASE ~ Indexed(f) /\ friendships' = friendships \cup {f}
  <2>1. /\ TypeOK /\ DocumentsOK /\ RequestsOK
        /\ FriendsShareConversation /\ MessagesFromMembers /\ PointersResolve
        /\ ~ Done(r)
        /\ f \in Friendship /\ f.id = r /\ f.status = "REQUESTED"
        /\ \A s \in Call : HandlerOK(call[s], s)
    BY DEF InsertRequest, IInv, HandlerOK, RequestOK, Done
  <2>2. /\ call' = [call EXCEPT ![r] = q]
        /\ UNCHANGED <<conversations, messages, lastMessages, clock>>
    BY DEF InsertRequest, End
  <2>3. TypeOK'
    BY <1>2, <2>1, <2>2, EndedLocals DEF TypeOK
  <2>4. \A s \in Call : HandlerOK(call[s], s)'
    <3>1. RequestsKept
      BY <1>2 DEF RequestsKept
    <3>2. \A s \in Call \ {r} : call[s].target # None => call[s].target \in lastMessages'
      BY <2>1, <2>2 DEF HandlerOK, TargetOK
    <3>3. QED
      BY <2>2, <3>1, <3>2, EndedLocals, OtherHandlers
  <2>5. DocumentsOK'
    <3>1. Done(r)' /\ \A s \in Call : Done(s) => Done(s)'
      BY <2>2, EndedLocals, DoneStep
    <3>2. QED
      BY <1>2, <2>1, <2>2, <3>1
      DEF DocumentsOK, TypeOK, Friendship, Conversation, Message, LastMessage
  <2>6. RequestsOK'
    BY <1>2, <2>1 DEF RequestsOK, Indexed
  <2>7. FriendsShareConversation'
    BY <1>2, <2>1, <2>2 DEF FriendsShareConversation
  <2>8. MessagesFromMembers' /\ PointersResolve'
    BY <2>1, <2>2 DEF MessagesFromMembers, PointersResolve
  <2>9. QED
    BY <2>3, <2>4, <2>5, <2>6, <2>7, <2>8 DEF IInv
<1>3. QED
  BY <1>1, <1>2 DEF InsertRequest

LEMMA InsertConversationStep ==
  ASSUME IInv, NEW r \in Call, InsertConversation(r)
  PROVE  IInv'
<1> DEFINE c == call[r].conversation
           q == [Idle EXCEPT !.pc = "ended"]
<1>1. /\ TypeOK /\ DocumentsOK /\ RequestsOK
      /\ FriendsShareConversation /\ MessagesFromMembers /\ PointersResolve
      /\ ~ Done(r)
      /\ OpeningOK(call[r], r)
      /\ \A s \in Call : HandlerOK(call[s], s)
  BY DEF InsertConversation, IInv, HandlerOK, Done
<1>2. /\ call[r].pc = "insertConversation"
      /\ conversations' = conversations \cup {c}
      /\ call' = [call EXCEPT ![r] = q]
      /\ UNCHANGED <<friendships, messages, lastMessages, clock>>
  BY DEF InsertConversation, End
<1>3. c \in Conversation /\ c.id = r
  <2>1. PICK type \in {"ONE_TO_ONE", "GROUP"}, members \in SUBSET Id :
          c = NewConversation(r, type, members)
    BY <1>1, <1>2 DEF OpeningOK
  <2>2. Cardinality(members) \in Nat
    BY IdAssumption, UserAssumption, FS_Subset, FS_CardinalityType
  <2>3. QED
    BY <2>1, <2>2 DEF NewConversation, Conversation
<1>4. TypeOK'
  BY <1>1, <1>2, <1>3, EndedLocals DEF TypeOK
<1>5. \A s \in Call : HandlerOK(call[s], s)'
  <2>1. RequestsKept
    BY <1>2 DEF RequestsKept
  <2>2. \A s \in Call \ {r} : call[s].target # None => call[s].target \in lastMessages'
    BY <1>1, <1>2 DEF HandlerOK, TargetOK
  <2>3. QED
    BY <1>2, <2>1, <2>2, EndedLocals, OtherHandlers
<1>6. DocumentsOK'
  <2>1. Done(r)' /\ \A s \in Call : Done(s) => Done(s)'
    BY <1>2, EndedLocals, DoneStep
  <2>2. QED
    BY <1>1, <1>2, <1>3, <2>1
    DEF DocumentsOK, TypeOK, Friendship, Conversation, Message, LastMessage
<1>7. RequestsOK' /\ PointersResolve'
  BY <1>1, <1>2 DEF RequestsOK, PointersResolve
<1>8. FriendsShareConversation' /\ MessagesFromMembers'
  BY <1>1, <1>2 DEF FriendsShareConversation, MessagesFromMembers
<1>9. QED
  BY <1>4, <1>5, <1>6, <1>7, <1>8 DEF IInv

LEMMA CommitMessageStep ==
  ASSUME IInv, NEW r \in Call, CommitMessage(r)
  PROVE  IInv'
<1> DEFINE c == call[r].conversation
           q == [Idle EXCEPT !.pc = "emit", !.conversation = c]
<1>1. /\ TypeOK /\ DocumentsOK /\ RequestsOK
      /\ FriendsShareConversation /\ MessagesFromMembers
      /\ \A s \in Call : HandlerOK(call[s], s)
  BY DEF IInv
<1>2. /\ call[r].pc = "commit" /\ call[r].friendship = None
      /\ Post(r)
      /\ call' = [call EXCEPT ![r] = q]
      /\ UNCHANGED <<friendships, conversations, clock>>
  BY DEF CommitMessage
<1>3. call[r].status = None
  BY <1>1, <1>2, NoneAssumption DEF HandlerOK, DecisionOK
<1>4. /\ c \in conversations /\ c \in Conversation
      /\ call[r].author \in c.members /\ call[r].author # None
      /\ Cast[call[r].ref] = c.id
  <2>1. /\ c \in conversations /\ call[r].author \in User \cap c.members
        /\ Cast[call[r].ref] = c.id
    BY <1>1, <1>2, <1>3 DEF HandlerOK, PostOK, Posting
  <2>2. c \in Conversation
    BY <1>1, <2>1 DEF TypeOK
  <2>3. QED
    BY <2>1, <2>2, NoneAssumption DEF Conversation
<1>5. /\ messages' = messages \cup {NewMessage(r)}
      /\ NewMessage(r).id = r
      /\ Cast[NewMessage(r).conversation] = c.id
      /\ NewMessage(r).user = call[r].author
  BY <1>2, <1>4 DEF Post, NewMessage
<1>6. /\ messages' \subseteq Message /\ lastMessages' \subseteq LastMessage
      /\ \A d \in lastMessages' : d.id = r \/ Done(d.id)
      /\ PointersResolve'
      /\ \A s \in Call \ {r} : call[s].target # None => call[s].target \in lastMessages'
  BY <1>2, <1>3, PostStep
<1>7. q \in CallState /\ q.pc = "emit" /\ q.status = None /\ q.target = None
  BY <1>4 DEF Idle, CallState, Pc
<1>8. TypeOK'
  BY <1>1, <1>2, <1>6, <1>7 DEF TypeOK
<1>9. \A s \in Call : HandlerOK(call[s], s)'
  <2>1. RequestsKept
    BY <1>2 DEF RequestsKept
  <2>2. QED
    BY <1>2, <1>6, <1>7, <2>1, OtherHandlers
<1>10. DocumentsOK'
  <2>1. Done(r)' /\ \A s \in Call : Done(s) => Done(s)'
    BY <1>2, <1>7, DoneStep
  <2>2. QED
    BY <1>1, <1>2, <1>5, <1>6, <2>1
    DEF DocumentsOK, TypeOK, Friendship, Conversation, Message, LastMessage
<1>11. RequestsOK' /\ FriendsShareConversation'
  BY <1>1, <1>2, <1>5 DEF RequestsOK, FriendsShareConversation
<1>12. MessagesFromMembers'
  BY <1>1, <1>2, <1>4, <1>5 DEF MessagesFromMembers
<1>13. QED
  BY <1>6, <1>8, <1>9, <1>10, <1>11, <1>12 DEF IInv

\* What saving a status does to the requests: nothing but that.
LEMMA StatusSavedFacts ==
  ASSUME IInv, NEW id \in Call, NEW s \in FriendshipStatus,
         \A f \in friendships : f.id = id => f.receiver \in User,
         friendships' = StatusSaved(id, s)
  PROVE  /\ friendships' \subseteq Friendship
         /\ RequestsKept
         /\ \A g \in friendships' : \E f \in friendships :
              /\ g.id = f.id /\ g.sender = f.sender /\ g.receiver = f.receiver
              /\ g.status = IF f.id = id THEN s ELSE f.status
         /\ \A g, h \in friendships' : g.id = h.id => g = h
         /\ RequestsOK'
<1> DEFINE Saved(f) == IF f.id = id THEN [f EXCEPT !.status = s] ELSE f
<1>1. friendships' = {Saved(f) : f \in friendships}
  BY DEF StatusSaved
<1>2. ASSUME NEW f \in friendships
      PROVE  /\ Saved(f) \in Friendship
             /\ Saved(f).id = f.id /\ Saved(f).sender = f.sender
             /\ Saved(f).receiver = f.receiver
             /\ Saved(f).status = IF f.id = id THEN s ELSE f.status
  <2>1. f \in Friendship
    BY DEF IInv, TypeOK
  <2>2. QED
    BY <2>1 DEF Friendship
<1> HIDE DEF Saved
<1>3. friendships' \subseteq Friendship /\ RequestsKept
  BY <1>1, <1>2 DEF RequestsKept
<1>4. ASSUME NEW g \in friendships'
      PROVE  \E f \in friendships :
               /\ g.id = f.id /\ g.sender = f.sender /\ g.receiver = f.receiver
               /\ g.status = IF f.id = id THEN s ELSE f.status
  BY <1>1, <1>2
<1>5. ASSUME NEW g \in friendships', NEW h \in friendships',
             \/ g.id = h.id
             \/ g.sender = h.sender /\ g.receiver = h.receiver
      PROVE  g = h
  <2>1. PICK f \in friendships : g = Saved(f)
    BY <1>1
  <2>2. PICK e \in friendships : h = Saved(e)
    BY <1>1
  <2>3. e = f
    BY <1>2, <1>5, <2>1, <2>2 DEF IInv, DocumentsOK, RequestsOK
  <2>4. QED
    BY <2>1, <2>2, <2>3
<1>6. \A g \in friendships' : g.status # "REQUESTED" => g.receiver \in User
  BY <1>4 DEF IInv, RequestsOK
<1>7. QED
  BY <1>3, <1>4, <1>5, <1>6 DEF RequestsOK

LEMMA CommitDeclineStep ==
  ASSUME IInv, NEW r \in Call, CommitDecline(r)
  PROVE  IInv'
<1> DEFINE q == [Idle EXCEPT !.pc = "ended"]
<1>1. /\ TypeOK /\ DocumentsOK
      /\ FriendsShareConversation /\ MessagesFromMembers /\ PointersResolve
      /\ \A s \in Call : HandlerOK(call[s], s)
  BY DEF IInv
<1>2. /\ call[r].pc = "commit" /\ call[r].status = "DECLINED"
      /\ friendships' = StatusSaved(call[r].friendship.id, "DECLINED")
      /\ call' = [call EXCEPT ![r] = q]
      /\ UNCHANGED <<conversations, messages, lastMessages, clock>>
  BY DEF CommitDecline, End
<1>3. /\ call[r].friendship.id \in Call /\ "DECLINED" \in FriendshipStatus
      /\ \A f \in friendships : f.id = call[r].friendship.id => f.receiver \in User
  BY <1>1, <1>2, NoneAssumption
  DEF HandlerOK, DecisionOK, DocumentsOK, Friendship, FriendshipStatus
<1>4. /\ friendships' \subseteq Friendship
      /\ RequestsKept
      /\ \A g \in friendships' : \E f \in friendships :
           /\ g.id = f.id /\ g.sender = f.sender /\ g.receiver = f.receiver
           /\ g.status = IF f.id = call[r].friendship.id THEN "DECLINED" ELSE f.status
      /\ \A g, h \in friendships' : g.id = h.id => g = h
      /\ RequestsOK'
  BY <1>2, <1>3, StatusSavedFacts
<1>5. TypeOK'
  BY <1>1, <1>2, <1>4, EndedLocals DEF TypeOK
<1>6. \A s \in Call : HandlerOK(call[s], s)'
  <2>1. \A s \in Call \ {r} : call[s].target # None => call[s].target \in lastMessages'
    BY <1>1, <1>2 DEF HandlerOK, TargetOK
  <2>2. QED
    BY <1>2, <1>4, <2>1, EndedLocals, OtherHandlers
<1>7. DocumentsOK'
  <2>1. Done(r)' /\ \A s \in Call : Done(s) => Done(s)'
    BY <1>2, EndedLocals, DoneStep
  <2>2. \A g \in friendships' : Done(g.id)'
    BY <1>1, <1>4, <2>1 DEF DocumentsOK, TypeOK, Friendship
  <2>3. QED
    BY <1>1, <1>2, <1>4, <2>1, <2>2
    DEF DocumentsOK, TypeOK, Conversation, Message, LastMessage
<1>8. FriendsShareConversation'
  BY <1>1, <1>2, <1>4 DEF FriendsShareConversation
<1>9. MessagesFromMembers' /\ PointersResolve'
  BY <1>1, <1>2 DEF MessagesFromMembers, PointersResolve
<1>10. QED
  BY <1>4, <1>5, <1>6, <1>7, <1>8, <1>9 DEF IInv

LEMMA CommitAcceptStep ==
  ASSUME IInv, NEW r \in Call, CommitAccept(r)
  PROVE  IInv'
<1> DEFINE c == call[r].conversation
           k == call[r].friendship
           q == [Idle EXCEPT !.pc = "ended"]
<1>1. /\ TypeOK /\ DocumentsOK /\ RequestsOK
      /\ FriendsShareConversation /\ MessagesFromMembers
      /\ ~ Done(r)
      /\ \A s \in Call : HandlerOK(call[s], s)
  BY DEF CommitAccept, IInv, Done
<1>2. /\ call[r].pc = "commit" /\ call[r].status = "ACCEPTED"
      /\ friendships' = StatusSaved(k.id, "ACCEPTED")
      /\ conversations' = conversations \cup {c}
      /\ Post(r)
      /\ call' = [call EXCEPT ![r] = q]
      /\ UNCHANGED clock
  BY DEF CommitAccept, End
<1>3. /\ k \in Friendship /\ k.id \in Call /\ "ACCEPTED" \in FriendshipStatus
      /\ \E f \in friendships :
           f.id = k.id /\ f.sender = k.sender /\ f.receiver = k.receiver
      /\ \A f \in friendships : f.id = k.id => f.receiver \in User
  BY <1>1, <1>2, NoneAssumption
  DEF HandlerOK, DecisionOK, DocumentsOK, Friendship, FriendshipStatus
<1>4. /\ c \in Conversation /\ call[r].author = None
      /\ IsOneToOneOf(c, k.sender, k.receiver)
      /\ c \in conversations \/ c.id = r
      /\ call[r].ref = c.id
  BY <1>1, <1>2 DEF HandlerOK, PostOK, Posting
<1>5. /\ friendships' \subseteq Friendship
      /\ RequestsKept
      /\ \A g \in friendships' : \E f \in friendships :
           /\ g.id = f.id /\ g.sender = f.sender /\ g.receiver = f.receiver
           /\ g.status = IF f.id = k.id THEN "ACCEPTED" ELSE f.status
      /\ \A g, h \in friendships' : g.id = h.id => g = h
      /\ RequestsOK'
  BY <1>2, <1>3, StatusSavedFacts
<1>6. /\ messages' \subseteq Message /\ lastMessages' \subseteq LastMessage
      /\ \A d \in lastMessages' : d.id = r \/ Done(d.id)
      /\ PointersResolve'
      /\ \A s \in Call \ {r} : call[s].target # None => call[s].target \in lastMessages'
  BY <1>2, PostStep
<1>7. /\ messages' = messages \cup {NewMessage(r)}
      /\ NewMessage(r).id = r
      /\ NewMessage(r).conversation = c.id
      /\ NewMessage(r).user = None
  BY <1>2, <1>4 DEF Post, NewMessage
<1>8. TypeOK'
  BY <1>1, <1>2, <1>4, <1>5, <1>6, EndedLocals DEF TypeOK
<1>9. \A s \in Call : HandlerOK(call[s], s)'
  BY <1>2, <1>5, <1>6, EndedLocals, OtherHandlers
<1>10. DocumentsOK'
  <2>1. Done(r)' /\ \A s \in Call : Done(s) => Done(s)'
    BY <1>2, EndedLocals, DoneStep
  <2>2. \A g \in friendships' : Done(g.id)'
    BY <1>1, <1>5, <2>1 DEF DocumentsOK, TypeOK, Friendship
  <2>3. /\ \A d \in conversations' : Done(d.id)'
        /\ \A d, e \in conversations' : d.id = e.id => d = e
    BY <1>1, <1>2, <1>4, <2>1 DEF DocumentsOK, TypeOK, Conversation
  <2>4. /\ \A m \in messages' : Done(m.id)'
        /\ \A d \in lastMessages' : Done(d.id)'
    BY <1>1, <1>6, <1>7, <2>1 DEF DocumentsOK, TypeOK, Message, LastMessage
  <2>5. QED
    BY <1>5, <2>2, <2>3, <2>4 DEF DocumentsOK
<1>11. FriendsShareConversation'
  <2> SUFFICES ASSUME NEW g \in friendships', g.status = "ACCEPTED"
               PROVE  \E d \in conversations' :
                        /\ IsOneToOneOf(d, g.sender, g.receiver)
                        /\ \E m \in messages' : m.conversation = d.id /\ m.user = None
    BY DEF FriendsShareConversation
  <2>1. PICK f \in friendships :
          /\ g.id = f.id /\ g.sender = f.sender /\ g.receiver = f.receiver
          /\ g.status = IF f.id = k.id THEN "ACCEPTED" ELSE f.status
    BY <1>5
  <2>2. CASE f.id = k.id
    <3>1. f.sender = k.sender /\ f.receiver = k.receiver
      BY <1>1, <1>3, <2>2 DEF DocumentsOK
    <3>2. QED
      BY <1>2, <1>4, <1>7, <2>1, <3>1
  <2>3. CASE f.id # k.id
    BY <1>1, <1>2, <1>7, <2>1, <2>3 DEF FriendsShareConversation
  <2>4. QED
    BY <2>2, <2>3
<1>12. MessagesFromMembers'
  <2>1. Cast[c.id] = c.id
    BY <1>4, CastAssumption DEF Conversation
  <2>2. QED
    BY <1>1, <1>2, <1>4, <1>7, <2>1 DEF MessagesFromMembers, IsOneToOneOf
<1>13. QED
  BY <1>5, <1>6, <1>8, <1>9, <1>10, <1>11, <1>12 DEF IInv

-----------------------------------------------------------------------------
(* The invariant, and the properties it implies *)

LEMMA InvariantStep == IInv /\ [Next]_vars => IInv'
<1> SUFFICES ASSUME IInv, [Next]_vars
             PROVE  IInv'
  OBVIOUS
<1>1. CASE UNCHANGED vars
  <2>1. \A s \in Call : HandlerOK(call[s], s)'
    BY <1>1 DEF vars, IInv, HandlerOK, RequestOK, OpeningOK, DecisionOK, PostOK,
                TargetOK, HoldsLastMessage
  <2>2. QED
    BY <1>1, <2>1
    DEF vars, IInv, TypeOK, DocumentsOK, Done, RequestsOK,
        FriendsShareConversation, MessagesFromMembers, PointersResolve
<1>2. ASSUME NEW r \in Call, Arrival(r)
      PROVE  IInv'
  BY <1>2, CheckRequestStep, FindRequestStep, CheckConversationStep, FindConversationStep
  DEF Arrival, FriendshipsArrival, ConversationsArrival, MessagesArrival
<1>3. ASSUME NEW r \in Call, Step(r)
      PROVE  IInv'
  <2>1. CASE FriendshipsStep(r)
    BY <2>1, InsertRequestStep, SaveStatusStep, LookupConversationStep,
       CommitDeclineStep, CommitAcceptStep DEF FriendshipsStep
  <2>2. CASE ConversationsStep(r)
    BY <2>2, InsertConversationStep DEF ConversationsStep
  <2>3. CASE MessagesStep(r)
    BY <2>3, CreateMessageStep, InsertMessageStep, WriteLastMessageStep,
       CommitMessageStep, EndStep DEF MessagesStep, EmitNewMessage
  <2>4. QED
    BY <1>3, <2>1, <2>2, <2>3 DEF Step
<1>4. ASSUME NEW r \in Call, Fail(r)
      PROVE  IInv'
  BY <1>4, EndStep DEF Fail
<1>5. QED
  BY <1>1, <1>2, <1>3, <1>4 DEF Next

LEMMA InvariantInit == Init => IInv
<1> SUFFICES ASSUME Init
             PROVE  IInv
  OBVIOUS
<1>1. TypeOK
  BY DEF Init, TypeOK, Idle, CallState, Pc
<1>2. \A r \in Call : HandlerOK(call[r], r)
  BY DEF Init, HandlerOK, RequestOK, OpeningOK, DecisionOK, PostOK, TargetOK,
         Posting, Idle, CallState, Pc
<1>3. QED
  BY <1>1, <1>2 DEF Init, IInv, DocumentsOK, RequestsOK,
                    FriendsShareConversation, MessagesFromMembers, PointersResolve

\* In every reachable state each handler knows what the code takes for granted
\* after its awaits, and the four collections fit together.
THEOREM Invariance == Spec => []IInv
<1>1. Init => IInv
  BY InvariantInit
<1>2. IInv /\ [Next]_vars => IInv'
  BY InvariantStep
<1>3. QED
  BY <1>1, <1>2, PTL DEF Spec

\* The documents and the local variables of the handlers are well typed.
THEOREM TypeCorrect == Spec => []TypeOK
<1>1. IInv => TypeOK
  BY DEF IInv
<1>2. QED
  BY <1>1, Invariance, PTL

\* createRequest stores two requests of one user to another one only if they
\* write the receiver's id in different ways, and changeRequestStatus decides
\* one of them at most, however many of their calls overlap.
THEOREM RequestsUnique == Spec => []OneRequestPerDirection
<1>1. IInv => OneRequestPerDirection
  BY CastAssumption DEF IInv, TypeOK, RequestsOK, OneRequestPerDirection
<1>2. QED
  BY <1>1, Invariance, PTL

\* changeRequestStatus never makes friends of two users without a
\* conversation of theirs and a notification in it, whatever it races with
\* and wherever it fails.
THEOREM FriendsConverse == Spec => []FriendsShareConversation
<1>1. IInv => FriendsShareConversation
  BY DEF IInv
<1>2. QED
  BY <1>1, Invariance, PTL

\* MessagesService.create never stores a message of a user who is not a
\* member of its conversation.
THEOREM AuthorsAreMembers == Spec => []MessagesFromMembers
<1>1. IInv => MessagesFromMembers
  BY DEF IInv
<1>2. QED
  BY <1>1, Invariance, PTL

\* Transactions that race in writeLastMessage never lose the pointer of a
\* conversation, and never leave one that points elsewhere.
THEOREM PointersAreSound == Spec => []PointersResolve
<1>1. IInv => PointersResolve
  BY DEF IInv
<1>2. QED
  BY <1>1, Invariance, PTL

-----------------------------------------------------------------------------
(* The services implement ChatService *)

\* The status of an ordered pair is the status of its one request.
LEMMA StatusOfRequest ==
  ASSUME NEW F, NEW f \in F,
         \A g \in F : g.sender = f.sender /\ g.receiver = f.receiver => g = f
  PROVE  StatusIn(F, <<f.sender, f.receiver>>) = f.status
<1> DEFINE S == {g \in F : <<g.sender, g.receiver>> = <<f.sender, f.receiver>>}
<1>1. S = {f}
  OBVIOUS
<1>2. (CHOOSE g \in S : TRUE) = f
  BY <1>1
<1>3. QED
  BY <1>1, <1>2 DEF StatusIn

LEMMA StatusOfNone ==
  ASSUME NEW F, NEW p, \A g \in F : <<g.sender, g.receiver>> # p
  PROVE  StatusIn(F, p) = None
BY DEF StatusIn

\* A new request of an ordered pair that has none.
LEMMA RequestMaps ==
  ASSUME IInv, NEW r \in Call, InsertRequest(r)
  PROVE  [Service!Next]_(Service!vars)
<1> DEFINE k == call[r].friendship
           p == <<k.sender, k.receiver>>
<1>1. UNCHANGED <<conversations, messages, lastMessages>>
  BY DEF InsertRequest
<1>2. CASE UNCHANGED friendships
  BY <1>1, <1>2 DEF Service!vars
<1>3. CASE ~ Indexed(k) /\ friendships' = friendships \cup {k}
  <2>1. /\ k \in Friendship /\ k.status = "REQUESTED" /\ p \in User \X Id
        /\ Cast[p[2]] \in User
    BY DEF InsertRequest, IInv, HandlerOK, RequestOK, Friendship
  <2>2. StatusIn(friendships, p) = None
    BY <1>3, StatusOfNone DEF Indexed
  <2>3. StatusIn(friendships', p) = "REQUESTED"
    <3>1. \A g \in friendships' : g.sender = k.sender /\ g.receiver = k.receiver => g = k
      BY <1>3 DEF Indexed
    <3>2. QED
      BY <1>3, <2>1, <3>1, StatusOfRequest
  <2>4. \A s \in User \X Id :
          s # p => StatusIn(friendships', s) = StatusIn(friendships, s)
    <3> SUFFICES ASSUME NEW s \in User \X Id, s # p
                 PROVE  StatusIn(friendships', s) = StatusIn(friendships, s)
      OBVIOUS
    <3>1. CASE \E g \in friendships : s = <<g.sender, g.receiver>>
      <4>1. PICK g \in friendships : s = <<g.sender, g.receiver>>
        BY <3>1
      <4>2. StatusIn(friendships, s) = g.status
        BY <4>1, StatusOfRequest DEF IInv, RequestsOK
      <4>3. \A h \in friendships' : h.sender = g.sender /\ h.receiver = g.receiver => h = g
        BY <1>3, <4>1 DEF IInv, RequestsOK
      <4>4. StatusIn(friendships', s) = g.status
        BY <1>3, <4>1, <4>3, StatusOfRequest
      <4>5. QED
        BY <4>2, <4>4
    <3>2. CASE \A g \in friendships : s # <<g.sender, g.receiver>>
      <4>1. \A g \in friendships' : s # <<g.sender, g.receiver>>
        BY <1>3, <3>2
      <4>2. QED
        BY <3>2, <4>1, StatusOfNone
    <3>3. QED
      BY <3>1, <3>2
  <2>5. Service!Request(p)
    BY <1>1, <2>1, <2>2, <2>3, <2>4 DEF Service!Request
  <2>6. QED
    BY <2>1, <2>5 DEF Service!Next, Service!Pair
<1>4. QED
  BY <1>2, <1>3 DEF InsertRequest

\* Saving a status is a change of the status of one ordered pair that has a
\* request.
LEMMA DecisionMaps ==
  ASSUME IInv, NEW k \in Friendship, NEW s \in FriendshipStatus,
         k.receiver \in User,
         friendships' = StatusSaved(k.id, s),
         \E f \in friendships : f.id = k.id /\ f.sender = k.sender /\ f.receiver = k.receiver
  PROVE  LET p == <<k.sender, k.receiver>> IN
           /\ StatusIn(friendships, p) # None
           /\ [t \in User \X Id |-> StatusIn(friendships', t)]
                = [[t \in User \X Id |-> StatusIn(friendships, t)] EXCEPT ![p] = s]
<1> DEFINE p == <<k.sender, k.receiver>>
<1>1. /\ k.id \in Call /\ p \in User \X Id
      /\ \A f \in friendships : f.id = k.id => f.receiver \in User
  BY DEF Friendship, IInv, DocumentsOK
<1>2. /\ friendships' \subseteq Friendship
      /\ RequestsKept
      /\ \A g \in friendships' : \E f \in friendships :
           /\ g.id = f.id /\ g.sender = f.sender /\ g.receiver = f.receiver
           /\ g.status = IF f.id = k.id THEN s ELSE f.status
      /\ RequestsOK'
  BY <1>1, StatusSavedFacts
<1>3. PICK f \in friendships : f.id = k.id /\ f.sender = k.sender /\ f.receiver = k.receiver
  OBVIOUS
<1>4. StatusIn(friendships, p) # None
  <2>1. StatusIn(friendships, p) = f.status
    BY <1>3, StatusOfRequest DEF IInv, RequestsOK
  <2>2. QED
    BY <2>1, NoneAssumption DEF IInv, TypeOK, Friendship
<1>5. ASSUME NEW t \in User \X Id
      PROVE  StatusIn(friendships', t) = IF t = p THEN s ELSE StatusIn(friendships, t)
  <2>1. CASE \E g \in friendships' : t = <<g.sender, g.receiver>>
    <3>1. PICK g \in friendships' : t = <<g.sender, g.receiver>>
      BY <2>1
    <3>2. PICK e \in friendships :
            /\ g.id = e.id /\ g.sender = e.sender /\ g.receiver = e.receiver
            /\ g.status = IF e.id = k.id THEN s ELSE e.status
      BY <1>2
    <3>3. StatusIn(friendships', t) = g.status
      BY <1>2, <3>1, StatusOfRequest DEF RequestsOK
    <3>4. StatusIn(friendships, t) = e.status
      BY <3>1, <3>2, StatusOfRequest DEF IInv, RequestsOK
    <3>5. e.id = k.id <=> t = p
      BY <1>3, <3>1, <3>2 DEF IInv, DocumentsOK, RequestsOK
    <3>6. QED
      BY <3>2, <3>3, <3>4, <3>5
  <2>2. CASE \A g \in friendships' : t # <<g.sender, g.receiver>>
    <3>1. \A g \in friendships : t # <<g.sender, g.receiver>>
      BY <1>2, <2>2 DEF RequestsKept
    <3>2. t # p
      BY <1>3, <3>1
    <3>3. QED
      BY <2>2, <3>1, <3>2, StatusOfNone
  <2>3. QED
    BY <2>1, <2>2
<1>6. QED
  BY <1>1, <1>4, <1>5

\* The writes of a posted message are one Post of the abstract service.
LEMMA PostMaps ==
  ASSUME IInv, NEW r \in Call, call[r].pc = "commit",
         call[r].status \in {None, "ACCEPTED"}, Post(r)
  PROVE  Service!Post(call[r].conversation, call[r].author)
<1> DEFINE c == call[r].conversation
           ref == call[r].ref
           t == call[r].target
           p == Pointer(r)
           m == NewMessage(r)
           Pair(d) == <<d.conversation, d.message>>
<1>1. /\ call[r] \in CallState
      /\ TypeOK /\ DocumentsOK /\ PointersResolve /\ ~ Done(r)
      /\ TargetOK(call[r], r)
  BY DEF IInv, HandlerOK, Done
<1>2. /\ m.id = r /\ m.conversation = ref /\ m.user = call[r].author
      /\ messages' = messages \cup {m}
      /\ lastMessages' = (lastMessages \ {t}) \cup {p}
  BY DEF Post, NewMessage
<1>3. \A n \in messages : n.id # m.id
  BY <1>1, <1>2 DEF DocumentsOK
<1>4. Pair(p) = <<ref, m.id>>
  <2>1. CASE t = None
    BY <1>2, <2>1 DEF Pointer
  <2>2. CASE t # None
    <3>1. t \in LastMessage /\ t.conversation = ref
      BY <1>1, <2>2 DEF TargetOK, CallState
    <3>2. QED
      BY <1>2, <2>2, <3>1 DEF Pointer, LastMessage
  <2>3. QED
    BY <2>1, <2>2
<1> DEFINE before == {Pair(d) : d \in lastMessages}
           after == {Pair(d) : d \in lastMessages'}
<1>5. \/ after = before \cup {<<ref, m.id>>}
      \/ \E n \in messages :
           /\ <<ref, n.id>> \in before
           /\ after = (before \ {<<ref, n.id>>}) \cup {<<ref, m.id>>}
  <2>1. CASE t = None
    <3>1. lastMessages' = lastMessages \cup {p}
      BY <1>1, <1>2, <2>1, NoneAssumption DEF TypeOK
    <3>2. QED
      BY <1>4, <3>1
  <2>2. CASE t # None
    <3>1. t \in lastMessages /\ t.conversation = ref
      BY <1>1, <2>2 DEF TargetOK
    <3>2. PICK n \in messages : n.id = t.message
      BY <1>1, <3>1 DEF PointersResolve
    <3>3. Pair(t) = <<ref, n.id>>
      BY <3>1, <3>2
    <3>4. \A d \in lastMessages : Pair(d) = Pair(t) => d = t
      BY <1>1, <3>1 DEF PointersResolve
    <3>5. after = (before \ {Pair(t)}) \cup {Pair(p)}
      BY <1>2, <3>1, <3>4
    <3>6. QED
      BY <1>4, <3>1, <3>3, <3>5
  <2>3. QED
    BY <2>1, <2>2
<1>6. Cast[ref] = c.id
  <2>1. CASE call[r].status = None
    BY <2>1 DEF IInv, HandlerOK, PostOK, Posting
  <2>2. CASE call[r].status = "ACCEPTED"
    BY <2>2, CastAssumption DEF IInv, HandlerOK, PostOK, Posting, Conversation
  <2>3. QED
    BY <2>1, <2>2
<1>7. QED
  BY <1>2, <1>3, <1>5, <1>6 DEF Service!Post

LEMMA ConversationMaps ==
  ASSUME IInv, NEW r \in Call, InsertConversation(r)
  PROVE  Service!Next
<1>1. PICK type \in {"ONE_TO_ONE", "GROUP"}, members \in SUBSET Id :
        /\ ValidBody(type, members)
        /\ AllRegistered(members) /\ members \cap User # {}
        /\ conversations' = conversations \cup {NewConversation(r, type, members)}
  BY DEF InsertConversation, IInv, HandlerOK, OpeningOK
<1>2. \A c \in conversations : c.id # r
  BY DEF InsertConversation, IInv, DocumentsOK, Done
<1>3. UNCHANGED <<friendships, messages, lastMessages>>
  BY DEF InsertConversation
<1>4. IF type = "ONE_TO_ONE" THEN Cardinality(members) = 2 ELSE Cardinality(members) >= 3
  BY <1>1 DEF ValidBody
<1>5. \E id \in Call :
        /\ \A c \in conversations : c.id # id
        /\ conversations' = conversations \cup
             {[id |-> id, type |-> type, members |-> members,
               size |-> Cardinality(members)]}
  BY <1>1, <1>2 DEF NewConversation
<1>6. \A S : Service!Cardinality(S) = Cardinality(S)
  BY Zenon DEF Cardinality, Service!Cardinality
<1>7. Service!Open(type, members)
  BY <1>1, <1>3, <1>4, <1>5, <1>6 DEF Service!Open, AllRegistered
<1>8. QED
  BY <1>7 DEF Service!Next

LEMMA MessageMaps ==
  ASSUME IInv, NEW r \in Call, CommitMessage(r)
  PROVE  Service!Next
<1> DEFINE c == call[r].conversation
<1>1. /\ call[r].pc = "commit" /\ call[r].status = None /\ Post(r)
      /\ UNCHANGED <<friendships, conversations>>
  BY NoneAssumption DEF CommitMessage, IInv, HandlerOK, DecisionOK
<1>2. c \in conversations /\ call[r].author \in User \cap c.members
  BY <1>1 DEF IInv, HandlerOK, PostOK, Posting
<1>3. Service!PostMessage(c, call[r].author)
  BY <1>1, <1>2, PostMaps DEF Service!PostMessage
<1>4. QED
  BY <1>2, <1>3 DEF Service!Next, Service!PostMessage, Service!Post

LEMMA DeclineMaps ==
  ASSUME IInv, NEW r \in Call, CommitDecline(r)
  PROVE  Service!Next
<1> DEFINE k == call[r].friendship
           p == <<k.sender, k.receiver>>
<1>1. /\ k \in Friendship /\ k.receiver \in User /\ p \in User \X User
      /\ \E f \in friendships : f.id = k.id /\ f.sender = k.sender /\ f.receiver = k.receiver
  BY NoneAssumption
  DEF CommitDecline, IInv, HandlerOK, DecisionOK, Friendship, FriendshipStatus
<1>2. /\ friendships' = StatusSaved(k.id, "DECLINED")
      /\ UNCHANGED <<conversations, messages, lastMessages>>
  BY DEF CommitDecline
<1>3. "DECLINED" \in FriendshipStatus
  BY DEF FriendshipStatus
<1>4. /\ StatusIn(friendships, p) # None
      /\ [t \in User \X Id |-> StatusIn(friendships', t)]
           = [[t \in User \X Id |-> StatusIn(friendships, t)] EXCEPT ![p] = "DECLINED"]
  BY <1>1, <1>2, <1>3, DecisionMaps
<1>5. Service!Decline(p)
  BY <1>1, <1>2, <1>4, UserAssumption DEF Service!Decline
<1>6. QED
  BY <1>1, <1>5 DEF Service!Next, Service!Pair

LEMMA AcceptMaps ==
  ASSUME IInv, NEW r \in Call, CommitAccept(r)
  PROVE  Service!Next
<1> DEFINE k == call[r].friendship
           c == call[r].conversation
           p == <<k.sender, k.receiver>>
<1>1. /\ k \in Friendship /\ k.receiver \in User /\ p \in User \X User
      /\ \E f \in friendships : f.id = k.id /\ f.sender = k.sender /\ f.receiver = k.receiver
      /\ call[r].author = None
      /\ IsOneToOneOf(c, k.sender, k.receiver)
  BY NoneAssumption
  DEF CommitAccept, IInv, HandlerOK, DecisionOK, PostOK, Posting, Friendship,
      FriendshipStatus
<1>2. /\ call[r].pc = "commit" /\ call[r].status = "ACCEPTED"
      /\ friendships' = StatusSaved(k.id, "ACCEPTED")
      /\ conversations' = conversations \cup {c}
      /\ Post(r)
  BY DEF CommitAccept
<1>3. "ACCEPTED" \in FriendshipStatus
  BY DEF FriendshipStatus
<1>4. /\ StatusIn(friendships, p) # None
      /\ [t \in User \X Id |-> StatusIn(friendships', t)]
           = [[t \in User \X Id |-> StatusIn(friendships, t)] EXCEPT ![p] = "ACCEPTED"]
  BY <1>1, <1>2, <1>3, DecisionMaps
<1>5. Service!Post(c, None)
  BY <1>1, <1>2, PostMaps DEF Service!Post
<1>6. Service!IsConversationOf(c, p)
  BY <1>1 DEF Service!IsConversationOf, IsOneToOneOf
<1>7. \E d \in conversations' :
        /\ Service!IsConversationOf(d, p)
        /\ conversations' = conversations \cup {d}
        /\ Service!Post(d, None)
  BY <1>2, <1>5, <1>6 DEF Service!Post, Service!IsConversationOf
<1>8. \E s \in User \X User : s = p /\ Service!Accept(s)
  BY <1>1, <1>4, <1>7, UserAssumption DEF Service!Accept, Service!IsConversationOf
<1>9. QED
  BY <1>8 DEF Service!Next, Service!Pair

\* Whatever the interleaving and the failures, the calls of the chat services
\* change the data as the atomic operations of ChatService do.
THEOREM Implementation == Spec => ImplementsService
<1>1. Init => Service!Init
  <2> SUFFICES ASSUME Init
               PROVE  Service!Init
    OBVIOUS
  <2>1. \A p \in User \X Id : StatusIn(friendships, p) = None
    BY StatusOfNone DEF Init
  <2>2. QED
    BY <2>1 DEF Init, Service!Init, Service!Pair
<1>2. IInv /\ [Next]_vars => [Service!Next]_(Service!vars)
  <2> SUFFICES ASSUME IInv, [Next]_vars
               PROVE  [Service!Next]_(Service!vars)
    OBVIOUS
  <2>1. ASSUME UNCHANGED collections
        PROVE  UNCHANGED Service!vars
    BY <2>1 DEF collections, Service!vars
  <2>2. CASE UNCHANGED vars
    BY <2>1, <2>2 DEF vars, collections
  <2>3. ASSUME NEW r \in Call, Arrival(r)
        PROVE  UNCHANGED collections
    BY <2>3 DEF Arrival, FriendshipsArrival, ConversationsArrival, MessagesArrival,
                CheckRequest, FindRequest, CheckConversation, FindConversation
  <2>4. ASSUME NEW r \in Call, Step(r)
        PROVE  [Service!Next]_(Service!vars)
    <3>1. CASE FriendshipsStep(r)
      <4>1. CASE SaveStatus(r) \/ LookupConversation(r)
        BY <2>1, <4>1 DEF SaveStatus, LookupConversation
      <4>2. QED
        BY <3>1, <4>1, RequestMaps, DeclineMaps, AcceptMaps DEF FriendshipsStep
    <3>2. CASE ConversationsStep(r)
      BY <3>2, ConversationMaps DEF ConversationsStep
    <3>3. CASE MessagesStep(r)
      <4>1. CASE CreateMessage(r) \/ InsertMessage(r) \/ WriteLastMessage(r)
                   \/ EmitNewMessage(r)
        BY <2>1, <4>1 DEF CreateMessage, InsertMessage, WriteLastMessage, EmitNewMessage
      <4>2. QED
        BY <3>3, <4>1, MessageMaps DEF MessagesStep
    <3>4. QED
      BY <2>4, <3>1, <3>2, <3>3 DEF Step
  <2>5. ASSUME NEW r \in Call, Fail(r)
        PROVE  UNCHANGED collections
    BY <2>5 DEF Fail
  <2>6. QED
    BY <2>1, <2>2, <2>3, <2>4, <2>5 DEF Next
<1>3. QED
  BY <1>1, <1>2, Invariance, PTL DEF Spec, Service!Spec, ImplementsService

-----------------------------------------------------------------------------
(* Which overlaps do harm: how a step moves its handler                     *)

LEMMA OneMoves ==
  ASSUME IInv, NEW r \in Call, Arrival(r) \/ Step(r) \/ Fail(r)
  PROVE  \A s \in Call \ {r} : call'[s] = call[s]
<1>1. call \in [Call -> CallState]
  BY DEF IInv, TypeOK
<1>2. CASE Arrival(r)
  BY <1>1, <1>2 DEF Arrival, FriendshipsArrival, ConversationsArrival, MessagesArrival,
     CheckRequest, FindRequest, CheckConversation, FindConversation, End
<1>3. CASE Step(r) \/ Fail(r)
  BY <1>1, <1>3 DEF Step, FriendshipsStep, ConversationsStep, MessagesStep, Fail, End,
     InsertRequest, SaveStatus, LookupConversation, CommitDecline, CommitAccept,
     InsertConversation, CreateMessage, InsertMessage, WriteLastMessage, CommitMessage,
     EmitNewMessage
<1> QED BY <1>2, <1>3

\* The handler has nothing more to store.
Finishes(r) == call'[r].pc \in {"emit", "ended"} /\ call'[r].status = None

\* What a handler that has ended, or only has its event left, knows.
LEMMA Finished ==
  ASSUME IInv, NEW r \in Call,
         \/ End(r)
         \/ call' = [call EXCEPT ![r] = [Idle EXCEPT !.pc = "emit",
                                         !.conversation = call[r].conversation]]
  PROVE  Finishes(r)
BY DEF IInv, TypeOK, End, Idle, Finishes

LEMMA FinishingSteps ==
  ASSUME IInv, NEW r \in Call,
         \/ InsertRequest(r) \/ InsertConversation(r) \/ CommitMessage(r)
         \/ CommitDecline(r) \/ CommitAccept(r) \/ EmitNewMessage(r) \/ Fail(r)
  PROVE  Finishes(r)
BY Finished DEF InsertRequest, InsertConversation, CommitMessage, CommitDecline, CommitAccept,
   EmitNewMessage, Fail

\* What a call knows when it has arrived.
ArrivesWith(r) ==
  \/ Finishes(r)
  \/ /\ call'[r].pc = "insertRequest" /\ call'[r].status = None
     /\ ~ LiveBetween(call'[r].friendship.sender, call'[r].friendship.receiver)
  \/ /\ call'[r].pc = "save" /\ call'[r].status \in {"ACCEPTED", "DECLINED"}
     /\ call'[r].friendship \in friendships /\ call'[r].friendship.status = "REQUESTED"
  \/ /\ call'[r].pc = "insertConversation" /\ call'[r].status = None
     /\ call'[r].conversation.type = "ONE_TO_ONE" =>
          \A c \in conversations :
            ~ \A v, w \in call'[r].conversation.members : IsOneToOneOf(c, v, w)
  \/ /\ call'[r].pc = "createMessage" /\ call'[r].status = None
     /\ call'[r].conversation \in conversations

LEMMA ArrivalMoves ==
  ASSUME IInv, NEW r \in Call, Arrival(r)
  PROVE  UNCHANGED collections /\ UNCHANGED clock /\ ArrivesWith(r)
<1>1. call \in [Call -> CallState]
  BY DEF IInv, TypeOK
<1>2. End(r) => ArrivesWith(r)
  BY Finished DEF ArrivesWith
<1>3. ASSUME NEW u \in User, NEW v \in Id, CheckRequest(r, u, v)
      PROVE  UNCHANGED collections /\ UNCHANGED clock /\ ArrivesWith(r)
  <2>1. CASE ~ End(r)
    <3>1. call' = [call EXCEPT ![r] = [Idle EXCEPT !.pc = "insertRequest",
                     !.friendship = [id |-> r, sender |-> u, receiver |-> v,
                                     status |-> "REQUESTED"]]]
      BY <1>3, <2>1 DEF CheckRequest
    <3>2. /\ call'[r].pc = "insertRequest" /\ call'[r].status = None
          /\ call'[r].friendship.sender = u /\ call'[r].friendship.receiver = v
      BY <1>1, <3>1 DEF Idle
    <3>3. ~ LiveBetween(u, v)
      BY <1>3, <2>1 DEF CheckRequest
    <3> QED BY <1>3, <3>2, <3>3 DEF CheckRequest, ArrivesWith
  <2> QED BY <1>2, <1>3, <2>1 DEF CheckRequest
<1>4. ASSUME NEW u \in User, NEW id \in Call, NEW status \in {"ACCEPTED", "DECLINED"},
             FindRequest(r, u, id, status)
      PROVE  UNCHANGED collections /\ UNCHANGED clock /\ ArrivesWith(r)
  <2>1. ASSUME NEW f \in friendships, f.status = "REQUESTED",
               call' = [call EXCEPT ![r] = [Idle EXCEPT !.pc = "save", !.friendship = f,
                                                        !.status = status]]
        PROVE  ArrivesWith(r)
    <3>1. call'[r].pc = "save" /\ call'[r].status = status /\ call'[r].friendship = f
      BY <1>1, <2>1 DEF Idle
    <3> QED BY <2>1, <3>1 DEF ArrivesWith
  <2> QED BY <1>2, <1>4, <2>1 DEF FindRequest
<1>5. ASSUME NEW u \in User, NEW type \in {"ONE_TO_ONE", "GROUP"}, NEW members \in SUBSET Id,
             CheckConversation(r, u, type, members)
      PROVE  UNCHANGED collections /\ UNCHANGED clock /\ ArrivesWith(r)
  <2>1. CASE ~ End(r)
    <3>1. call' = [call EXCEPT ![r] = [Idle EXCEPT !.pc = "insertConversation",
                                         !.conversation = NewConversation(r, type, members)]]
      BY <1>5, <2>1 DEF CheckConversation
    <3>2. /\ call'[r].pc = "insertConversation" /\ call'[r].status = None
          /\ call'[r].conversation.type = type /\ call'[r].conversation.members = members
      BY <1>1, <3>1 DEF Idle, NewConversation
    <3>3. type = "ONE_TO_ONE" =>
            \A c \in conversations : ~ \A v, w \in members : IsOneToOneOf(c, v, w)
      BY <1>5, <2>1 DEF CheckConversation
    <3> QED BY <1>5, <3>2, <3>3 DEF CheckConversation, ArrivesWith
  <2> QED BY <1>2, <1>5, <2>1 DEF CheckConversation
<1>6. ASSUME NEW u \in User, NEW ref \in Ref, FindConversation(r, u, ref)
      PROVE  UNCHANGED collections /\ UNCHANGED clock /\ ArrivesWith(r)
  <2>1. ASSUME NEW c \in conversations,
               call' = [call EXCEPT ![r] = [Idle EXCEPT !.pc = "createMessage",
                                              !.conversation = c, !.author = u, !.ref = ref]]
        PROVE  ArrivesWith(r)
    <3>1. call'[r].pc = "createMessage" /\ call'[r].status = None /\ call'[r].conversation = c
      BY <1>1, <2>1 DEF Idle
    <3> QED BY <3>1 DEF ArrivesWith
  <2> QED BY <1>2, <1>6, <2>1 DEF FindConversation
<1> QED BY <1>3, <1>4, <1>5, <1>6
    DEF Arrival, FriendshipsArrival, ConversationsArrival, MessagesArrival

\* A step on the way to the commit: the handler goes on with the friendship,
\* the decision and the conversation it has.
Continues(r) ==
  /\ call'[r].status = call[r].status
  /\ call'[r].friendship = call[r].friendship
  /\ call'[r].conversation = call[r].conversation
  /\ call'[r].ref = call[r].ref

LEMMA SaveMoves ==
  ASSUME IInv, NEW r \in Call, SaveStatus(r)
  PROVE  /\ UNCHANGED collections /\ UNCHANGED clock /\ call[r].pc = "save"
         /\ \/ Finishes(r)
            \/ /\ Continues(r)
               /\ \/ /\ call[r].status = "ACCEPTED" /\ call'[r].pc = "lookup"
                     /\ call'[r].snapshot = lastMessages
                  \/ call[r].status = "DECLINED" /\ call'[r].pc = "commit"
<1>1. call[r] \in CallState /\ call \in [Call -> CallState]
  BY DEF IInv, TypeOK
<1>2. CASE End(r)
  BY <1>2, Finished DEF SaveStatus
<1>3. CASE /\ call[r].status = "ACCEPTED"
           /\ call' = [call EXCEPT ![r].pc = "lookup", ![r].snapshot = lastMessages]
  BY <1>1, <1>3 DEF SaveStatus, CallState, Continues
<1>4. CASE call[r].status = "DECLINED" /\ call' = [call EXCEPT ![r].pc = "commit"]
  BY <1>1, <1>4 DEF SaveStatus, CallState, Continues
<1> QED BY <1>2, <1>3, <1>4 DEF SaveStatus

LEMMA LookupMoves ==
  ASSUME IInv, NEW r \in Call, LookupConversation(r)
  PROVE  /\ UNCHANGED collections /\ UNCHANGED clock
         /\ call[r].pc = "lookup" /\ call[r].status = "ACCEPTED"
         /\ call'[r].pc = "createMessage" /\ call'[r].status = "ACCEPTED"
         /\ call'[r].friendship = call[r].friendship
         /\ call'[r].snapshot = call[r].snapshot
         /\ call'[r].ref = call'[r].conversation.id
         /\ \/ /\ call'[r].conversation \in conversations
               /\ IsOneToOneOf(call'[r].conversation, call[r].friendship.sender,
                               call[r].friendship.receiver)
            \/ /\ call'[r].conversation = PairConversation(r)
               /\ \A c \in conversations :
                    ~ IsOneToOneOf(c, call[r].friendship.sender, call[r].friendship.receiver)
<1>1. call[r] \in CallState /\ call \in [Call -> CallState]
  BY DEF IInv, TypeOK
<1>2. call[r].pc = "lookup" /\ call[r].status = "ACCEPTED" /\ UNCHANGED collections /\ UNCHANGED clock
  BY DEF LookupConversation, IInv, HandlerOK, DecisionOK
<1> DEFINE found == {c \in conversations : IsOneToOneOf(c, call[r].friendship.sender,
                                                        call[r].friendship.receiver)}
<1>3. PICK c \in (IF found = {} THEN {PairConversation(r)} ELSE found) :
        call' = [call EXCEPT ![r].pc = "createMessage", ![r].conversation = c,
                             ![r].ref = c.id]
  BY DEF LookupConversation
<1>4. /\ call'[r].pc = "createMessage" /\ call'[r].conversation = c
      /\ call'[r].ref = c.id
      /\ call'[r].status = call[r].status /\ call'[r].friendship = call[r].friendship
      /\ call'[r].snapshot = call[r].snapshot
  BY <1>1, <1>3 DEF CallState
<1>5. \/ c \in found
      \/ c = PairConversation(r) /\ found = {}
  BY <1>3
<1> QED BY <1>2, <1>4, <1>5

LEMMA WorkMoves ==
  ASSUME IInv, NEW r \in Call, CreateMessage(r) \/ InsertMessage(r) \/ WriteLastMessage(r)
  PROVE  /\ UNCHANGED collections
         /\ call[r].pc \in {"createMessage", "insertMessage", "writeLast"}
         /\ call[r].status # "DECLINED"
         /\ Finishes(r) \/ (Continues(r) /\ call'[r].pc \in Posting)
<1>1. call[r] \in CallState /\ call \in [Call -> CallState] /\ DecisionOK(call[r])
  BY DEF IInv, TypeOK, HandlerOK
<1>2. CASE CreateMessage(r) \/ InsertMessage(r)
  BY <1>1, <1>2 DEF CreateMessage, InsertMessage, CallState, Continues, Posting, DecisionOK
<1>3. CASE WriteLastMessage(r)
  <2>1. CASE End(r)
    BY <1>1, <1>3, <2>1, Finished DEF WriteLastMessage, DecisionOK
  <2>2. CASE ~ End(r)
    BY <1>1, <1>3, <2>2 DEF WriteLastMessage, CallState, Continues, Posting, DecisionOK
  <2> QED BY <2>1, <2>2
<1> QED BY <1>2, <1>3

-----------------------------------------------------------------------------
(* One-to-one conversations *)

\* What createConversation and the lookup of changeRequestStatus found missing
\* is still missing.
OpeningInv ==
  /\ \A c \in conversations : c.type = "ONE_TO_ONE" => c.size = 2
  /\ OneToOneUnique
  /\ \A r \in Call : Opens(r) =>
       \A c \in conversations :
         c.type = "ONE_TO_ONE" => c.members # call[r].conversation.members

\* A step that stores no conversation.
LEMMA OpeningKept ==
  ASSUME OpeningInv, UNCHANGED conversations, NEW r \in Call,
         \A s \in Call \ {r} : call'[s] = call[s],
         Opens(r)' => \A c \in conversations :
           c.type = "ONE_TO_ONE" => c.members # call'[r].conversation.members
  PROVE  OpeningInv'
<1>1. \A s \in Call \ {r} : Opens(s)' => Opens(s)
  BY DEF Opens
<1> QED BY <1>1 DEF OpeningInv, OneToOneUnique

\* A step that may store one.
LEMMA OpeningStored ==
  ASSUME OpeningInv, OpeningsApart, NEW r \in Call,
         \A s \in Call \ {r} : call'[s] = call[s], Finishes(r),
         call[r].pc \in {"insertConversation", "commit"},
         conversations' = conversations \cup {call[r].conversation},
         \/ call[r].conversation \in conversations
         \/ call[r].conversation.type = "ONE_TO_ONE" =>
              Opens(r) /\ call[r].conversation.size = 2
  PROVE  OpeningInv'
<1>1. CASE call[r].conversation \in conversations
  BY <1>1, OpeningKept DEF Finishes, Opens, Posting
<1>2. CASE call[r].conversation \notin conversations
  <2>1. PICK n : n = call[r].conversation
    OBVIOUS
  <2>2. \A s \in Call : Opens(s)' => s # r /\ Opens(s)
    BY <2>1 DEF Opens, Finishes, Posting
  <2>3. ASSUME NEW s \in Call, Opens(s)', NEW c \in conversations', c.type = "ONE_TO_ONE"
        PROVE  c.members # call'[s].conversation.members
    <3>1. s # r /\ Opens(s) /\ call'[s] = call[s]
      BY <2>2, <2>3
    <3>2. CASE c \in conversations
      BY <3>1, <2>3, <3>2 DEF OpeningInv
    <3>3. CASE c = n
      BY <1>2, <2>1, <2>3, <3>1, <3>3 DEF OpeningsApart
    <3> QED BY <2>1, <3>2, <3>3
  <2>4. OneToOneUnique'
    BY <1>2 DEF OpeningInv, OneToOneUnique
  <2> QED BY <1>2, <2>3, <2>4 DEF OpeningInv
<1> QED BY <1>1, <1>2

LEMMA OpeningStep ==
  ASSUME IInv, OpeningInv, OpeningsApart, [Next]_vars
  PROVE  OpeningInv'
<1>1. CASE UNCHANGED vars
  BY <1>1 DEF vars, OpeningInv, Opens, OneToOneUnique
<1>2. ASSUME NEW r \in Call, Arrival(r)
      PROVE  OpeningInv'
  <2>1. UNCHANGED conversations /\ ArrivesWith(r)
    BY <1>2, ArrivalMoves DEF collections
  <2>2. ASSUME Opens(r)', NEW c \in conversations, c.type = "ONE_TO_ONE"
        PROVE  c.members # call'[r].conversation.members
    <3>1. /\ call'[r].pc = "insertConversation"
          /\ ~ \A v, w \in call'[r].conversation.members : IsOneToOneOf(c, v, w)
      BY <2>1, <2>2, NoneAssumption DEF ArrivesWith, Finishes, Opens, Posting, FriendshipStatus
    <3> QED BY <2>2, <3>1 DEF IsOneToOneOf, OpeningInv
  <2> QED BY <1>2, <2>1, <2>2, OneMoves, OpeningKept
<1>3. ASSUME NEW r \in Call, Step(r) \/ Fail(r)
      PROVE  OpeningInv'
  <2>0. \A s \in Call \ {r} : call'[s] = call[s]
    BY <1>3, OneMoves
  <2>1. CASE InsertRequest(r) \/ CommitDecline(r) \/ CommitMessage(r) \/ EmitNewMessage(r)
             \/ Fail(r)
    <3>1. UNCHANGED conversations
      BY <2>1 DEF InsertRequest, CommitDecline, CommitMessage, EmitNewMessage, Fail, collections
    <3> QED BY <2>0, <2>1, <3>1, FinishingSteps, OpeningKept DEF Finishes, Opens, Posting
  <2>2. CASE SaveStatus(r)
    <3>1. ~ Opens(r)' /\ UNCHANGED conversations
      BY <2>2, SaveMoves DEF Finishes, Continues, Opens, Posting, collections
    <3> QED BY <2>0, <3>1, OpeningKept
  <2>3. CASE LookupConversation(r)
    <3>1. UNCHANGED conversations
      BY <2>3, LookupMoves DEF collections
    <3>2. ASSUME Opens(r)', NEW c \in conversations, c.type = "ONE_TO_ONE"
          PROVE  c.members # call'[r].conversation.members
      <4>1. /\ call'[r].conversation = PairConversation(r)
            /\ ~ IsOneToOneOf(c, call[r].friendship.sender, call[r].friendship.receiver)
        BY <2>3, <3>1, <3>2, LookupMoves DEF Opens
      <4> QED BY <3>2, <4>1 DEF PairConversation, IsOneToOneOf, OpeningInv
    <3> QED BY <2>0, <3>1, <3>2, OpeningKept
  <2>4. CASE CreateMessage(r) \/ InsertMessage(r) \/ WriteLastMessage(r)
    <3>1. /\ UNCHANGED conversations /\ call[r].pc \in Posting
          /\ Finishes(r) \/ (Continues(r) /\ call'[r].pc \in Posting)
      BY <2>4, WorkMoves DEF collections, Posting
    <3>2. Opens(r)' => Opens(r) /\ call'[r].conversation = call[r].conversation
      BY <3>1 DEF Opens, Finishes, Continues, Posting
    <3> QED BY <2>0, <3>1, <3>2, OpeningKept DEF OpeningInv
  <2>5. CASE InsertConversation(r)
    <3>1. PICK type \in {"ONE_TO_ONE", "GROUP"}, members \in SUBSET Id :
            ValidBody(type, members) /\ call[r].conversation = NewConversation(r, type, members)
      BY <2>5 DEF IInv, HandlerOK, OpeningOK, InsertConversation
    <3>2. call[r].conversation.type = "ONE_TO_ONE" => Opens(r) /\ call[r].conversation.size = 2
      BY <2>5, <3>1 DEF ValidBody, NewConversation, Opens, InsertConversation
    <3> QED BY <2>0, <2>5, <3>2, FinishingSteps, OpeningStored DEF InsertConversation
  <2>6. CASE CommitAccept(r)
    <3>1. call[r].conversation \in conversations \/ (Opens(r) /\ call[r].conversation.size = 2)
      BY <2>6, NoneAssumption DEF CommitAccept, IInv, HandlerOK, PostOK, Posting, IsOneToOneOf, Opens
    <3> QED BY <2>0, <2>6, <3>1, FinishingSteps, OpeningStored DEF CommitAccept
  <2> QED BY <1>3, <2>1, <2>2, <2>3, <2>4, <2>5, <2>6
      DEF Step, FriendshipsStep, ConversationsStep, MessagesStep
<1> QED BY <1>1, <1>2, <1>3 DEF Next

\* createConversation, changeRequestStatus: two ids, as they are written, get a
\* second one-to-one conversation only if one is stored for them while another
\* handler, that has found none, is about to store one as well.
THEOREM PairsConverseOnce == Spec /\ []OpeningsApart => []OneToOneUnique
<1>1. Init => OpeningInv
  BY DEF Init, Idle, OpeningInv, Opens, OneToOneUnique, Posting
<1>2. IInv /\ OpeningInv /\ OpeningsApart /\ [Next]_vars => OpeningInv'
  BY OpeningStep
<1>3. OpeningInv => OneToOneUnique
  BY DEF OpeningInv
<1> QED BY <1>1, <1>2, <1>3, Invariance, PTL DEF Spec

-----------------------------------------------------------------------------
(* Decisions                                                               *)

\* Of the open transactions at most one has saved a request.
Saved(r) == Decides(r) /\ call[r].pc # "save"

SavedOnce ==
  \A r, s \in Call :
    Saved(r) /\ Saved(s) /\ call[r].friendship.id = call[s].friendship.id => r = s

LEMMA SavedOnceStep ==
  ASSUME IInv, SavedOnce, [Next]_vars
  PROVE  SavedOnce'
<1>1. CASE UNCHANGED vars
  BY <1>1 DEF vars, SavedOnce, Saved, Decides
<1>2. ASSUME NEW r \in Call, Arrival(r) \/ Step(r) \/ Fail(r),
             Saved(r)' => Saved(r) /\ call'[r].friendship = call[r].friendship
      PROVE  SavedOnce'
  BY <1>2, OneMoves DEF SavedOnce, Saved, Decides
<1>3. ASSUME NEW r \in Call, SaveStatus(r), Continues(r),
             ~ \E s \in Call \ {r} : HoldsFriendship(s, call[r].friendship.id)
      PROVE  SavedOnce'
  <2>1. ASSUME NEW s \in Call \ {r}, Saved(s)'
        PROVE  Saved(s) /\ call'[s].friendship.id # call'[r].friendship.id
    <3>1. call'[s] = call[s]
      BY <1>3, OneMoves DEF Step, FriendshipsStep
    <3>2. Saved(s) /\ call[s].friendship # None
      BY <2>1, <3>1, NoneAssumption
      DEF Saved, Decides, Posting, IInv, HandlerOK, DecisionOK, Friendship
    <3> QED BY <1>3, <3>1, <3>2 DEF HoldsFriendship, Saved, Decides, Posting, Continues
  <2>2. \A s \in Call \ {r} : call'[s] = call[s]
    BY <1>3, OneMoves DEF Step, FriendshipsStep
  <2> QED BY <2>1, <2>2 DEF SavedOnce
<1>4. ASSUME NEW r \in Call, Arrival(r)
      PROVE  ~ Saved(r)'
  BY <1>4, ArrivalMoves DEF ArrivesWith, Finishes, Saved, Decides, Posting
<1>5. ASSUME NEW r \in Call, Step(r) \/ Fail(r), ~ SaveStatus(r)
      PROVE  Saved(r)' => Saved(r) /\ call'[r].friendship = call[r].friendship
  <2>1. CASE LookupConversation(r)
    BY <2>1, LookupMoves, NoneAssumption DEF Saved, Decides, FriendshipStatus
  <2>2. CASE CreateMessage(r) \/ InsertMessage(r) \/ WriteLastMessage(r)
    BY <2>2, WorkMoves DEF Finishes, Continues, Saved, Decides, Posting
  <2>3. CASE Finishes(r)
    BY <2>3 DEF Finishes, Saved, Decides, Posting
  <2> QED BY <1>5, <2>1, <2>2, <2>3, FinishingSteps
      DEF Step, FriendshipsStep, ConversationsStep, MessagesStep
<1>6. ASSUME NEW r \in Call, SaveStatus(r)
      PROVE  SavedOnce'
  <2>1. CASE Finishes(r)
    BY <1>2, <1>6, <2>1 DEF Finishes, Saved, Decides, Posting, Step, FriendshipsStep
  <2>2. CASE ~ Finishes(r)
    BY <1>3, <1>6, <2>2, SaveMoves, Finished DEF SaveStatus
  <2> QED BY <2>1, <2>2
<1> QED BY <1>1, <1>2, <1>4, <1>5, <1>6 DEF Next

\* changeRequestStatus: the transactions that have saved a request conflict, so
\* two of them are never open.
THEOREM SavedOnceInvariance == Spec => []SavedOnce
<1>1. Init => SavedOnce
  BY DEF Init, Idle, SavedOnce, Saved, Decides, Posting
<1>2. IInv /\ SavedOnce /\ [Next]_vars => SavedOnce'
  BY SavedOnceStep
<1> QED BY <1>1, <1>2, Invariance, PTL DEF Spec

\* The request to decide on is stored, and open.
DecisionInv ==
  \A r \in Call : Decides(r) =>
    call[r].friendship \in friendships /\ call[r].friendship.status = "REQUESTED"

LEMMA DecisionKept ==
  ASSUME DecisionInv, NEW r \in Call, \A s \in Call \ {r} : call'[s] = call[s],
         Decides(r)' =>
           call'[r].friendship \in friendships' /\ call'[r].friendship.status = "REQUESTED",
         \A s \in Call \ {r} : Decides(s) => call[s].friendship \in friendships'
  PROVE  DecisionInv'
<1>1. \A s \in Call \ {r} : Decides(s)' => Decides(s)
  BY DEF Decides
<1> QED BY <1>1 DEF DecisionInv

\* What the commit of a decision does to the requests.
LEMMA DecisionStores ==
  ASSUME IInv, DecisionInv, NEW r \in Call, CommitDecline(r) \/ CommitAccept(r)
  PROVE  /\ Decides(r)
         /\ \A f \in friendships : f.id # call[r].friendship.id => f \in friendships'
         /\ \A f \in friendships, g \in friendships' :
              f.id = g.id /\ f.status # "REQUESTED" => g.status = f.status
         /\ \A g \in friendships' : \E f \in friendships :
              /\ f.id = g.id /\ f.sender = g.sender /\ f.receiver = g.receiver
              /\ f.status = "DECLINED" => g.status = "DECLINED"
         /\ \A g, h \in friendships' : g.id = h.id => g = h
<1>1. PICK k : k = call[r].friendship
  OBVIOUS
<1>2. PICK s \in {"ACCEPTED", "DECLINED"} :
        call[r].status = s /\ friendships' = StatusSaved(k.id, s)
  BY <1>1 DEF CommitDecline, CommitAccept
<1>3. Decides(r)
  BY <1>2, NoneAssumption DEF CommitDecline, CommitAccept, Decides, Posting, FriendshipStatus
<1>4. /\ k \in friendships /\ k.status = "REQUESTED" /\ k.id \in Call
      /\ k.receiver \in User
  BY <1>1, <1>2, <1>3, NoneAssumption
  DEF DecisionInv, IInv, TypeOK, HandlerOK, DecisionOK, Friendship, FriendshipStatus
<1>5. /\ \A g \in friendships' : \E f \in friendships :
           /\ g.id = f.id /\ g.sender = f.sender /\ g.receiver = f.receiver
           /\ g.status = IF f.id = k.id THEN s ELSE f.status
      /\ \A g, h \in friendships' : g.id = h.id => g = h
  <2>1. \A f \in friendships : f.id = k.id => f.receiver \in User
    BY <1>4 DEF IInv, DocumentsOK
  <2> QED BY <1>1, <1>2, <1>4, <2>1, StatusSavedFacts DEF FriendshipStatus
<1>6. \A f, g \in friendships : f.id = g.id => f = g
  BY DEF IInv, DocumentsOK
<1>7. \A f \in friendships : f.id # k.id => f \in friendships'
  BY <1>2 DEF StatusSaved
<1>8. \A g \in friendships' : \E f \in friendships :
        /\ f.id = g.id /\ f.sender = g.sender /\ f.receiver = g.receiver
        /\ f.status = "DECLINED" => g.status = "DECLINED"
  BY <1>4, <1>5, <1>6
<1>9. ASSUME NEW f \in friendships, NEW g \in friendships', f.id = g.id, f.status # "REQUESTED"
      PROVE  g.status = f.status
  BY <1>4, <1>5, <1>6, <1>9
<1> QED BY <1>1, <1>3, <1>5, <1>7, <1>8, <1>9

LEMMA DecisionStep ==
  ASSUME IInv, SavedOnce, DecisionInv, DecisionsApart, [Next]_vars
  PROVE  DecisionInv'
<1>1. CASE UNCHANGED vars
  BY <1>1 DEF vars, DecisionInv, Decides
<1>2. ASSUME NEW r \in Call, Arrival(r)
      PROVE  DecisionInv'
  <2>1. UNCHANGED friendships /\ ArrivesWith(r)
    BY <1>2, ArrivalMoves DEF collections
  <2>2. Decides(r)' =>
          call'[r].friendship \in friendships' /\ call'[r].friendship.status = "REQUESTED"
    BY <2>1 DEF ArrivesWith, Finishes, Decides, Posting
  <2> QED BY <1>2, <2>1, <2>2, OneMoves, DecisionKept DEF DecisionInv
<1>3. ASSUME NEW r \in Call, Step(r) \/ Fail(r)
      PROVE  DecisionInv'
  <2>0. \A s \in Call \ {r} : call'[s] = call[s]
    BY <1>3, OneMoves
  <2>1. CASE InsertRequest(r) \/ InsertConversation(r) \/ CommitMessage(r) \/ EmitNewMessage(r)
             \/ Fail(r)
    <3>1. friendships \subseteq friendships'
      BY <2>1 DEF InsertRequest, InsertConversation, CommitMessage, EmitNewMessage, Fail, collections
    <3> QED BY <2>0, <2>1, <3>1, FinishingSteps, DecisionKept DEF Finishes, Decides, DecisionInv
  <2>2. CASE \/ SaveStatus(r) \/ LookupConversation(r)
             \/ CreateMessage(r) \/ InsertMessage(r) \/ WriteLastMessage(r)
    <3>1. /\ UNCHANGED friendships
          /\ Decides(r)' => Decides(r) /\ call'[r].friendship = call[r].friendship
      <4>1. CASE SaveStatus(r)
        BY <4>1, SaveMoves DEF Finishes, Continues, Decides, collections
      <4>2. CASE LookupConversation(r)
        BY <4>2, LookupMoves, NoneAssumption DEF Decides, collections, FriendshipStatus
      <4>3. CASE CreateMessage(r) \/ InsertMessage(r) \/ WriteLastMessage(r)
        BY <4>3, WorkMoves DEF Finishes, Continues, Decides, Posting, collections
      <4> QED BY <2>2, <4>1, <4>2, <4>3
    <3> QED BY <2>0, <3>1, DecisionKept DEF DecisionInv
  <2>3. CASE CommitDecline(r) \/ CommitAccept(r)
    <3>1. ~ Decides(r)'
      BY <2>3, FinishingSteps DEF Finishes, Decides
    <3>2. Decides(r) /\ call[r].pc = "commit"
      BY <2>3, DecisionStores DEF CommitDecline, CommitAccept
    <3>3. ASSUME NEW s \in Call \ {r}, Decides(s)
          PROVE  call[s].friendship \in friendships'
      <4>1. call[s].friendship.id # call[r].friendship.id
        BY <3>2, <3>3 DEF DecisionsApart, SavedOnce, Saved
      <4> QED BY <2>3, <3>3, <4>1, DecisionStores DEF DecisionInv
    <3> QED BY <2>0, <3>1, <3>3, DecisionKept
  <2> QED BY <1>3, <2>1, <2>2, <2>3 DEF Step, FriendshipsStep, ConversationsStep, MessagesStep
<1> QED BY <1>1, <1>2, <1>3 DEF Next

\* The open requests of the handlers that decide are open in the database, as
\* long as none is decided between a handler's read and its transaction.
THEOREM DecisionsInvariance == Spec /\ []DecisionsApart => []DecisionInv
<1>1. Init => DecisionInv
  BY DEF Init, Idle, DecisionInv, Decides
<1>2. IInv /\ SavedOnce /\ DecisionInv /\ DecisionsApart /\ [Next]_vars => DecisionInv'
  BY DecisionStep
<1> QED BY <1>1, <1>2, Invariance, SavedOnceInvariance, PTL DEF Spec

\* changeRequestStatus: a decision is replaced by a later one only if it is
\* committed while another handler has loaded the request and not yet begun
\* its transaction.
THEOREM DecisionsAreFinal == Spec /\ []DecisionsApart => DecisionIsFinal
<1>1. IInv /\ DecisionInv /\ [Next]_vars =>
        [\A f \in friendships, g \in friendships' :
           f.id = g.id /\ f.status # "REQUESTED" => g.status = f.status]_vars
  <2> SUFFICES ASSUME IInv, DecisionInv, Next,
                      NEW f \in friendships, NEW g \in friendships',
                      f.id = g.id, f.status # "REQUESTED"
               PROVE  g.status = f.status
    OBVIOUS
  <2>1. \A h \in friendships : f.id = h.id => f = h
    BY DEF IInv, DocumentsOK
  <2>2. PICK r \in Call : Arrival(r) \/ Step(r) \/ Fail(r)
    BY DEF Next
  <2>3. CASE InsertRequest(r)
    <3>1. call[r].friendship.id = r /\ ~ Done(r)
      BY <2>3 DEF IInv, HandlerOK, RequestOK, InsertRequest, Done
    <3>2. g \in friendships \/ g = call[r].friendship
      BY <2>3 DEF InsertRequest
    <3> QED BY <2>1, <3>1, <3>2 DEF IInv, DocumentsOK
  <2>4. CASE CommitDecline(r) \/ CommitAccept(r)
    BY <2>4, DecisionStores
  <2>5. CASE UNCHANGED friendships
    BY <2>1, <2>5
  <2>6. CASE Arrival(r)
    BY <2>5, <2>6, ArrivalMoves DEF collections
  <2>7. CASE Step(r) \/ Fail(r)
    BY <2>3, <2>4, <2>5, <2>7 DEF Step, FriendshipsStep, ConversationsStep, MessagesStep,
       SaveStatus, LookupConversation, InsertConversation, CreateMessage, InsertMessage,
       WriteLastMessage, CommitMessage, EmitNewMessage, Fail, collections
  <2> QED BY <2>2, <2>6, <2>7
<1> QED BY <1>1, Invariance, DecisionsInvariance, PTL DEF Spec, DecisionIsFinal

-----------------------------------------------------------------------------
(* Live friendships                                                        *)

\* The receiver has asked the sender.
Reversed(requests, u, v) ==
  \E f \in requests : f.sender = v /\ f.receiver = u /\ f.status # "DECLINED"

Pair(f) == {f.sender, f.receiver}

\* Two users share one live friendship at most, and who is about to ask has
\* not been asked.
LiveInv ==
  /\ \A f, g \in friendships :
       f.status # "DECLINED" /\ g.status # "DECLINED" /\ Pair(f) = Pair(g) => f = g
  /\ \A r \in Call : Requests(r) =>
       ~ Reversed(friendships, call[r].friendship.sender, call[r].friendship.receiver)

\* A step that brings no pair back to life.
LEMMA LiveKept ==
  ASSUME LiveInv, NEW r \in Call, \A s \in Call \ {r} : call'[s] = call[s],
         \A g \in friendships' : \E f \in friendships :
           /\ f.id = g.id /\ f.sender = g.sender /\ f.receiver = g.receiver
           /\ f.status = "DECLINED" => g.status = "DECLINED",
         \A g, h \in friendships' : g.id = h.id => g = h,
         Requests(r)' =>
           ~ Reversed(friendships, call'[r].friendship.sender, call'[r].friendship.receiver)
  PROVE  LiveInv'
<1>1. \A u, v : Reversed(friendships', u, v) => Reversed(friendships, u, v)
  BY DEF Reversed
<1>2. ASSUME NEW s \in Call, Requests(s)'
      PROVE  ~ Reversed(friendships', call'[s].friendship.sender, call'[s].friendship.receiver)
  BY <1>1, <1>2 DEF LiveInv, Requests
<1>3. ASSUME NEW g \in friendships', NEW h \in friendships',
             g.status # "DECLINED", h.status # "DECLINED", Pair(g) = Pair(h)
      PROVE  g = h
  <2>1. PICK f \in friendships :
          f.id = g.id /\ f.sender = g.sender /\ f.receiver = g.receiver /\ f.status # "DECLINED"
    BY <1>3
  <2>2. PICK e \in friendships :
          e.id = h.id /\ e.sender = h.sender /\ e.receiver = h.receiver /\ e.status # "DECLINED"
    BY <1>3
  <2>3. f = e
    BY <1>3, <2>1, <2>2 DEF LiveInv, Pair
  <2> QED BY <2>1, <2>2, <2>3
<1> QED BY <1>2, <1>3 DEF LiveInv

LEMMA LiveStep ==
  ASSUME IInv, DecisionInv, LiveInv, RequestsApart, [Next]_vars
  PROVE  LiveInv'
<1>0. \A f, g \in friendships : f.id = g.id => f = g
  BY DEF IInv, DocumentsOK
<1>1. CASE UNCHANGED vars
  BY <1>1 DEF vars, LiveInv, Requests, Reversed
<1>2. ASSUME NEW r \in Call, Arrival(r)
      PROVE  LiveInv'
  <2>1. UNCHANGED friendships /\ ArrivesWith(r)
    BY <1>2, ArrivalMoves DEF collections
  <2>2. Requests(r)' =>
          ~ Reversed(friendships, call'[r].friendship.sender, call'[r].friendship.receiver)
    BY <2>1 DEF ArrivesWith, Finishes, Requests, LiveBetween, Reversed
  <2> QED BY <1>0, <1>2, <2>1, <2>2, OneMoves, LiveKept
<1>3. ASSUME NEW r \in Call, Step(r) \/ Fail(r)
      PROVE  LiveInv'
  <2>0. \A s \in Call \ {r} : call'[s] = call[s]
    BY <1>3, OneMoves
  <2>1. ~ Requests(r)'
    <3>1. CASE SaveStatus(r)
      BY <3>1, SaveMoves DEF Finishes, Requests
    <3>2. CASE LookupConversation(r)
      BY <3>2, LookupMoves DEF Requests
    <3>3. CASE CreateMessage(r) \/ InsertMessage(r) \/ WriteLastMessage(r)
      BY <3>3, WorkMoves DEF Finishes, Requests, Posting
    <3> QED BY <1>3, <3>1, <3>2, <3>3, FinishingSteps
        DEF Step, FriendshipsStep, ConversationsStep, MessagesStep, Finishes, Requests
  <2>2. CASE UNCHANGED friendships
    BY <1>0, <2>0, <2>1, <2>2, LiveKept
  <2>3. CASE InsertRequest(r) /\ friendships' # friendships
    <3>1. PICK n : n = call[r].friendship
      OBVIOUS
    <3>2. /\ friendships' = friendships \cup {n} /\ Requests(r)
          /\ ~ Indexed(n) /\ ~ Reversed(friendships, n.sender, n.receiver)
      BY <2>3, <3>1 DEF InsertRequest, Requests, LiveInv
    <3>3. ASSUME NEW s \in Call, Requests(s)'
          PROVE  ~ Reversed(friendships', call'[s].friendship.sender,
                            call'[s].friendship.receiver)
      <4>1. s # r /\ call'[s] = call[s] /\ Requests(s)
        BY <2>0, <2>1, <3>3 DEF Requests
      <4>2. ~ Reversed({n}, call[s].friendship.sender, call[s].friendship.receiver)
        BY <3>1, <3>2, <4>1 DEF RequestsApart, Reversed
      <4>3. ~ Reversed(friendships, call[s].friendship.sender, call[s].friendship.receiver)
        BY <4>1 DEF LiveInv
      <4> QED BY <3>2, <4>1, <4>2, <4>3 DEF Reversed
    <3>4. \A f \in friendships : f.status # "DECLINED" => Pair(f) # Pair(n)
      BY <3>2 DEF Indexed, Reversed, Pair
    <3>5. \A f, g \in friendships' :
            f.status # "DECLINED" /\ g.status # "DECLINED" /\ Pair(f) = Pair(g) => f = g
      BY <3>2, <3>4 DEF LiveInv
    <3> QED BY <3>3, <3>5 DEF LiveInv
  <2>4. CASE CommitDecline(r) \/ CommitAccept(r)
    BY <2>0, <2>1, <2>4, DecisionStores, LiveKept
  <2> QED BY <1>3, <2>2, <2>3, <2>4 DEF Step, FriendshipsStep, ConversationsStep, MessagesStep,
       SaveStatus, LookupConversation, InsertConversation, CreateMessage, InsertMessage,
       WriteLastMessage, CommitMessage, EmitNewMessage, Fail, collections
<1> QED BY <1>1, <1>2, <1>3 DEF Next

\* createRequest: two users get into two live friendships that both can see only
\* if they ask each other at once, or a decision on one of their requests is
\* replaced.
THEOREM FriendshipsUnique == Spec /\ []RequestsApart /\ []DecisionsApart => []OneLiveFriendship
<1>1. Init => LiveInv
  BY DEF Init, Idle, LiveInv, Requests
<1>2. IInv /\ DecisionInv /\ LiveInv /\ RequestsApart /\ [Next]_vars => LiveInv'
  BY LiveStep
<1>3. LiveInv => OneLiveFriendship
  BY DEF LiveInv, Pair, OneLiveFriendship, Friends, SentRequests, ReceivedRequests
<1> QED BY <1>1, <1>2, <1>3, Invariance, DecisionsInvariance, PTL DEF Spec


-----------------------------------------------------------------------------
(* Conversations in the list                                               *)

\* A transaction sees the pointer with the id it posts under, or may yet post
\* under, if there is one.
SeesPointer(r) ==
  \A c \in conversations, ref \in Ref :
    Cast[ref] = c.id /\ HasPointer(lastMessages, ref) => ~ PostsUnseen(r, c, ref)

ListInv ==
  /\ \A d, e \in lastMessages : d.conversation = e.conversation => d = e
  /\ \A r \in Call : SeesPointer(r)

\* A step that posts nothing.
LEMMA ListKept ==
  ASSUME IInv, ListInv, NEW r \in Call, \A s \in Call \ {r} : call'[s] = call[s],
         UNCHANGED lastMessages,
         \A c \in conversations', ref \in Ref :
           Cast[ref] = c.id => c \in conversations \/ ~ HasPointer(lastMessages, ref),
         SeesPointer(r)'
  PROVE  ListInv'
<1>1. ASSUME NEW s \in Call, s # r
      PROVE  SeesPointer(s)'
  BY <1>1 DEF ListInv, SeesPointer, PostsUnseen, Posts
<1> QED BY <1>1 DEF ListInv

\* A handler that posts nothing has nothing to see.
LEMMA NotPosting ==
  ASSUME NEW r \in Call,
         \/ call'[r].pc \in {"insertRequest", "save", "insertConversation", "emit", "ended"}
         \/ call'[r].pc = "createMessage" /\ call'[r].status = None
         \/ call'[r].pc = "commit" /\ call'[r].status = "DECLINED"
  PROVE  SeesPointer(r)'
BY DEF SeesPointer, PostsUnseen, Posts

\* Nothing points into a conversation that is not stored.
LEMMA NoPointer ==
  ASSUME IInv, NEW ref, HasPointer(lastMessages, ref)
  PROVE  \E c \in conversations : c.id = Cast[ref]
<1>1. PICK d \in lastMessages : d.conversation = ref
  BY DEF HasPointer
<1>2. PICK m \in messages : m.conversation = ref
  BY <1>1 DEF IInv, PointersResolve
<1> QED BY <1>2 DEF IInv, MessagesFromMembers

\* The commit of a message: what it stores and where.
LEMMA CommitPosts ==
  ASSUME IInv, NEW r \in Call, CommitMessage(r) \/ CommitAccept(r)
  PROVE  /\ Posts(r) /\ Post(r) /\ Finishes(r) /\ UNCHANGED clock
         /\ call[r].ref \in Ref /\ Cast[call[r].ref] = call[r].conversation.id
         /\ \/ /\ call[r].conversation \in conversations
               /\ UNCHANGED conversations
            \/ /\ call[r].conversation.id = r
               /\ conversations' = conversations \cup {call[r].conversation}
<1>1. Finishes(r)
  BY FinishingSteps
<1>2. CASE CommitMessage(r)
  <2>1. call[r].status = None
    BY <1>2, NoneAssumption DEF CommitMessage, IInv, HandlerOK, DecisionOK
  <2> QED BY <1>1, <1>2, <2>1, NoneAssumption
      DEF CommitMessage, IInv, HandlerOK, PostOK, Posting, FriendshipStatus, Posts
<1>3. CASE CommitAccept(r)
  <2>1. /\ call[r].pc = "commit" /\ call[r].status = "ACCEPTED" /\ PostOK(call[r], r)
        /\ Post(r) /\ UNCHANGED clock
        /\ conversations' = conversations \cup {call[r].conversation}
    BY <1>3 DEF CommitAccept, IInv, HandlerOK
  <2>2. /\ call[r].ref = call[r].conversation.id /\ call[r].conversation \in Conversation
        /\ call[r].conversation \in conversations \/ call[r].conversation.id = r
    BY <2>1 DEF PostOK, Posting
  <2>3. call[r].ref \in Ref /\ Cast[call[r].ref] = call[r].conversation.id
    BY <2>2, CastAssumption DEF Conversation
  <2> QED BY <1>1, <2>1, <2>2, <2>3 DEF Posts
<1> QED BY <1>2, <1>3

LEMMA PointerFacts ==
  ASSUME IInv, NEW r \in Call, Posts(r)
  PROVE  /\ Pointer(r).message = r
         /\ Pointer(r).conversation = call[r].ref
         /\ call[r].target # None =>
              /\ call[r].target \in lastMessages
              /\ call[r].target.conversation = call[r].ref
<1>1. PICK p : p = call[r]
  OBVIOUS
<1>2. p \in CallState /\ TargetOK(p, r)
  BY <1>1 DEF IInv, HandlerOK
<1>3. CASE p.target = None
  BY <1>1, <1>3 DEF Pointer
<1>4. CASE p.target # None
  <2>1. p.target \in LastMessage /\ p.target \in lastMessages
        /\ p.target.conversation = p.ref
    BY <1>2, <1>4 DEF TargetOK, CallState
  <2> QED BY <1>1, <1>4, <2>1 DEF Pointer, LastMessage
<1> QED BY <1>3, <1>4

LEMMA ListCommit ==
  ASSUME IInv, ListInv, FirstPostsApart, NEW r \in Call,
         \A s \in Call \ {r} : call'[s] = call[s],
         CommitMessage(r) \/ CommitAccept(r)
  PROVE  ListInv'
<1>1. PICK n : n = call[r].conversation
  OBVIOUS
<1>a. PICK i : i = call[r].ref
  OBVIOUS
<1>2. PICK d : d = Pointer(r)
  OBVIOUS
<1>3. PICK t : t = call[r].target
  OBVIOUS
<1>4. /\ Posts(r) /\ call[r].pc = "commit"
      /\ lastMessages' = (lastMessages \ {t}) \cup {d}
      /\ i \in Ref /\ Cast[i] = n.id
      /\ d.conversation = i
      /\ t # None => t \in lastMessages /\ t.conversation = i
  BY <1>1, <1>a, <1>2, <1>3, CommitPosts, PointerFacts DEF Post, Posts
<1>5. n \in conversations \/ ~ HasPointer(lastMessages, i)
  <2>1. CASE n.id = r
    BY <1>4, <2>1, NoPointer DEF IInv, DocumentsOK, Done
  <2> QED BY <1>1, <2>1, CommitPosts
<1>6. t = None => ~ HasPointer(lastMessages, i)
  <2>1. t = None => PostsUnseen(r, n, i)
    BY <1>a, <1>3, <1>4 DEF PostsUnseen
  <2> QED BY <1>4, <1>5, <2>1 DEF ListInv, SeesPointer
<1>7. \A e \in lastMessages : e # t => e.conversation # i
  BY <1>4, <1>6 DEF ListInv, HasPointer
<1>8. \A e, f \in lastMessages' : e.conversation = f.conversation => e = f
  BY <1>4, <1>7 DEF ListInv
<1>9. \A j : HasPointer(lastMessages', j) => HasPointer(lastMessages, j) \/ j = i
  BY <1>4 DEF HasPointer
<1>10. \A c \in conversations' : c.id = n.id => c = n
  <2>1. ~ Done(r)
    BY <1>4 DEF Done
  <2> QED BY <1>1, <2>1, CommitPosts DEF IInv, DocumentsOK
<1>11. ASSUME NEW s \in Call, s # r
       PROVE  SeesPointer(s)'
  <2>1. \A c, j : PostsUnseen(s, c, j)' <=> PostsUnseen(s, c, j)
    BY <1>11 DEF PostsUnseen, Posts
  <2>2. ASSUME NEW c \in conversations', NEW j \in Ref, Cast[j] = c.id,
               HasPointer(lastMessages', j)
        PROVE  ~ PostsUnseen(s, c, j)
    <3>1. CASE j = i /\ t = None
      <4>1. PostsUnseen(r, n, i)
        BY <1>a, <1>3, <1>4, <3>1 DEF PostsUnseen
      <4> QED BY <1>1, <1>a, <1>4, <1>10, <1>11, <2>2, <3>1, <4>1 DEF FirstPostsApart
    <3>2. CASE j = i /\ t # None
      <4>1. HasPointer(lastMessages, i)
        BY <1>4, <3>2 DEF HasPointer
      <4> QED BY <1>4, <1>5, <1>10, <2>2, <3>2, <4>1 DEF ListInv, SeesPointer
    <3>3. CASE j # i
      <4>1. HasPointer(lastMessages, j)
        BY <1>9, <2>2, <3>3
      <4>2. c \in conversations
        <5>1. PICK e \in conversations : e.id = Cast[j]
          BY <4>1, NoPointer
        <5>2. c = e
          BY <1>1, <1>10, <2>2, <5>1, CommitPosts DEF IInv, DocumentsOK
        <5> QED BY <5>2
      <4> QED BY <2>2, <4>1, <4>2 DEF ListInv, SeesPointer
    <3> QED BY <3>1, <3>2, <3>3
  <2> QED BY <2>1, <2>2 DEF SeesPointer
<1>12. SeesPointer(r)'
  BY CommitPosts, NotPosting DEF Finishes
<1> QED BY <1>8, <1>11, <1>12 DEF ListInv

\* The steps of a handler up to its commit.
LEMMA ListWork ==
  ASSUME IInv, ListInv, NEW r \in Call,
         \/ SaveStatus(r) \/ LookupConversation(r)
         \/ CreateMessage(r) \/ InsertMessage(r) \/ WriteLastMessage(r)
  PROVE  SeesPointer(r)'
<1>1. /\ call[r] \in CallState /\ call \in [Call -> CallState] /\ clock \in Nat
      /\ \A c \in conversations, ref \in Ref :
           Cast[ref] = c.id /\ HasPointer(lastMessages, ref) => ~ PostsUnseen(r, c, ref)
  BY DEF IInv, TypeOK, ListInv, SeesPointer
<1>2. CASE SaveStatus(r)
  <2>1. CASE call'[r].pc = "lookup" /\ call'[r].snapshot = lastMessages
    BY <1>2, <2>1, SaveMoves DEF SeesPointer, PostsUnseen, Posts, collections
  <2> QED BY <1>2, <2>1, SaveMoves, NotPosting DEF Finishes, Continues
<1>3. CASE LookupConversation(r)
  <2>0. PairConversation(r).id = r
    BY DEF PairConversation
  <2>1. /\ UNCHANGED collections
        /\ call[r].pc = "lookup" /\ call'[r].pc = "createMessage"
        /\ call'[r].snapshot = call[r].snapshot
        /\ call'[r].ref = call'[r].conversation.id
        /\ call'[r].conversation.id \in Call
    BY <1>3, <2>0, LookupMoves DEF IInv, TypeOK, Conversation
  <2> SUFFICES ASSUME NEW c \in conversations, NEW ref \in Ref, Cast[ref] = c.id,
                      HasPointer(lastMessages, ref), call'[r].ref = ref
               PROVE  HasPointer(call[r].snapshot, ref)
    BY <2>1 DEF SeesPointer, PostsUnseen, Posts, collections
  <2>a. ref = c.id
    BY <2>1, CastAssumption
  <2>2. CASE /\ call'[r].conversation \in conversations
             /\ IsOneToOneOf(call'[r].conversation, call[r].friendship.sender,
                             call[r].friendship.receiver)
    <3>1. call'[r].conversation = c
      BY <2>1, <2>a, <2>2 DEF IInv, DocumentsOK
    <3> QED BY <1>1, <2>1, <2>a, <2>2, <3>1 DEF PostsUnseen
  <2>3. CASE call'[r].conversation = PairConversation(r)
    <3>1. c.id = r
      BY <2>0, <2>1, <2>a, <2>3
    <3> QED BY <2>1, <3>1 DEF IInv, DocumentsOK, Done
  <2> QED BY <1>3, <2>2, <2>3, LookupMoves
<1>4. CASE CreateMessage(r)
  <2>1. /\ UNCHANGED collections
        /\ call[r].pc = "createMessage" /\ call'[r].pc = "insertMessage"
        /\ call'[r].status = call[r].status /\ call'[r].ref = call[r].ref
        /\ call'[r].snapshot = call[r].snapshot
    BY <1>1, <1>4 DEF CreateMessage, CallState
  <2> QED BY <1>1, <2>1 DEF SeesPointer, PostsUnseen, Posts, collections
<1>5. CASE InsertMessage(r)
  <2>1. /\ UNCHANGED collections
        /\ call[r].pc = "insertMessage" /\ call'[r].pc = "writeLast"
        /\ call'[r].status = call[r].status /\ call'[r].ref = call[r].ref
        /\ call'[r].snapshot = IF call[r].status = None THEN lastMessages ELSE call[r].snapshot
    BY <1>1, <1>5 DEF InsertMessage, CallState
  <2> QED BY <1>1, <2>1 DEF SeesPointer, PostsUnseen, Posts, collections
<1>6. CASE WriteLastMessage(r)
  <2>1. CASE End(r)
    BY <2>1, Finished, NotPosting DEF Finishes
  <2>2. CASE ~ End(r)
    <3>1. /\ UNCHANGED collections
          /\ call[r].pc = "writeLast" /\ call'[r].pc = "commit"
          /\ call'[r].ref = call[r].ref
      BY <1>1, <1>6, <2>2 DEF WriteLastMessage, CallState
    <3>2. call'[r].target = None => ~ HasPointer(call[r].snapshot, call[r].ref)
      <4>1. \A d \in PointersInSnapshot(r) : d # None
        BY <1>1, NoneAssumption DEF PointersInSnapshot, CallState
      <4>2. PointersInSnapshot(r) = {} => ~ HasPointer(call[r].snapshot, call[r].ref)
        BY DEF PointersInSnapshot, HasPointer
      <4>3. ASSUME NEW d \in PointersInSnapshot(r),
                   call' = [call EXCEPT ![r].pc = "commit", ![r].snapshot = {}, ![r].target = d]
            PROVE  call'[r].target = d
        BY <1>1, <4>3 DEF CallState
      <4> QED BY <1>6, <2>2, <4>1, <4>2, <4>3 DEF WriteLastMessage
    <3> QED BY <1>1, <3>1, <3>2 DEF SeesPointer, PostsUnseen, Posts, collections
  <2> QED BY <2>1, <2>2
<1> QED BY <1>2, <1>3, <1>4, <1>5, <1>6

LEMMA ListStep ==
  ASSUME IInv, ListInv, FirstPostsApart, [Next]_vars
  PROVE  ListInv'
<1>1. CASE UNCHANGED vars
  BY <1>1 DEF vars, ListInv, SeesPointer, PostsUnseen, Posts
<1>2. ASSUME NEW r \in Call, Arrival(r)
      PROVE  ListInv'
  <2>1. UNCHANGED collections /\ ArrivesWith(r)
    BY <1>2, ArrivalMoves
  <2>2. SeesPointer(r)'
    BY <2>1, NotPosting DEF ArrivesWith, Finishes
  <2> QED BY <1>2, <2>1, <2>2, OneMoves, ListKept DEF collections
<1>3. ASSUME NEW r \in Call, Step(r) \/ Fail(r)
      PROVE  ListInv'
  <2>0. \A s \in Call \ {r} : call'[s] = call[s]
    BY <1>3, OneMoves
  <2>1. CASE InsertRequest(r) \/ CommitDecline(r) \/ EmitNewMessage(r) \/ Fail(r)
    <3>1. UNCHANGED <<conversations, lastMessages>>
      BY <2>1 DEF InsertRequest, CommitDecline, EmitNewMessage, Fail, collections
    <3>2. SeesPointer(r)'
      BY <2>1, FinishingSteps, NotPosting DEF Finishes
    <3> QED BY <2>0, <3>1, <3>2, ListKept
  <2>2. CASE InsertConversation(r)
    <3>1. /\ UNCHANGED lastMessages
          /\ conversations' = conversations \cup {call[r].conversation} /\ ~ Done(r)
      BY <2>2 DEF InsertConversation, Done
    <3>2. PICK type \in {"ONE_TO_ONE", "GROUP"}, members \in SUBSET Id :
            call[r].conversation = NewConversation(r, type, members)
      BY <2>2 DEF IInv, HandlerOK, OpeningOK, InsertConversation
    <3>3. call[r].conversation.id = r
      BY <3>2 DEF NewConversation
    <3>4. \A ref : Cast[ref] = r => ~ HasPointer(lastMessages, ref)
      BY <3>1, NoPointer DEF IInv, DocumentsOK
    <3>5. SeesPointer(r)'
      BY <2>2, FinishingSteps, NotPosting DEF Finishes
    <3> QED BY <2>0, <3>1, <3>3, <3>4, <3>5, ListKept
  <2>3. CASE \/ SaveStatus(r) \/ LookupConversation(r)
             \/ CreateMessage(r) \/ InsertMessage(r) \/ WriteLastMessage(r)
    <3>1. UNCHANGED collections
      BY <2>3 DEF SaveStatus, LookupConversation, CreateMessage, InsertMessage, WriteLastMessage
    <3> QED BY <2>0, <2>3, <3>1, ListWork, ListKept DEF collections
  <2>4. CASE CommitMessage(r) \/ CommitAccept(r)
    BY <2>0, <2>4, ListCommit
  <2> QED BY <1>3, <2>1, <2>2, <2>3, <2>4
      DEF Step, FriendshipsStep, ConversationsStep, MessagesStep
<1> QED BY <1>1, <1>2, <1>3 DEF Next

\* writeLastMessage: a list gets two entries for a conversation only if its
\* first message is committed while another transaction sees none.
THEOREM ConversationsListedOnce == Spec /\ []FirstPostsApart => []ListedOnce
<1>1. Init => ListInv
  BY DEF Init, Idle, ListInv, SeesPointer, HasPointer
<1>2. IInv /\ ListInv /\ FirstPostsApart /\ [Next]_vars => ListInv'
  BY ListStep
<1>3. ListInv => ListedOnce
  BY DEF ListInv, ListedOnce, Listed
<1> QED BY <1>1, <1>2, <1>3, Invariance, PTL DEF Spec

-----------------------------------------------------------------------------
(* The newest message *)

\* The pointers with the id under which r posts lead to no message newer than
\* its own.
NewerThan(r, pointers) ==
  \A d \in pointers, m \in messages :
    d.conversation = call[r].ref /\ m.id = d.message =>
      m.created_at <= call[r].created_at

\* So do the pointers that its transaction sees, or will see.
StampOK(r) ==
  /\ call[r].pc = "insertMessage" /\ call[r].status = None => NewerThan(r, lastMessages)
  /\ \/ call[r].pc = "insertMessage" /\ call[r].status # None
     \/ call[r].pc = "writeLast"
     => NewerThan(r, call[r].snapshot)
  /\ Posts(r) => call[r].created_at <= clock /\ NewerThan(r, {call[r].target} \ {None})
  /\ call[r].pc \in {"insertMessage", "writeLast"} => call[r].created_at <= clock

\* What a snapshot shows is stored.
SnapshotOK(r) == \A d \in call[r].snapshot : \E m \in messages : m.id = d.message

StampInv ==
  /\ \A m, n \in messages : m.id = n.id => m = n
  /\ \A m \in messages : m.created_at <= clock
  /\ NewestListed
  /\ \A r \in Call : StampOK(r) /\ SnapshotOK(r)

\* A step that posts nothing.
LEMMA StampKept ==
  ASSUME IInv, StampInv, NEW r \in Call, \A s \in Call \ {r} : call'[s] = call[s],
         UNCHANGED <<messages, lastMessages>>, clock' \in Nat, clock' >= clock,
         StampOK(r)', SnapshotOK(r)'
  PROVE  StampInv'
<1>1. clock \in Nat /\ \A m \in messages : m.created_at \in Nat
  BY DEF IInv, TypeOK, Message
<1>2. ASSUME NEW s \in Call, s # r
      PROVE  StampOK(s)' /\ SnapshotOK(s)'
  <2>1. call'[s] = call[s] /\ StampOK(s) /\ SnapshotOK(s) /\ call[s].created_at \in Nat
    BY <1>2 DEF StampInv, IInv, TypeOK, CallState
  <2>2. call[s].created_at <= clock => call[s].created_at <= clock'
    BY <1>1, <2>1
  <2>3. \A P : NewerThan(s, P)' <=> NewerThan(s, P)
    BY <2>1 DEF NewerThan
  <2>4. StampOK(s)'
    BY <2>1, <2>2, <2>3 DEF StampOK, Posts, NewerThan
  <2> QED BY <2>1, <2>4 DEF SnapshotOK
<1>3. NewestListed' /\ (\A m \in messages : m.created_at <= clock)'
  BY <1>1 DEF StampInv, NewestListed
<1> QED BY <1>2, <1>3 DEF StampInv

\* A handler that has stamped no message yet.
LEMMA NotStamped ==
  ASSUME NEW r \in Call,
         \/ call'[r].pc \in {"insertRequest", "save", "insertConversation", "lookup",
                             "createMessage", "emit", "ended"}
         \/ call'[r].pc = "commit" /\ call'[r].status = "DECLINED"
  PROVE  StampOK(r)'
BY DEF StampOK, Posts

\* A handler takes its snapshot when it begins its transaction.
LEMMA SnapshotMoves ==
  ASSUME IInv, StampInv, NEW r \in Call, Arrival(r) \/ Step(r) \/ Fail(r)
  PROVE  call'[r].snapshot \subseteq call[r].snapshot \cup lastMessages
<1>1. call \in [Call -> CallState]
  BY DEF IInv, TypeOK
<1>2. CASE Arrival(r)
  <2>1. End(r) => call'[r].snapshot = {}
    BY <1>1 DEF End, Idle
  <2>2. ASSUME NEW u \in User, NEW v \in Id, CheckRequest(r, u, v), ~ End(r)
        PROVE  call'[r].snapshot = {}
    BY <1>1, <2>2 DEF CheckRequest, Idle
  <2>3. ASSUME NEW u \in User, NEW id \in Call, NEW status \in {"ACCEPTED", "DECLINED"},
               FindRequest(r, u, id, status), ~ End(r)
        PROVE  call'[r].snapshot = {}
    BY <1>1, <2>3 DEF FindRequest, Idle
  <2>4. ASSUME NEW u \in User, NEW type \in {"ONE_TO_ONE", "GROUP"}, NEW members \in SUBSET Id,
               CheckConversation(r, u, type, members), ~ End(r)
        PROVE  call'[r].snapshot = {}
    <3>1. call' = [call EXCEPT ![r] = [Idle EXCEPT !.pc = "insertConversation",
                                         !.conversation = NewConversation(r, type, members)]]
      BY <2>4 DEF CheckConversation
    <3> QED BY <1>1, <3>1 DEF Idle
  <2>5. ASSUME NEW u \in User, NEW ref \in Ref, FindConversation(r, u, ref), ~ End(r)
        PROVE  call'[r].snapshot = {}
    BY <1>1, <2>5 DEF FindConversation, Idle
  <2> QED BY <1>2, <2>1, <2>2, <2>3, <2>4, <2>5
      DEF Arrival, FriendshipsArrival, ConversationsArrival, MessagesArrival
<1>3. CASE Step(r) \/ Fail(r)
  <2>1. CASE End(r)
    BY <1>1, <2>1 DEF End, Idle
  <2>2. CASE SaveStatus(r) \/ CreateMessage(r) \/ InsertMessage(r)
    BY <1>1, <2>1, <2>2 DEF SaveStatus, CreateMessage, InsertMessage, CallState
  <2>3. CASE WriteLastMessage(r) \/ CommitMessage(r)
    BY <1>1, <2>1, <2>3 DEF WriteLastMessage, CommitMessage, CallState, Idle
  <2>4. CASE LookupConversation(r)
    BY <2>4, LookupMoves
  <2> QED BY <1>3, <2>1, <2>2, <2>3, <2>4 DEF Step, FriendshipsStep, ConversationsStep,
          MessagesStep, InsertRequest, InsertConversation, CommitDecline, CommitAccept,
          EmitNewMessage, Fail
<1> QED BY <1>2, <1>3

LEMMA StampCommit ==
  ASSUME IInv, StampInv, StampsApart, NEW r \in Call,
         \A s \in Call \ {r} : call'[s] = call[s],
         CommitMessage(r) \/ CommitAccept(r)
  PROVE  StampInv'
<1>1. PICK n : n = call[r].ref
  OBVIOUS
<1>2. PICK d : d = Pointer(r)
  OBVIOUS
<1>3. PICK t : t = call[r].target
  OBVIOUS
<1>4. PICK m : m = NewMessage(r)
  OBVIOUS
<1>5. /\ Posts(r) /\ call[r].pc = "commit" /\ UNCHANGED clock
      /\ lastMessages' = (lastMessages \ {t}) \cup {d}
      /\ messages' = messages \cup {m}
      /\ d.conversation = n /\ d.message = r
      /\ t # None => t \in lastMessages /\ t.conversation = n
  BY <1>1, <1>2, <1>3, <1>4, CommitPosts, PointerFacts DEF Post, Posts
<1>6. m.id = r /\ m.conversation = n /\ m.created_at = call[r].created_at
  BY <1>1, <1>4 DEF NewMessage
<1>7. \A o \in messages : o.id # r /\ o.created_at \in Nat
  BY <1>5 DEF IInv, DocumentsOK, Done, TypeOK, Message
<1>8. /\ m.created_at \in Nat /\ m.created_at <= clock
      /\ t # None => \A o \in messages : o.id = t.message => o.created_at <= m.created_at
  BY <1>1, <1>3, <1>5, <1>6 DEF StampInv, StampOK, NewerThan, IInv, TypeOK, CallState
<1>9. NewestListed'
  <2> SUFFICES ASSUME NEW o \in messages'
               PROVE  \E e \in lastMessages', x \in messages' :
                        /\ e.conversation = o.conversation
                        /\ x.id = e.message /\ x.created_at >= o.created_at
    BY DEF NewestListed
  <2>1. CASE o = m
    BY <1>5, <1>6, <1>8, <2>1
  <2>2. CASE o \in messages
    <3>1. PICK e \in lastMessages, x \in messages :
            e.conversation = o.conversation /\ x.id = e.message /\ x.created_at >= o.created_at
      BY <2>2 DEF StampInv, NewestListed
    <3>2. CASE e # t
      BY <1>5, <3>1, <3>2
    <3>3. CASE e = t
      <4>1. t # None /\ t.conversation = n
        BY <1>5, <3>1, <3>3, NoneAssumption DEF IInv, TypeOK
      <4>2. x.created_at <= m.created_at
        BY <1>8, <3>1, <3>3, <4>1
      <4>3. o.created_at <= m.created_at
        BY <1>7, <1>8, <2>2, <3>1, <4>2
      <4> QED BY <1>5, <1>6, <3>1, <3>3, <4>1, <4>3
    <3> QED BY <3>2, <3>3
  <2> QED BY <1>5, <2>1, <2>2
<1>10. \A o, x \in messages' : o.id = x.id => o = x
  BY <1>5, <1>6, <1>7 DEF StampInv
<1>11. \A o \in messages' : o.created_at <= clock'
  BY <1>5, <1>8 DEF StampInv
<1>12. ASSUME NEW s \in Call, s # r
       PROVE  StampOK(s)' /\ SnapshotOK(s)'
  <2>1. call'[s] = call[s] /\ StampOK(s) /\ SnapshotOK(s)
    BY <1>12 DEF StampInv
  <2>2. SnapshotOK(s)'
    BY <1>5, <2>1 DEF SnapshotOK
  <2>3. ASSUME NEW P, NewerThan(s, P), \A e \in P : \E o \in messages : o.id = e.message
        PROVE  NewerThan(s, P)'
    BY <1>5, <1>6, <1>7, <2>1, <2>3 DEF NewerThan
  <2>4. NewerThan(s, call[s].snapshot) => NewerThan(s, call[s].snapshot)'
    BY <2>1, <2>3 DEF SnapshotOK
  <2>5. \A e \in lastMessages : \E o \in messages : o.id = e.message
    BY DEF IInv, PointersResolve
  <2>6. call[s].target # None => call[s].target \in lastMessages
    BY DEF IInv, HandlerOK, TargetOK
  <2>7. NewerThan(s, {call[s].target} \ {None}) => NewerThan(s, {call[s].target} \ {None})'
    BY <1>5, <1>6, <1>7, <2>1, <2>5, <2>6 DEF NewerThan
  <2>8. ASSUME call[s].pc = "insertMessage", call[s].status = None
        PROVE  NewerThan(s, lastMessages)'
    <3>1. call[s].ref # n
      BY <1>1, <1>5, <2>8 DEF StampsApart
    <3>2. NewerThan(s, lastMessages)
      BY <2>1, <2>8 DEF StampOK
    <3> QED BY <1>5, <1>6, <1>7, <2>1, <2>5, <3>1, <3>2 DEF NewerThan
  <2>9. StampOK(s)'
    BY <1>5, <2>1, <2>4, <2>7, <2>8 DEF StampOK, Posts, NewerThan
  <2> QED BY <2>2, <2>9
<1>13. StampOK(r)' /\ SnapshotOK(r)'
  <2>1. call'[r].snapshot \subseteq call[r].snapshot \cup lastMessages
    BY SnapshotMoves DEF Step, FriendshipsStep, MessagesStep
  <2>2. \A e \in lastMessages : \E o \in messages : o.id = e.message
    BY DEF IInv, PointersResolve
  <2>3. SnapshotOK(r)'
    BY <1>5, <2>1, <2>2 DEF SnapshotOK, StampInv
  <2> QED BY <2>3, CommitPosts, NotStamped DEF Finishes
<1> QED BY <1>9, <1>10, <1>11, <1>12, <1>13 DEF StampInv

\* The steps of a handler up to its commit.
LEMMA StampWork ==
  ASSUME IInv, StampInv, NEW r \in Call,
         CreateMessage(r) \/ InsertMessage(r) \/ WriteLastMessage(r)
  PROVE  StampOK(r)'
<1>1. /\ call[r] \in CallState /\ call \in [Call -> CallState] /\ clock \in Nat
      /\ StampOK(r)
      /\ UNCHANGED <<messages, lastMessages>>
  BY DEF IInv, TypeOK, StampInv, CreateMessage, InsertMessage, WriteLastMessage, collections
<1>2. CASE CreateMessage(r)
  <2>1. /\ call'[r].pc = "insertMessage" /\ call'[r].created_at = clock'
        /\ clock' \in {clock, clock + 1}
    BY <1>1, <1>2 DEF CreateMessage, CallState
  <2>2. \A m \in messages : m.created_at <= clock'
    <3>1. \A m \in messages : m.created_at \in Nat /\ m.created_at <= clock
      BY DEF IInv, TypeOK, Message, StampInv
    <3> QED BY <1>1, <2>1, <3>1
  <2>3. \A P : NewerThan(r, P)'
    BY <1>1, <2>1, <2>2 DEF NewerThan
  <2>4. call'[r].created_at <= clock'
    BY <1>1, <2>1
  <2> QED BY <2>1, <2>3, <2>4 DEF StampOK, Posts, NewerThan
<1>3. CASE InsertMessage(r)
  <2>1. /\ UNCHANGED clock
        /\ call[r].pc = "insertMessage" /\ call'[r].pc = "writeLast"
        /\ call'[r].ref = call[r].ref
        /\ call'[r].created_at = call[r].created_at
        /\ call'[r].snapshot = IF call[r].status = None THEN lastMessages ELSE call[r].snapshot
    BY <1>1, <1>3 DEF InsertMessage, CallState
  <2>2. NewerThan(r, IF call[r].status = None THEN lastMessages ELSE call[r].snapshot)
    BY <1>1, <2>1 DEF StampOK
  <2>3. (NewerThan(r, call[r].snapshot))'
    BY <1>1, <2>1, <2>2 DEF NewerThan
  <2> QED BY <1>1, <2>1, <2>3 DEF StampOK, Posts
<1>4. CASE WriteLastMessage(r)
  <2>1. CASE End(r)
    BY <2>1, Finished, NotStamped DEF Finishes
  <2>2. CASE ~ End(r)
    <3>1. /\ UNCHANGED clock
          /\ call[r].pc = "writeLast" /\ call'[r].pc = "commit"
          /\ call'[r].ref = call[r].ref
          /\ call'[r].created_at = call[r].created_at
      BY <1>1, <1>4, <2>2 DEF WriteLastMessage, CallState
    <3>2. call'[r].target = None \/ call'[r].target \in call[r].snapshot
      <4>1. call[r].target = None
        BY <3>1 DEF IInv, HandlerOK, TargetOK
      <4>2. CASE call' = [call EXCEPT ![r].pc = "commit", ![r].snapshot = {}]
        BY <1>1, <4>1, <4>2 DEF CallState
      <4>3. ASSUME NEW d \in PointersInSnapshot(r),
                   call' = [call EXCEPT ![r].pc = "commit", ![r].snapshot = {}, ![r].target = d]
            PROVE  call'[r].target = d /\ d \in call[r].snapshot
        BY <1>1, <4>3 DEF CallState, PointersInSnapshot
      <4> QED BY <1>4, <2>2, <4>2, <4>3 DEF WriteLastMessage
    <3>3. NewerThan(r, call[r].snapshot) /\ call[r].created_at <= clock
      BY <1>1, <3>1 DEF StampOK
    <3>4. (NewerThan(r, {call[r].target} \ {None}))'
      BY <1>1, <3>1, <3>2, <3>3 DEF NewerThan
    <3> QED BY <3>1, <3>3, <3>4 DEF StampOK, Posts
  <2> QED BY <2>1, <2>2
<1> QED BY <1>2, <1>3, <1>4

LEMMA StampStep ==
  ASSUME IInv, StampInv, StampsApart, [Next]_vars
  PROVE  StampInv'
<1>0. clock \in Nat
  BY DEF IInv, TypeOK
<1>1. CASE UNCHANGED vars
  BY <1>1 DEF vars, StampInv, NewestListed, StampOK, SnapshotOK, NewerThan, Posts
<1>2. ASSUME NEW r \in Call, Arrival(r) \/ Step(r) \/ Fail(r),
             UNCHANGED <<messages, lastMessages>>, StampOK(r)',
             clock' \in Nat, clock' >= clock
      PROVE  StampInv'
  <2>1. \A d \in lastMessages : \E m \in messages : m.id = d.message
    BY DEF IInv, PointersResolve
  <2>2. SnapshotOK(r)'
    BY <1>2, <2>1, SnapshotMoves DEF SnapshotOK, StampInv
  <2> QED BY <1>2, <2>2, OneMoves, StampKept
<1>3. ASSUME NEW r \in Call, Arrival(r)
      PROVE  StampInv'
  <2>1. UNCHANGED collections /\ UNCHANGED clock /\ ArrivesWith(r)
    BY <1>3, ArrivalMoves
  <2>2. StampOK(r)'
    BY <2>1, NotStamped DEF ArrivesWith, Finishes
  <2> QED BY <1>0, <1>2, <1>3, <2>1, <2>2 DEF collections
<1>4. ASSUME NEW r \in Call, Step(r) \/ Fail(r)
      PROVE  StampInv'
  <2>1. CASE CommitMessage(r) \/ CommitAccept(r)
    BY <1>4, <2>1, OneMoves, StampCommit
  <2>2. CASE InsertRequest(r) \/ InsertConversation(r) \/ CommitDecline(r)
             \/ EmitNewMessage(r) \/ Fail(r)
    <3>1. UNCHANGED <<messages, lastMessages, clock>>
      BY <2>2 DEF InsertRequest, InsertConversation, CommitDecline, EmitNewMessage, Fail,
         collections
    <3>2. StampOK(r)'
      BY <2>2, FinishingSteps, NotStamped DEF Finishes
    <3> QED BY <1>0, <1>2, <1>4, <3>1, <3>2
  <2>3. CASE SaveStatus(r) \/ LookupConversation(r)
    <3>1. UNCHANGED collections /\ UNCHANGED clock
      BY <2>3, SaveMoves, LookupMoves
    <3>2. StampOK(r)'
      BY <2>3, SaveMoves, LookupMoves, NotStamped DEF Finishes, Continues
    <3> QED BY <1>0, <1>2, <1>4, <3>1, <3>2 DEF collections
  <2>4. CASE CreateMessage(r) \/ InsertMessage(r) \/ WriteLastMessage(r)
    <3>1. UNCHANGED collections /\ clock' \in Nat /\ clock' >= clock
      BY <1>0, <2>4 DEF CreateMessage, InsertMessage, WriteLastMessage
    <3> QED BY <1>2, <1>4, <2>4, <3>1, StampWork DEF collections
  <2> QED BY <1>4, <2>1, <2>2, <2>3, <2>4
      DEF Step, FriendshipsStep, ConversationsStep, MessagesStep
<1> QED BY <1>1, <1>3, <1>4 DEF Next

\* MessagesService: the list shows an older message than the newest of the pages
\* only if a message is committed between the stamping of another one for the
\* same id of a conversation and the beginning of its transaction.
THEOREM NewestMessageListed == Spec /\ []StampsApart => []NewestListed
<1>1. Init => StampInv
  BY DEF Init, Idle, StampInv, NewestListed, StampOK, SnapshotOK, Posts
<1>2. IInv /\ StampInv /\ StampsApart /\ [Next]_vars => StampInv'
  BY StampStep
<1>3. StampInv => NewestListed
  BY DEF StampInv
<1> QED BY <1>1, <1>2, <1>3, Invariance, PTL DEF Spec

-----------------------------------------------------------------------------
(* One call at a time: a server that takes a call only when it has answered *)
(* the one before keeps everything apart.                                   *)

\* Who arrives is alone.
LEMMA ArrivesAlone ==
  ASSUME IsFiniteSet(Call), MaxInFlight = 1, NEW r \in Call, Arrives(r)
  PROVE  InFlight = {}
<1>1. InFlight \subseteq Call
  BY DEF InFlight
<1>2. IsFiniteSet(InFlight)
  BY <1>1, FS_Subset
<1>3. Cardinality(InFlight) \in Nat /\ Cardinality(InFlight) < 1
  BY <1>2, FS_CardinalityType DEF Arrives
<1> QED BY <1>2, <1>3, FS_EmptySet

Alone == \A r, s \in InFlight : r = s

LEMMA AloneStep ==
  ASSUME IsFiniteSet(Call), MaxInFlight = 1, IInv, Alone, [Next]_vars
  PROVE  Alone'
<1>1. CASE UNCHANGED vars
  BY <1>1 DEF vars, Alone, InFlight
<1>2. ASSUME NEW r \in Call, Arrival(r) \/ Step(r) \/ Fail(r)
      PROVE  Alone'
  <2>1. InFlight' \subseteq InFlight \cup {r}
    BY <1>2, OneMoves DEF InFlight
  <2>2. CASE Arrival(r)
    <3>1. InFlight = {}
      BY <2>2, ArrivesAlone
      DEF Arrival, FriendshipsArrival, ConversationsArrival, MessagesArrival,
          CheckRequest, FindRequest, CheckConversation, FindConversation
    <3> QED BY <2>1, <3>1 DEF Alone
  <2>3. CASE Step(r) \/ Fail(r)
    <3>1. r \in InFlight
      BY <2>3 DEF InFlight, Step, FriendshipsStep, ConversationsStep, MessagesStep, Fail,
         InsertRequest, SaveStatus, LookupConversation, CommitDecline, CommitAccept,
         InsertConversation, CreateMessage, InsertMessage, WriteLastMessage, CommitMessage,
         EmitNewMessage
    <3> QED BY <2>1, <3>1 DEF Alone
  <2> QED BY <1>2, <2>2, <2>3
<1> QED BY <1>1, <1>2 DEF Next

\* One call at a time: no check and write of two handlers ever overlap, so all
\* the properties above hold.
THEOREM AloneApart ==
  ASSUME IsFiniteSet(Call), MaxInFlight = 1
  PROVE  Spec => []Apart
<1>1. Init => Alone
  BY DEF Init, Idle, Alone, InFlight
<1>2. IInv /\ Alone /\ [Next]_vars => Alone'
  BY AloneStep
<1>3. Alone => Apart
  BY NoneAssumption DEF Alone, Apart, OpeningsApart, RequestsApart, DecisionsApart, FirstPostsApart,
     StampsApart, Opens, Requests, Decides, Posts, PostsUnseen, Posting, InFlight
<1> QED BY <1>1, <1>2, <1>3, Invariance, PTL DEF Spec
=============================================================================
