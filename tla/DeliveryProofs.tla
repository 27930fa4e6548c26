---------------------------- MODULE DeliveryProofs ----------------------------
(***************************************************************************)
(* Proofs about Delivery, for any clients, users and calls and any size of *)
(* the pages.  What ChatProofs shows of the calls is used here as it       *)
(* stands, since the gateway and the clients only watch them.              *)
(***************************************************************************)
EXTENDS Delivery, ChatProofs

\* The chat services do not notice the gateway and the clients.
THEOREM ChatUndisturbed == DeliverySpec => Spec
<1>1. DeliveryInit => Init
  BY DEF DeliveryInit
<1>2. [DeliveryNext]_deliveryVars => [Next]_vars
  <2> SUFFICES ASSUME [DeliveryNext]_deliveryVars
               PROVE  [Next]_vars
    OBVIOUS
  <2>1. CASE \E r \in Call : CallMoves(r)
    <3>1. PICK r \in Call : CallMoves(r)
      BY <2>1
    <3>2. Arrival(r) \/ Step(r) \/ Fail(r)
      BY <3>1 DEF CallMoves, Step, MessagesStep
    <3>3. QED
      BY <3>2 DEF Next
  <2>2. CASE ~ \E r \in Call : CallMoves(r)
    BY <2>2 DEF DeliveryNext, deliveryVars, Connect, Disconnect, OpenConversation, ReadPage
  <2>3. QED
    BY <2>1, <2>2
<1>3. QED
  BY <1>1, <1>2, PTL DEF DeliverySpec, Spec

-----------------------------------------------------------------------------
(* The inductive invariant *)

\* A message about to be announced is stored, in the stored conversation from
\* which the gateway takes the members.
AnnouncedOK ==
  \A r \in Call : call[r].pc = "emit" =>
    /\ call[r].conversation \in conversations
    /\ \E m \in messages : m.id = r
    /\ \A m \in messages : m.id = r => Cast[m.conversation] = call[r].conversation.id

\* A client has a conversation of its user's on its screen, or none.
ScreensOK ==
  \A c \in Client :
    /\ client[c].before # None => client[c].conversation # None
    /\ client[c].conversation # None =>
         \E d \in conversations :
           d.id = Cast[client[c].conversation] /\ client[c].user \in d.members

DInv ==
  /\ IInv
  /\ DeliveryTypeOK
  /\ AnnouncedOK
  /\ ScreensOK
  /\ ShownToMembers
  /\ NoGap

-----------------------------------------------------------------------------
(* Steps of the calls that the clients do not see *)

\* No message is stored or announced.
Silent(r) ==
  /\ messages' = messages
  /\ conversations \subseteq conversations'
  /\ call[r].pc # "emit"
  /\ \E q : q.pc # "emit" /\ call' = [call EXCEPT ![r] = q]

LEMMA ArrivalSilent ==
  ASSUME NEW r \in Call, Arrival(r)
  PROVE  Silent(r)
<1>1. ASSUME NEW u \in User, NEW v \in Id, CheckRequest(r, u, v)
      PROVE  Silent(r)
  BY <1>1 DEF CheckRequest, Arrives, End, Idle, Silent, collections
<1>2. ASSUME NEW u \in User, NEW id \in Call, NEW status, FindRequest(r, u, id, status)
      PROVE  Silent(r)
  BY <1>2 DEF FindRequest, Arrives, End, Idle, Silent, collections
<1>3. ASSUME NEW u \in User, NEW type, NEW members, CheckConversation(r, u, type, members)
      PROVE  Silent(r)
  BY <1>3 DEF CheckConversation, Arrives, End, Idle, Silent, collections
<1>4. ASSUME NEW u \in User, NEW ref \in Ref, FindConversation(r, u, ref)
      PROVE  Silent(r)
  BY <1>4 DEF FindConversation, Arrives, End, Idle, Silent, collections
<1>5. QED
  BY <1>1, <1>2, <1>3, <1>4
  DEF Arrival, FriendshipsArrival, ConversationsArrival, MessagesArrival

LEMMA StepSilent ==
  ASSUME IInv, NEW r \in Call, Step(r), call[r].pc # "emit",
         ~ CommitMessage(r), ~ CommitAccept(r)
  PROVE  Silent(r)
<1>1. call[r] \in CallState /\ call = [s \in Call |-> call[s]]
  BY DEF IInv, TypeOK
<1>2. CASE InsertRequest(r)
  BY <1>2 DEF InsertRequest, End, Idle, Silent
<1>3. CASE SaveStatus(r)
  BY <1>1, <1>3 DEF SaveStatus, End, Idle, Silent, collections, CallState
<1>4. CASE LookupConversation(r)
  BY <1>1, <1>4 DEF LookupConversation, Silent, collections, CallState
<1>5. CASE CommitDecline(r)
  BY <1>5 DEF CommitDecline, End, Idle, Silent
<1>6. CASE InsertConversation(r)
  BY <1>6 DEF InsertConversation, End, Idle, Silent
<1>7. CASE CreateMessage(r)
  BY <1>1, <1>7 DEF CreateMessage, Silent, collections, CallState
<1>8. CASE InsertMessage(r)
  BY <1>1, <1>8 DEF InsertMessage, Silent, collections, CallState
<1>9. CASE WriteLastMessage(r)
  BY <1>1, <1>9 DEF WriteLastMessage, End, Idle, Silent, collections, CallState
<1>10. CASE EmitNewMessage(r)
  BY <1>10 DEF EmitNewMessage
<1>11. QED
  BY <1>2, <1>3, <1>4, <1>5, <1>6, <1>7, <1>8, <1>9, <1>10
  DEF Step, FriendshipsStep, ConversationsStep, MessagesStep

\* Nothing is stored, and a message that was about to be announced still is,
\* or is counted as lost.
LEMMA QuietStep ==
  ASSUME DInv, IInv', messages' = messages, conversations \subseteq conversations',
         UNCHANGED client, lost \subseteq lost', lost' \subseteq Call,
         \A s \in Call : call'[s].pc = "emit" =>
           call[s].pc = "emit" /\ call'[s].conversation = call[s].conversation,
         \A s \in Call : call[s].pc = "emit" => call'[s].pc = "emit" \/ s \in lost'
  PROVE  DInv'
<1>1. DeliveryTypeOK'
  BY DEF DInv, DeliveryTypeOK
<1>2. AnnouncedOK'
  BY DEF DInv, AnnouncedOK
<1>3. ScreensOK' /\ ShownToMembers'
  BY DEF DInv, ScreensOK, ShownToMembers
<1>4. NoGap'
  BY DEF DInv, NoGap, Tied
<1>5. QED
  BY <1>1, <1>2, <1>3, <1>4 DEF DInv

LEMMA SilentStep ==
  ASSUME DInv, IInv', NEW r \in Call, Silent(r), UNCHANGED <<client, lost>>
  PROVE  DInv'
<1>1. \A s \in Call \ {r} : call'[s] = call[s]
  BY DEF Silent, DInv, IInv, TypeOK
<1>2. call[r].pc # "emit" /\ call'[r].pc # "emit"
  BY DEF Silent, DInv, IInv, TypeOK
<1>3. lost \subseteq Call
  BY DEF DInv, DeliveryTypeOK
<1>4. QED
  BY <1>1, <1>2, <1>3, QuietStep DEF Silent

LEMMA FailStep ==
  ASSUME DInv, IInv', NEW r \in Call, Fail(r), UNCHANGED client,
         lost' = IF call[r].pc = "emit" THEN lost \cup {r} ELSE lost
  PROVE  DInv'
<1>1. /\ messages' = messages /\ conversations' = conversations
      /\ call' = [call EXCEPT ![r] = [Idle EXCEPT !.pc = "ended"]]
  BY DEF Fail, End, collections
<1>2. call'[r].pc = "ended" /\ \A s \in Call \ {r} : call'[s] = call[s]
  BY <1>1 DEF DInv, IInv, TypeOK, Idle
<1>3. lost \subseteq lost' /\ lost' \subseteq Call
  BY DEF DInv, DeliveryTypeOK
<1>4. QED
  BY <1>1, <1>2, <1>3, QuietStep

-----------------------------------------------------------------------------
(* Commits and announcements *)

\* The message of a commit is new, and about to be announced or nobody's.
LEMMA StoringStep ==
  ASSUME DInv, IInv', NEW r \in Call, NEW m,
         ~ Done(r), m.id = r,
         messages' = messages \cup {m}, conversations \subseteq conversations',
         \A s \in Call \ {r} : call'[s] = call[s],
         UNCHANGED <<client, lost>>,
         \/ call'[r].pc # "emit" /\ m.user = None
         \/ /\ call'[r].pc = "emit"
            /\ call'[r].conversation \in conversations'
            /\ Cast[m.conversation] = call'[r].conversation.id
  PROVE  DInv'
<1>1. DeliveryTypeOK'
  BY DEF DInv, DeliveryTypeOK
<1>2. \A n \in messages : n.id # r
  BY DEF DInv, IInv, DocumentsOK
<1>3. AnnouncedOK'
  <2> SUFFICES ASSUME NEW s \in Call, call'[s].pc = "emit"
               PROVE  /\ call'[s].conversation \in conversations'
                      /\ \E n \in messages' : n.id = s
                      /\ \A n \in messages' :
                           n.id = s => Cast[n.conversation] = call'[s].conversation.id
    BY DEF AnnouncedOK
  <2>1. CASE s = r
    BY <1>2, <2>1
  <2>2. CASE s # r
    BY <2>2 DEF DInv, AnnouncedOK
  <2>3. QED
    BY <2>1, <2>2
<1>4. ScreensOK' /\ ShownToMembers'
  BY DEF DInv, ScreensOK, ShownToMembers
<1>5. NoGap'
  <2>1. call[r].pc # "emit"
    BY DEF Done
  <2>2. \A n \in messages : Tied(n) => Tied(n)'
    BY DEF Tied
  <2>3. QED
    BY <2>1, <2>2 DEF DInv, NoGap
<1>6. QED
  BY <1>1, <1>3, <1>4, <1>5 DEF DInv

LEMMA CommitMessageDelivery ==
  ASSUME DInv, IInv', NEW r \in Call, CommitMessage(r), UNCHANGED <<client, lost>>
  PROVE  DInv'
<1> DEFINE c == call[r].conversation
           m == NewMessage(r)
<1>1. /\ call[r].pc = "commit" /\ call[r].friendship = None
      /\ messages' = messages \cup {m} /\ m.id = r /\ m.conversation = call[r].ref
      /\ call' = [call EXCEPT ![r] = [Idle EXCEPT !.pc = "emit", !.conversation = c]]
      /\ conversations' = conversations
  BY DEF CommitMessage, Post, NewMessage
<1>2. call \in [Call -> CallState] /\ HandlerOK(call[r], r)
  BY DEF DInv, IInv, TypeOK
<1>3. c \in conversations /\ Cast[m.conversation] = c.id
  BY <1>1, <1>2, NoneAssumption DEF HandlerOK, DecisionOK, PostOK, Posting
<1>4. /\ call'[r].pc = "emit" /\ call'[r].conversation = c
      /\ \A s \in Call \ {r} : call'[s] = call[s]
  BY <1>1, <1>2 DEF Idle
<1>5. ~ Done(r)
  BY <1>1 DEF Done
<1> HIDE DEF m
<1>6. QED
  BY <1>1, <1>3, <1>4, <1>5, StoringStep

LEMMA CommitAcceptDelivery ==
  ASSUME DInv, IInv', NEW r \in Call, CommitAccept(r), UNCHANGED <<client, lost>>
  PROVE  DInv'
<1> DEFINE m == NewMessage(r)
<1>1. /\ call[r].pc = "commit" /\ call[r].status = "ACCEPTED"
      /\ messages' = messages \cup {m} /\ m.id = r /\ m.user = call[r].author
      /\ call' = [call EXCEPT ![r] = [Idle EXCEPT !.pc = "ended"]]
      /\ conversations \subseteq conversations'
  BY DEF CommitAccept, Post, NewMessage, End
<1>2. call \in [Call -> CallState] /\ HandlerOK(call[r], r)
  BY DEF DInv, IInv, TypeOK
<1>3. call[r].author = None
  BY <1>1, <1>2 DEF HandlerOK, PostOK, Posting
<1>4. call'[r].pc # "emit" /\ \A s \in Call \ {r} : call'[s] = call[s]
  BY <1>1, <1>2 DEF Idle
<1>5. ~ Done(r)
  BY <1>1 DEF Done
<1> HIDE DEF m
<1>6. QED
  BY <1>1, <1>3, <1>4, <1>5, StoringStep

\* The announcement reaches every client that has the message's conversation
\* on its screen, because it reaches all of its members.
LEMMA EmitDelivery ==
  ASSUME DInv, IInv', NEW r \in Call, EmitNewMessage(r), Deliver(r)
  PROVE  DInv'
<1>1. /\ call[r].pc = "emit"
      /\ call' = [call EXCEPT ![r] = [Idle EXCEPT !.pc = "ended"]]
      /\ messages' = messages /\ conversations' = conversations /\ lost' = lost
  BY DEF EmitNewMessage, End, collections, Deliver
<1>2. call'[r].pc = "ended" /\ \A s \in Call \ {r} : call'[s] = call[s]
  BY <1>1 DEF DInv, IInv, TypeOK, Idle
<1>3. PICK d \in conversations : d = call[r].conversation
  BY <1>1 DEF DInv, AnnouncedOK
<1>4. PICK m \in messages : m.id = r
  BY <1>1 DEF DInv, AnnouncedOK
<1>5. \A n \in messages : n.id = r => Cast[n.conversation] = d.id
  BY <1>1, <1>3 DEF DInv, AnnouncedOK
<1>6. /\ client \in [Client -> ClientState]
      /\ \A c \in Client :
           client'[c] = IF client[c].user \in d.members
                          THEN [client[c] EXCEPT !.shown = @ \cup {r}] ELSE client[c]
  BY <1>3 DEF DInv, DeliveryTypeOK, Deliver, Receives
<1>7. \A c \in Client :
        /\ client'[c] \in ClientState
        /\ client'[c].user = client[c].user
        /\ client'[c].conversation = client[c].conversation
        /\ client'[c].before = client[c].before
        /\ client'[c].shown =
             IF client[c].user \in d.members THEN client[c].shown \cup {r} ELSE client[c].shown
  <2> SUFFICES ASSUME NEW c \in Client
               PROVE  /\ client'[c] \in ClientState
                      /\ client'[c].user = client[c].user
                      /\ client'[c].conversation = client[c].conversation
                      /\ client'[c].before = client[c].before
                      /\ client'[c].shown =
                           IF client[c].user \in d.members THEN client[c].shown \cup {r}
                                                         ELSE client[c].shown
    OBVIOUS
  <2>1. PICK k \in ClientState : k = client[c]
    BY <1>6
  <2>2. CASE client[c].user \in d.members
    <3>1. client'[c] = [k EXCEPT !.shown = k.shown \cup {r}]
      BY <1>6, <2>1, <2>2
    <3>2. QED
      BY <2>1, <2>2, <3>1 DEF ClientState
  <2>3. CASE client[c].user \notin d.members
    BY <1>6, <2>1, <2>3
  <2>4. QED
    BY <2>2, <2>3
<1>8. DeliveryTypeOK'
  <2>1. client' \in [Client -> ClientState]
    BY <1>7 DEF Deliver
  <2>2. QED
    BY <1>1, <2>1 DEF DInv, DeliveryTypeOK
<1>9. AnnouncedOK'
  BY <1>1, <1>2 DEF DInv, AnnouncedOK
<1>10. ScreensOK'
  BY <1>1, <1>7 DEF DInv, ScreensOK
<1>11. ShownToMembers'
  <2> SUFFICES ASSUME NEW c \in Client, NEW id \in client'[c].shown
               PROVE  \E n \in messages', e \in conversations' :
                        n.id = id /\ e.id = Cast[n.conversation] /\ client'[c].user \in e.members
    BY DEF ShownToMembers
  <2>1. CASE id \in client[c].shown
    <3>1. PICK n \in messages, e \in conversations :
            n.id = id /\ e.id = Cast[n.conversation] /\ client[c].user \in e.members
      BY <2>1 DEF DInv, ShownToMembers
    <3>2. n \in messages' /\ e \in conversations' /\ client'[c].user = client[c].user
      BY <1>1, <1>7
    <3>3. QED
      BY <3>1, <3>2
  <2>2. CASE id \notin client[c].shown
    <3>1. id = r /\ client'[c].user \in d.members
      BY <1>7, <2>2
    <3>2. m \in messages' /\ d \in conversations' /\ d.id = Cast[m.conversation]
      BY <1>1, <1>3, <1>4, <1>5
    <3>3. QED
      BY <1>4, <3>1, <3>2
  <2>3. QED
    BY <2>1, <2>2
<1>12. NoGap'
  <2> SUFFICES ASSUME NEW c \in Client, client[c].before # None,
                      NEW n \in messages,
                      n.conversation = client[c].conversation, n.user # None,
                      n.created_at >= client[c].before, ~ Tied(n)
               PROVE  n.id \in client'[c].shown \cup lost \cup {s \in Call : call'[s].pc = "emit"}
    BY <1>1, <1>7 DEF NoGap, Tied
  <2>1. n.id \in client[c].shown \cup lost \cup {s \in Call : call[s].pc = "emit"}
    BY DEF DInv, NoGap
  <2>2. CASE n.id = r
    <3>1. PICK e \in conversations :
            e.id = Cast[client[c].conversation] /\ client[c].user \in e.members
      BY DEF DInv, ScreensOK
    <3>2. e = d
      BY <1>5, <2>2, <3>1 DEF DInv, IInv, DocumentsOK
    <3>3. QED
      BY <1>7, <2>2, <3>1, <3>2
  <2>3. CASE n.id # r
    BY <1>2, <1>7, <2>1, <2>3
  <2>4. QED
    BY <2>2, <2>3
<1>13. QED
  BY <1>8, <1>9, <1>10, <1>11, <1>12 DEF DInv

-----------------------------------------------------------------------------
(* Steps of the clients *)

\* A step that only changes one client needs only be right about that one.
LEMMA ClientStep ==
  ASSUME DInv, UNCHANGED <<vars, lost>>, NEW c \in Client, NEW k \in ClientState,
         client' = [client EXCEPT ![c] = k],
         k.before # None => k.conversation # None,
         k.conversation # None =>
           \E d \in conversations : d.id = Cast[k.conversation] /\ k.user \in d.members,
         \A id \in k.shown : \E m \in messages, d \in conversations :
           m.id = id /\ d.id = Cast[m.conversation] /\ k.user \in d.members,
         k.before # None =>
           \A m \in messages :
             m.conversation = k.conversation /\ m.user # None /\ m.created_at >= k.before
             => m.id \in k.shown \cup lost \cup {r \in Call : call[r].pc = "emit"} \/ Tied(m)
  PROVE  DInv'
<1>1. client'[c] = k /\ \A e \in Client \ {c} : client'[e] = client[e]
  BY DEF DInv, DeliveryTypeOK
<1>2. IInv'
  BY InvariantStep DEF DInv
<1>3. DeliveryTypeOK'
  BY DEF DInv, DeliveryTypeOK, vars
<1>4. AnnouncedOK'
  BY DEF DInv, AnnouncedOK, vars
<1>5. ScreensOK'
  BY <1>1 DEF DInv, ScreensOK, vars
<1>6. ShownToMembers'
  BY <1>1 DEF DInv, ShownToMembers, vars
<1>7. NoGap'
  BY <1>1 DEF DInv, NoGap, Tied, vars
<1>8. QED
  BY <1>2, <1>3, <1>4, <1>5, <1>6, <1>7 DEF DInv

LEMMA ConnectStep ==
  ASSUME DInv, NEW c \in Client, NEW u \in User, Connect(c, u)
  PROVE  DInv'
<1>1. PICK k : k = [client[c] EXCEPT !.user = u]
  OBVIOUS
<1>2. client[c] \in ClientState /\ client[c].user = None
  BY DEF DInv, DeliveryTypeOK, Connect
<1>3. /\ k \in ClientState /\ k.user = u /\ k.conversation = client[c].conversation
      /\ k.before = client[c].before /\ k.shown = client[c].shown
  BY <1>1, <1>2 DEF ClientState
<1>4. \A d \in conversations : None \notin d.members
  BY NoneAssumption DEF DInv, IInv, TypeOK, Conversation
<1>5. k.conversation = None /\ k.before = None
  BY <1>2, <1>3, <1>4 DEF DInv, ScreensOK
<1>6. k.shown = {}
  BY <1>2, <1>3, <1>4 DEF DInv, ShownToMembers
<1>7. client' = [client EXCEPT ![c] = k] /\ UNCHANGED <<vars, lost>>
  BY <1>1 DEF Connect, Join
<1>8. QED
  BY <1>3, <1>5, <1>6, <1>7, ClientStep

LEMMA DisconnectStep ==
  ASSUME DInv, NEW c \in Client, Disconnect(c)
  PROVE  DInv'
<1>1. /\ Offline \in ClientState /\ Offline.conversation = None
      /\ Offline.before = None /\ Offline.shown = {}
  BY DEF Offline, ClientState
<1>2. client' = [client EXCEPT ![c] = Offline] /\ UNCHANGED <<vars, lost>>
  BY DEF Disconnect
<1>3. QED
  BY <1>1, <1>2, ClientStep

LEMMA OpenConversationStep ==
  ASSUME DInv, NEW c \in Client, NEW ref \in Ref, OpenConversation(c, ref)
  PROVE  DInv'
<1>1. PICK k : k = [client[c] EXCEPT !.conversation = ref]
  OBVIOUS
<1>2. client[c] \in ClientState /\ client[c].conversation = None
  BY DEF DInv, DeliveryTypeOK, OpenConversation
<1>3. /\ k \in ClientState /\ k.user = client[c].user /\ k.conversation = ref
      /\ k.before = client[c].before /\ k.shown = client[c].shown
  BY <1>1, <1>2 DEF ClientState
<1>4. k.before = None
  BY <1>2, <1>3 DEF DInv, ScreensOK
<1>5. client' = [client EXCEPT ![c] = k] /\ UNCHANGED <<vars, lost>>
  BY <1>1 DEF OpenConversation
<1>6. \E d \in conversations : d.id = Cast[ref] /\ k.user \in d.members
  BY <1>3 DEF OpenConversation
<1>7. \A id \in k.shown : \E m \in messages, d \in conversations :
        m.id = id /\ d.id = Cast[m.conversation] /\ k.user \in d.members
  BY <1>3 DEF DInv, ShownToMembers
<1>8. QED
  BY <1>3, <1>4, <1>5, <1>6, <1>7, ClientStep

\* Reading a page: the pages read so far and the new one leave no hole between
\* them, and none at the end.
LEMMA ReadPageStep ==
  ASSUME DInv, NEW c \in Client, ReadPage(c)
  PROVE  DInv'
<1>1. PICK ref, b0, S :
        ref = client[c].conversation /\ b0 = client[c].before /\ S = Older(ref, b0)
  OBVIOUS
<1>2. PICK P \in Pages(ref, b0) :
        /\ UNCHANGED <<vars, lost>>
        /\ \E b : /\ b \in IF Cardinality(P) < Limit THEN {0}
                           ELSE {m.created_at : m \in {o \in P : \A n \in P : o.created_at <= n.created_at}}
                  /\ client' = [client EXCEPT
                       ![c].shown = @ \cup {m.id : m \in P}, ![c].before = b]
  BY <1>1 DEF ReadPage
<1>3. PICK b :
        /\ b \in IF Cardinality(P) < Limit THEN {0}
                 ELSE {m.created_at : m \in {o \in P : \A n \in P : o.created_at <= n.created_at}}
        /\ client' = [client EXCEPT
             ![c].shown = @ \cup {m.id : m \in P}, ![c].before = b]
  BY <1>2
<1>4. PICK k : k = [client[c] EXCEPT !.shown = @ \cup {m.id : m \in P}, !.before = b]
  OBVIOUS
<1>5. /\ S \subseteq messages
      /\ \A m \in messages : m.id \in Call /\ m.created_at \in Nat
      /\ \A m \in messages :
           m \in S <=> m.conversation = ref /\ (b0 # None => m.created_at < b0)
  BY <1>1 DEF Older, DInv, IInv, TypeOK, Message
<1>6. /\ P \subseteq S
      /\ Cardinality(P) < Limit => P = S
      /\ \A m \in P, n \in S \ P : n.created_at <= m.created_at
  BY <1>1 DEF Pages
<1>7. b \in Nat /\ \A m \in S : m.created_at >= b => m \in P \/ Tied(m)
  <2>1. CASE Cardinality(P) < Limit
    BY <1>3, <1>6, <2>1
  <2>2. CASE ~ (Cardinality(P) < Limit)
    <3>1. PICK o \in P : b = o.created_at
      BY <1>3, <2>2
    <3>2. o \in S /\ b \in Nat
      BY <1>5, <1>6, <3>1
    <3>3. ASSUME NEW m \in S, m.created_at >= b, m \notin P
          PROVE  Tied(m)
      <4>1. m.created_at = o.created_at
        BY <1>5, <1>6, <3>1, <3>2, <3>3
      <4>2. m.conversation = o.conversation /\ m \in messages /\ o \in messages /\ o # m
        BY <1>5, <3>1, <3>2, <3>3
      <4>3. QED
        BY <4>1, <4>2 DEF Tied
    <3>4. QED
      BY <3>2, <3>3
  <2>3. QED
    BY <2>1, <2>2
<1>8. client[c] \in ClientState /\ ref # None
  BY <1>1 DEF DInv, DeliveryTypeOK, ReadPage
<1>9. /\ k \in ClientState /\ k.user = client[c].user /\ k.conversation = ref
      /\ k.before = b /\ k.shown = client[c].shown \cup {m.id : m \in P}
  <2>1. {m.id : m \in P} \subseteq Call
    BY <1>5, <1>6
  <2>2. QED
    BY <1>1, <1>4, <1>7, <1>8, <2>1 DEF ClientState
<1>10. client' = [client EXCEPT ![c] = k]
  BY <1>3, <1>4
<1>11. PICK d \in conversations : d.id = Cast[ref] /\ k.user \in d.members
  BY <1>1, <1>8, <1>9 DEF DInv, ScreensOK
<1>12. \A id \in k.shown : \E m \in messages, e \in conversations :
         m.id = id /\ e.id = Cast[m.conversation] /\ k.user \in e.members
  <2> SUFFICES ASSUME NEW id \in k.shown
               PROVE  \E m \in messages, e \in conversations :
                        m.id = id /\ e.id = Cast[m.conversation] /\ k.user \in e.members
    OBVIOUS
  <2>1. CASE id \in client[c].shown
    BY <1>9, <2>1 DEF DInv, ShownToMembers
  <2>2. CASE id \notin client[c].shown
    <3>1. PICK m \in P : id = m.id
      BY <1>9, <2>2
    <3>2. m \in messages /\ m.conversation = ref
      BY <1>5, <1>6, <3>1
    <3>3. QED
      BY <1>11, <3>1, <3>2
  <2>3. QED
    BY <2>1, <2>2
<1>13. ASSUME NEW m \in messages,
              m.conversation = ref, m.user # None, m.created_at >= b
       PROVE  m.id \in k.shown \cup lost \cup {r \in Call : call[r].pc = "emit"} \/ Tied(m)
  <2>1. CASE m \in S
    BY <1>7, <1>9, <1>13, <2>1
  <2>2. CASE m \notin S
    <3>1. b0 # None /\ ~ (m.created_at < b0)
      BY <1>5, <1>13, <2>2
    <3>2. b0 \in Nat
      BY <1>1, <1>8, <3>1 DEF ClientState
    <3>3. m.created_at >= b0
      BY <1>5, <3>1, <3>2
    <3>4. m.id \in client[c].shown \cup lost \cup {r \in Call : call[r].pc = "emit"} \/ Tied(m)
      BY <1>1, <1>13, <3>1, <3>3 DEF DInv, NoGap
    <3>5. QED
      BY <1>9, <3>4
  <2>3. QED
    BY <2>1, <2>2
<1>14. QED
  BY <1>2, <1>8, <1>9, <1>10, <1>11, <1>12, <1>13, ClientStep

-----------------------------------------------------------------------------
(* The theorems *)

LEMMA DeliveryInit_DInv == DeliveryInit => DInv
<1> SUFFICES ASSUME DeliveryInit
             PROVE  DInv
  OBVIOUS
<1>1. IInv
  BY InvariantInit DEF DeliveryInit
<1>2. DeliveryTypeOK
  BY DEF DeliveryInit, DeliveryTypeOK, Offline, ClientState
<1>3. AnnouncedOK
  BY DEF DeliveryInit, Init, AnnouncedOK, Idle
<1>4. ScreensOK /\ ShownToMembers /\ NoGap
  BY DEF DeliveryInit, ScreensOK, ShownToMembers, NoGap, Offline
<1>5. QED
  BY <1>1, <1>2, <1>3, <1>4 DEF DInv

LEMMA DeliveryStep == DInv /\ [DeliveryNext]_deliveryVars => DInv'
<1> SUFFICES ASSUME DInv, [DeliveryNext]_deliveryVars
             PROVE  DInv'
  OBVIOUS
<1>1. CASE UNCHANGED deliveryVars
  <2>1. IInv'
    BY <1>1, InvariantStep DEF DInv, deliveryVars
  <2>2. QED
    BY <1>1, <2>1 DEF DInv, deliveryVars, vars, DeliveryTypeOK, AnnouncedOK, ScreensOK,
                      ShownToMembers, NoGap, Tied
<1>2. ASSUME NEW r \in Call, CallMoves(r)
      PROVE  DInv'
  <2>1. Arrival(r) \/ Step(r) \/ Fail(r)
    BY <1>2 DEF CallMoves, Step, MessagesStep
  <2>2. IInv'
    BY <2>1, InvariantStep DEF DInv, Next
  <2>3. CASE Arrival(r) /\ UNCHANGED <<client, lost>>
    BY <2>2, <2>3, ArrivalSilent, SilentStep
  <2>4. CASE call[r].pc # "emit" /\ Step(r) /\ UNCHANGED <<client, lost>>
    <3>1. CASE CommitMessage(r)
      BY <2>2, <2>4, <3>1, CommitMessageDelivery
    <3>2. CASE CommitAccept(r)
      BY <2>2, <2>4, <3>2, CommitAcceptDelivery
    <3>3. CASE ~ CommitMessage(r) /\ ~ CommitAccept(r)
      BY <2>2, <2>4, <3>3, StepSilent, SilentStep DEF DInv
    <3>4. QED
      BY <3>1, <3>2, <3>3
  <2>5. CASE EmitNewMessage(r) /\ Deliver(r)
    BY <2>2, <2>5, EmitDelivery
  <2>6. CASE /\ Fail(r)
             /\ lost' = IF call[r].pc = "emit" THEN lost \cup {r} ELSE lost
             /\ UNCHANGED client
    BY <2>2, <2>6, FailStep
  <2>7. QED
    BY <1>2, <2>3, <2>4, <2>5, <2>6 DEF CallMoves
<1>3. ASSUME NEW c \in Client,
             \/ \E u \in User : Connect(c, u)
             \/ Disconnect(c)
             \/ \E ref \in Ref : OpenConversation(c, ref)
             \/ ReadPage(c)
      PROVE  DInv'
  BY <1>3, ConnectStep, DisconnectStep, OpenConversationStep, ReadPageStep
<1>4. QED
  BY <1>1, <1>2, <1>3 DEF DeliveryNext

\* What is announced is stored, what is on a screen is the user's, and no
\* screen has a hole, whatever the calls and the clients do.
THEOREM DeliveryInvariance == DeliverySpec => []DInv
<1>1. QED
  BY DeliveryInit_DInv, DeliveryStep, PTL DEF DeliverySpec

\* Clients are well typed.
THEOREM DeliveryTypeCorrect == DeliverySpec => []DeliveryTypeOK
<1>1. DInv => DeliveryTypeOK
  BY DEF DInv
<1>2. QED
  BY <1>1, DeliveryInvariance, PTL

\* The gateway and the two reads give a client nothing but stored messages of
\* conversations its user belongs to.
THEOREM MembersOnly == DeliverySpec => []ShownToMembers
<1>1. DInv => ShownToMembers
  BY DEF DInv
<1>2. QED
  BY <1>1, DeliveryInvariance, PTL

\* Pages read and events received together leave out no message stored under
\* the id by which the client has opened the conversation but one stamped in the
\* millisecond of another one, for any size of the pages and any number of
\* overlapping posts.
THEOREM ScreensHaveNoGap == DeliverySpec => []NoGap
<1>1. DInv => NoGap
  BY DEF DInv
<1>2. QED
  BY <1>1, DeliveryInvariance, PTL

\* With clients and the gateway the chat services still are the atomic
\* operations of ChatService.
THEOREM DeliveryImplementation == DeliverySpec => ImplementsService
<1>1. QED
  BY ChatUndisturbed, Implementation
=============================================================================
