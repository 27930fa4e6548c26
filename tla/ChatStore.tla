------------------------------ MODULE ChatStore ------------------------------
(***************************************************************************)
(* The documents the chat services share, and the API calls working on     *)
(* them.                                                                   *)
(*                                                                         *)
(* The services keep their state in MongoDB.  Each collection is a set of  *)
(* documents; a document inserted by a call is named by that call, which   *)
(* stands for the fresh ObjectId the driver generates.  No call inserts    *)
(* two documents into one collection.  Nothing in these services sets      *)
(* deleted_at, so the filter {deleted_at: null} selects every document.    *)
(*                                                                         *)
(* An id is 24 hexadecimal digits, in either case: @IsMongoId and          *)
(* ObjectId.isValid accept both.  A filter on _id casts the id it is given *)
(* to an ObjectId; the server prints an ObjectId in lower case.  The       *)
(* fields that name another document are strings, stored as the request    *)
(* writes them and compared as strings.                                    *)
(*                                                                         *)
(* A call runs one HTTP handler.  Between two awaits of its handler any    *)
(* other call may run; call[r] holds its position and its local variables. *)
(***************************************************************************)
EXTENDS Naturals, FiniteSets

CONSTANTS
  Id,          \* ids a client may write where a user id is expected
  User,        \* ids of registered users, as the server prints them
  Ref,         \* ids a client may write where a conversation id is expected
  Call,        \* API calls, also the ids of the documents they insert
  Cast,        \* id -> the same ObjectId as the server prints it
  None,        \* null
  MaxInFlight  \* bound: calls whose handlers may be running at once

VARIABLES
  friendships,    \* collection 'friendships'
  conversations,  \* collection 'conversations'
  messages,       \* collection 'messages'
  lastMessages,   \* collection 'lastMessages'
  clock,          \* the application's clock, which stamps created_at
  call            \* call -> position and local variables of its handler

collections == <<friendships, conversations, messages, lastMessages>>

vars == <<friendships, conversations, messages, lastMessages, clock, call>>

FriendshipStatus == {"REQUESTED", "ACCEPTED", "DECLINED"}

Friendship ==
  [id: Call, sender: User, receiver: Id, status: FriendshipStatus]

\* The members array is kept as the set of its users and its length: the
\* code's filters look at nothing else ($all, $size, members.user).
Conversation ==
  [id: Call, type: {"ONE_TO_ONE", "GROUP"}, members: SUBSET Id, size: Nat]

\* A message without a user is a system notification (type NOTIFICATION).
Message ==
  [id: Call, conversation: Ref, user: User \cup {None}, created_at: Nat]

LastMessage == [id: Call, conversation: Ref, message: Call]

ASSUME IdAssumption == IsFiniteSet(Id)

ASSUME UserAssumption == User \subseteq Id

ASSUME CastAssumption ==
  /\ Call \subseteq Ref
  /\ Cast \in [Id \cup Ref -> Id \cup Ref]
  /\ \A i \in User \cup Call : Cast[i] = i

ASSUME NoneAssumption ==
  /\ None \notin Id
  /\ None \notin Ref
  /\ None \notin FriendshipStatus
  /\ None \notin Friendship
  /\ None \notin Conversation
  /\ None \notin LastMessage

ASSUME BoundAssumption == MaxInFlight \in Nat

-----------------------------------------------------------------------------
(* Calls *)

Pc == {"idle", "insertRequest", "save", "lookup", "insertConversation",
       "createMessage", "insertMessage", "writeLast", "commit", "emit", "ended"}

CallState ==
  [pc: Pc,
   friendship: Friendship \cup {None},     \* document loaded or to be inserted
   status: FriendshipStatus \cup {None},   \* decision on that friendship
   conversation: Conversation \cup {None}, \* document loaded or to be inserted
   author: User \cup {None},               \* user of the message to post
   ref: Ref \cup {None},                   \* its conversation's id, as written
   created_at: Nat,                        \* its time stamp
   snapshot: SUBSET LastMessage,           \* lastMessages as the transaction sees it
   target: LastMessage \cup {None}]        \* pointer the upsert rewrites, None: inserts

Idle == [pc |-> "idle", friendship |-> None, status |-> None,
         conversation |-> None, author |-> None, ref |-> None, created_at |-> 0,
         snapshot |-> {}, target |-> None]

InFlight == {r \in Call : call[r].pc \notin {"idle", "ended"}}

\* The HTTP server hands a new call to its handler.
Arrives(r) ==
  /\ call[r].pc = "idle"
  /\ Cardinality(InFlight) < MaxInFlight

\* The handler of r returns or throws.
End(r) == call' = [call EXCEPT ![r] = [Idle EXCEPT !.pc = "ended"]]

\* A database error, a timeout or a crash of the process stops a handler at
\* an await.  An open transaction is aborted: its writes were never visible.
\* At "emit" the commit has happened and only its consequences are lost.
Fail(r) ==
  /\ r \in InFlight
  /\ End(r)
  /\ UNCHANGED <<collections, clock>>

-----------------------------------------------------------------------------
(* MongoDB transactions as mongooseTransaction uses them: writes are kept  *)
(* back until the commit, reads see the snapshot taken by the first        *)
(* operation, and writing a document that another open transaction has     *)
(* written, or that was committed after the snapshot, is a write conflict. *)
(* The wrapper does not retry: it aborts and rethrows.                     *)

HoldsFriendship(r, id) ==
  /\ call[r].friendship # None
  /\ call[r].pc \notin {"insertRequest", "save"}
  /\ call[r].friendship.id = id

HoldsLastMessage(r, id) ==
  /\ call[r].pc = "commit"
  /\ call[r].target # None
  /\ call[r].target.id = id

-----------------------------------------------------------------------------
(* Filters and writes used by more than one service *)

\* The filter for the one-to-one conversation of two users.  It compares the
\* ids of the members as strings.
IsOneToOneOf(c, u, v) ==
  /\ c.type = "ONE_TO_ONE"
  /\ c.size = 2
  /\ {u, v} \subseteq c.members

\* friendship.save() rewrites the status of the document with this id.
StatusSaved(id, status) ==
  {IF f.id = id THEN [f EXCEPT !.status = status] ELSE f : f \in friendships}

Init ==
  /\ friendships = {}
  /\ conversations = {}
  /\ messages = {}
  /\ lastMessages = {}
  /\ clock = 0
  /\ call = [r \in Call |-> Idle]

TypeOK ==
  /\ friendships \subseteq Friendship
  /\ conversations \subseteq Conversation
  /\ messages \subseteq Message
  /\ lastMessages \subseteq LastMessage
  /\ clock \in Nat
  /\ call \in [Call -> CallState]
=============================================================================
