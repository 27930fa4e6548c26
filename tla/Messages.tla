------------------------------- MODULE Messages -------------------------------
(***************************************************************************)
(* MessagesService: posting a message, or a system notification, into a    *)
(* conversation and moving the conversation's lastMessages pointer to it   *)
(* in one transaction.                                                     *)
(***************************************************************************)
EXTENDS ChatStore

\* Mutant: the member filter is dropped.
FindConversation_AnyMember(r, u, ref) ==
  /\ Arrives(r)
  /\ LET found == {c \in conversations : c.id = Cast[ref]} IN
       \/ \E c \in found :
            call' = [call EXCEPT
              ![r] = [Idle EXCEPT !.pc = "createMessage",
                                  !.conversation = c, !.author = u, !.ref = ref]]
       \/ found = {} /\ End(r)
  /\ UNCHANGED <<collections, clock>>

\* create: the conversation is found by _id, with the caller as a member.  The
\* message is stored under the conversation's id as the request writes it.
FindConversation(r, u, ref) ==
  /\ Arrives(r)
  /\ LET found == {c \in conversations : c.id = Cast[ref] /\ u \in c.members} IN
       \/ \E c \in found :
            call' = [call EXCEPT
              ![r] = [Idle EXCEPT !.pc = "createMessage",
                                  !.conversation = c, !.author = u, !.ref = ref]]
       \/ found = {} /\ End(r)
  /\ UNCHANGED <<collections, clock>>

\* messageModel.create first builds the document and stamps it, perhaps in the
\* millisecond of the stamp before; the insert reaches the database later.  If
\* it is the first operation of the transaction it takes the snapshot: the
\* transaction of a decision has begun before.  The message stays private
\* until the commit.
CreateMessage(r) ==
  /\ call[r].pc = "createMessage"
  /\ clock' \in {clock, clock + 1}
  /\ call' = [call EXCEPT ![r].pc = "insertMessage", ![r].created_at = clock']
  /\ UNCHANGED collections

NewMessage(r) ==
  [id |-> r, conversation |-> call[r].ref, user |-> call[r].author,
   created_at |-> call[r].created_at]

\* Mutant: the insert is not given the session.
InsertMessage_OutsideTransaction(r) ==
  /\ call[r].pc = "insertMessage"
  /\ messages' = messages \cup {NewMessage(r)}
  /\ call' = [call EXCEPT
       ![r].pc = "writeLast",
       ![r].snapshot = IF call[r].status = None THEN lastMessages ELSE @]
  /\ UNCHANGED <<friendships, conversations, lastMessages, clock>>

InsertMessage(r) ==
  /\ call[r].pc = "insertMessage"
  /\ call' = [call EXCEPT
       ![r].pc = "writeLast",
       ![r].snapshot = IF call[r].status = None THEN lastMessages ELSE @]
  /\ UNCHANGED <<collections, clock>>

\* Mutants: the filter is empty, or names the message.
PointersInSnapshot_NoFilter(r) == call[r].snapshot

PointersInSnapshot_ByMessage(r) == {d \in call[r].snapshot : d.message = r}

\* writeLastMessage: findOneAndUpdate with upsert, run in the transaction.
\* It rewrites a pointer of the conversation, by its id as written, that the
\* snapshot shows, or inserts one if the snapshot shows none; there is no
\* unique index on conversation.  On a write conflict the transaction is
\* aborted.
PointersInSnapshot(r) ==
  {d \in call[r].snapshot : d.conversation = call[r].ref}

WriteConflict(r, d) ==
  \/ d \notin lastMessages
  \/ \E s \in Call \ {r} : HoldsLastMessage(s, d.id)

\* Mutant: a write conflict makes the transaction wait.
WriteLastMessage_Waits(r) ==
  /\ call[r].pc = "writeLast"
  /\ \/ /\ PointersInSnapshot(r) = {}
        /\ call' = [call EXCEPT ![r].pc = "commit", ![r].snapshot = {}]
     \/ \E d \in PointersInSnapshot(r) :
          /\ ~ WriteConflict(r, d)
          /\ call' = [call EXCEPT ![r].pc = "commit", ![r].snapshot = {},
                                  ![r].target = d]
  /\ UNCHANGED <<collections, clock>>

WriteLastMessage(r) ==
  /\ call[r].pc = "writeLast"
  /\ \/ /\ PointersInSnapshot(r) = {}
        /\ call' = [call EXCEPT ![r].pc = "commit", ![r].snapshot = {}]
     \/ \E d \in PointersInSnapshot(r) :
          \/ /\ ~ WriteConflict(r, d)
             /\ call' = [call EXCEPT ![r].pc = "commit", ![r].snapshot = {},
                                     ![r].target = d]
          \/ WriteConflict(r, d) /\ End(r)
  /\ UNCHANGED <<collections, clock>>

\* Mutants: the pointer is written before the message has its id; the message
\* is only set when the upsert inserts.
Pointer_NoMessage(r) ==
  IF call[r].target = None
  THEN [id |-> r, conversation |-> call[r].ref, message |-> None]
  ELSE [call[r].target EXCEPT !.message = None]

Pointer_SetOnInsert(r) ==
  IF call[r].target = None
  THEN [id |-> r, conversation |-> call[r].ref, message |-> r]
  ELSE call[r].target

\* The writes of createMessage or createNotificationMessage, made visible.
Pointer(r) ==
  IF call[r].target = None
  THEN [id |-> r, conversation |-> call[r].ref, message |-> r]
  ELSE [call[r].target EXCEPT !.message = r]

Post(r) ==
  /\ messages' = messages \cup {NewMessage(r)}
  /\ lastMessages' = (lastMessages \ {call[r].target}) \cup {Pointer(r)}

CommitMessage(r) ==
  /\ call[r].pc = "commit"
  /\ call[r].friendship = None
  /\ Post(r)
  /\ call' = [call EXCEPT ![r] = [Idle EXCEPT !.pc = "emit",
                                  !.conversation = call[r].conversation]]
  /\ UNCHANGED <<friendships, conversations, clock>>

\* The controller emits 'message.new' once create has returned.
EmitNewMessage(r) ==
  /\ call[r].pc = "emit"
  /\ End(r)
  /\ UNCHANGED <<collections, clock>>

MessagesArrival(r) ==
  \E u \in User, ref \in Ref : FindConversation(r, u, ref)

MessagesStep(r) ==
  \/ CreateMessage(r)
  \/ InsertMessage(r)
  \/ WriteLastMessage(r)
  \/ CommitMessage(r)
  \/ EmitNewMessage(r)
=============================================================================
