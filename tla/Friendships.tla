----------------------------- MODULE Friendships -----------------------------
(***************************************************************************)
(* FriendshipsService: sending a friend request, and accepting or          *)
(* declining one.  Accepting also finds or creates the one-to-one          *)
(* conversation of the two users and posts a notification into it, all in  *)
(* one transaction.                                                        *)
(***************************************************************************)
EXTENDS Messages

\* Mutant: the $or is dropped.
LiveBetween_SameDirection(u, v) ==
  \E f \in friendships :
    /\ f.sender = u /\ f.receiver = v
    /\ f.status # "DECLINED"

\* createRequest: the receiver, found by _id, is a registered user and no
\* friendship of the two, in either direction, is requested or accepted.  This
\* compares the receiver as the request writes it, and so it is stored.
LiveBetween(u, v) ==
  \E f \in friendships :
    /\ {f.sender, f.receiver} = {u, v}
    /\ f.status # "DECLINED"

CheckRequest(r, u, v) ==
  /\ Arrives(r)
  /\ \/ /\ Cast[v] \in User
        /\ ~ LiveBetween(u, v)
        /\ call' = [call EXCEPT
             ![r] = [Idle EXCEPT !.pc = "insertRequest",
                                 !.friendship = [id |-> r, sender |-> u, receiver |-> v,
                                                 status |-> "REQUESTED"]]]
     \/ (Cast[v] \in User => LiveBetween(u, v)) /\ End(r)
  /\ UNCHANGED <<collections, clock>>

\* Mutant: the index leaves declined requests out.
Indexed_Live(f) ==
  \E g \in friendships :
    g.sender = f.sender /\ g.receiver = f.receiver /\ g.status # "DECLINED"

\* The insert.  The unique index on (sender, receiver, deleted_at) refuses a
\* second document for the same ordered pair of strings, whatever its status.
Indexed(f) ==
  \E g \in friendships : g.sender = f.sender /\ g.receiver = f.receiver

InsertRequest(r) ==
  /\ call[r].pc = "insertRequest"
  /\ \/ /\ ~ Indexed(call[r].friendship)
        /\ friendships' = friendships \cup {call[r].friendship}
     \/ /\ Indexed(call[r].friendship)
        /\ UNCHANGED friendships
  /\ End(r)
  /\ UNCHANGED <<conversations, messages, lastMessages, clock>>

\* Mutant: the status is left out of the filter.
FindRequest_AnyStatus(r, u, id, status) ==
  /\ Arrives(r)
  /\ LET found == {f \in friendships : f.id = id /\ f.receiver = u} IN
       \/ \E f \in found :
            call' = [call EXCEPT
              ![r] = [Idle EXCEPT !.pc = "save", !.friendship = f, !.status = status]]
       \/ found = {} /\ End(r)
  /\ UNCHANGED <<collections, clock>>

\* changeRequestStatus: the friendship is loaded, outside the transaction,
\* if the caller is its receiver, as the server prints the caller's id, and it
\* is still requested.
FindRequest(r, u, id, status) ==
  /\ Arrives(r)
  /\ LET found == {f \in friendships :
                     f.id = id /\ f.receiver = u /\ f.status = "REQUESTED"} IN
       \/ \E f \in found :
            call' = [call EXCEPT
              ![r] = [Idle EXCEPT !.pc = "save", !.friendship = f, !.status = status]]
       \/ found = {} /\ End(r)
  /\ UNCHANGED <<collections, clock>>

\* Mutant: save is not given the session.
SaveStatus_OutsideTransaction(r) ==
  /\ call[r].pc = "save"
  /\ friendships' = StatusSaved(call[r].friendship.id, call[r].status)
  /\ call' = [call EXCEPT
       ![r].pc = IF call[r].status = "ACCEPTED" THEN "lookup" ELSE "commit",
       ![r].snapshot = lastMessages]
  /\ UNCHANGED <<conversations, messages, lastMessages, clock>>

\* friendship.save({session}) opens the transaction and writes the status by
\* id: nothing checks the stored status again.  It conflicts only with
\* another open transaction that has saved the same document.
SaveStatus(r) ==
  /\ call[r].pc = "save"
  /\ \/ /\ ~ \E s \in Call \ {r} : HoldsFriendship(s, call[r].friendship.id)
        /\ \/ /\ call[r].status = "ACCEPTED"
              /\ call' = [call EXCEPT ![r].pc = "lookup", ![r].snapshot = lastMessages]
           \/ /\ call[r].status = "DECLINED"
              /\ call' = [call EXCEPT ![r].pc = "commit"]
     \/ /\ \E s \in Call \ {r} : HoldsFriendship(s, call[r].friendship.id)
        /\ End(r)
  /\ UNCHANGED <<collections, clock>>

\* The lookup of the conversation does not pass the session, so it reads what
\* is committed now and not the snapshot.  The conversation to create if
\* there is none stays private until the commit.
PairConversation(r) ==
  [id |-> r, type |-> "ONE_TO_ONE", size |-> 2,
   members |-> {call[r].friendship.sender, call[r].friendship.receiver}]

\* Mutant: the conversation is created without the lookup.
LookupConversation_Creates(r) ==
  /\ call[r].pc = "lookup"
  /\ call' = [call EXCEPT ![r].pc = "createMessage",
                          ![r].conversation = PairConversation(r), ![r].ref = r]
  /\ UNCHANGED <<collections, clock>>

LookupConversation(r) ==
  /\ call[r].pc = "lookup"
  /\ LET f == call[r].friendship
         found == {c \in conversations : IsOneToOneOf(c, f.sender, f.receiver)}
     IN \E c \in (IF found = {} THEN {PairConversation(r)} ELSE found) :
          call' = [call EXCEPT ![r].pc = "createMessage", ![r].conversation = c,
                               ![r].ref = c.id]
  /\ UNCHANGED <<collections, clock>>

CommitDecline(r) ==
  /\ call[r].pc = "commit"
  /\ call[r].status = "DECLINED"
  /\ friendships' = StatusSaved(call[r].friendship.id, "DECLINED")
  /\ End(r)
  /\ UNCHANGED <<conversations, messages, lastMessages, clock>>

CommitAccept(r) ==
  /\ call[r].pc = "commit"
  /\ call[r].status = "ACCEPTED"
  /\ friendships' = StatusSaved(call[r].friendship.id, "ACCEPTED")
  /\ conversations' = conversations \cup {call[r].conversation}
  /\ Post(r)
  /\ End(r)
  /\ UNCHANGED clock

FriendshipsArrival(r) ==
  \/ \E u \in User, v \in Id : CheckRequest(r, u, v)
  \/ \E u \in User, id \in Call, status \in {"ACCEPTED", "DECLINED"} :
       FindRequest(r, u, id, status)

FriendshipsStep(r) ==
  \/ InsertRequest(r)
  \/ SaveStatus(r)
  \/ LookupConversation(r)
  \/ CommitDecline(r)
  \/ CommitAccept(r)

-----------------------------------------------------------------------------
(* What the three lists of a user show, over all pages *)

Friends(u) ==
  {f \in friendships : f.status = "ACCEPTED" /\ u \in {f.sender, f.receiver}}

SentRequests(u) == {f \in friendships : f.status = "REQUESTED" /\ f.sender = u}

ReceivedRequests(u) == {f \in friendships : f.status = "REQUESTED" /\ f.receiver = u}
=============================================================================
