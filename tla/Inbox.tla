--------------------------------- MODULE Inbox ---------------------------------
(***************************************************************************)
(* ConversationsService.lastConversations beside the calls of Chat, and    *)
(* the clients that page through a user's list of conversations with it.   *)
(*                                                                         *)
(* The list is one lastMessages document for each conversation, the one    *)
(* updated last in front.  A page takes three reads, outside any           *)
(* transaction, and the next page skips what the pages so far have had, so *)
(* messages move entries between the reads and between the pages.          *)
(***************************************************************************)
EXTENDS Chat

CONSTANTS
  Reader,  \* clients that read a list
  Limit    \* entries in a page

VARIABLES
  time,   \* the clock that stamps updated_at
  stamp,  \* call -> the updated_at it has given a lastMessages document, or 0
  view    \* reader -> its request, and what it has been shown

inboxVars == <<time, stamp, view>>
allVars == <<vars, inboxVars>>

ASSUME LimitAssumption == Limit \in Nat \ {0}

View ==
  [pc: {"closed", "next", "entries", "count", "ended"},
   user: User \cup {None},
   skip: Nat,                   \* entries of the pages before
   mine: SUBSET Call,           \* ids of the user's conversations, as read
   page: SUBSET LastMessage,    \* entries of the page, as read
   shown: SUBSET Ref,           \* conversations the reader was shown
   begun: SUBSET LastMessage]   \* history: the list when it began to read

Closed ==
  [pc |-> "closed", user |-> None, skip |-> 0, mine |-> {}, page |-> {}, shown |-> {},
   begun |-> {}]

-----------------------------------------------------------------------------
(* The reads of a page *)

\* The client asks for its first page.
Open(v, u) ==
  /\ view[v].pc = "closed"
  /\ view' = [view EXCEPT ![v] = [Closed EXCEPT !.pc = "next", !.user = u, !.begun = Listed(u)]]

Mine(u) == {c.id : c \in {d \in conversations : u \in d.members}}

FindMine(v) ==
  /\ view[v].pc = "next"
  /\ view' = [view EXCEPT ![v].pc = "entries", ![v].mine = Mine(view[v].user)]

Entries(mine) == {d \in lastMessages : d.conversation \in mine}

\* Mutant: the sort is ascending.
Fronts_Ascending(mine, n) ==
  {F \in SUBSET Entries(mine) :
     /\ Cardinality(F) <= n
     /\ Cardinality(F) < n => F = Entries(mine)
     /\ \A d \in F, e \in Entries(mine) \ F : stamp[e.message] >= stamp[d.message]}

\* The n entries that the sort by updated_at, newest first, may put first.  A
\* document's last update is that of the call whose message it names; of
\* those with one updated_at any may come first.
Fronts(mine, n) ==
  {F \in SUBSET Entries(mine) :
     /\ Cardinality(F) <= n
     /\ Cardinality(F) < n => F = Entries(mine)
     /\ \A d \in F, e \in Entries(mine) \ F : stamp[e.message] <= stamp[d.message]}

\* sort, skip and limit.  The documents named by an entry are there
\* (PointersResolve) and do not change: to populate them takes no step.
FindEntries(v) ==
  /\ view[v].pc = "entries"
  /\ \E F \in Fronts(view[v].mine, view[v].skip),
        G \in Fronts(view[v].mine, view[v].skip + Limit) :
       /\ F \subseteq G
       /\ view' = [view EXCEPT ![v].pc = "count", ![v].page = G \ F]

\* The total is read last, and the page returned.  The client has reached the
\* end when its pages hold as many entries as that.
CountEntries(v) ==
  /\ view[v].pc = "count"
  /\ LET total == Cardinality({d.id : d \in Entries(view[v].mine)})
         skip == view[v].skip + Limit
     IN view' = [view EXCEPT
          ![v].pc = IF skip >= total THEN "ended" ELSE "next",
          ![v].skip = skip,
          ![v].shown = @ \cup {d.conversation : d \in view[v].page},
          ![v].mine = {}, ![v].page = {}]

\* The request fails, and the client asks for the page again.
FailList(v) ==
  /\ view[v].pc \in {"entries", "count"}
  /\ view' = [view EXCEPT ![v].pc = "next", ![v].mine = {}, ![v].page = {}]

-----------------------------------------------------------------------------

InboxInit ==
  /\ Init
  /\ time = 0
  /\ stamp = [r \in Call |-> 0]
  /\ view = [v \in Reader |-> Closed]

\* writeLastMessage has updated_at stamped, perhaps in the millisecond of the
\* stamp before; no other step of a call does.
CallMoves(r) ==
  \/ /\ WriteLastMessage(r)
     /\ time' \in {time, time + 1}
     /\ stamp' = [stamp EXCEPT ![r] = time']
     /\ UNCHANGED view
  \/ /\ Arrival(r) \/ (call[r].pc # "writeLast" /\ Step(r)) \/ Fail(r)
     /\ UNCHANGED inboxVars

ReaderMoves(v) ==
  /\ \/ \E u \in User : Open(v, u)
     \/ FindMine(v) \/ FindEntries(v) \/ CountEntries(v)
     \/ FailList(v)
  /\ UNCHANGED <<vars, time, stamp>>

InboxNext ==
  \/ \E r \in Call : CallMoves(r)
  \/ \E v \in Reader : ReaderMoves(v)

InboxSpec == InboxInit /\ [][InboxNext]_allVars

-----------------------------------------------------------------------------
(* Properties *)

\* Another post in a conversation of u has given its entry the same updated_at.
Tied(d, u) ==
  \E m \in messages :
    m.id # d.message /\ m.conversation \in Mine(u) /\ stamp[m.id] = stamp[d.message]

\* A reader that has paged to the end was shown every conversation that was in
\* the list when it began, but for those that a newer message has moved, of
\* which the event tells it, and those with the time of another one, which the
\* sort may put in another order for each page.  For entries only ever move to
\* the front, so a page may repeat some but skips none; and the total is read
\* after the page, so it is not reached too early.
NothingOverlooked ==
  \A v \in Reader :
    view[v].pc = "ended" =>
      \A d \in view[v].begun \cap lastMessages :
        d.conversation \in view[v].shown \/ Tied(d, view[v].user)
=============================================================================
