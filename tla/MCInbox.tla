-------------------------------- MODULE MCInbox --------------------------------
(***************************************************************************)
(* Inbox for TLC, in two parts: calls that overlap where they do no harm   *)
(* (Apart), and a reader beside calls that come one by one.  Calls and     *)
(* users are interchangeable.                                              *)
(***************************************************************************)
EXTENDS Inbox, MCIds, TLC

CONSTANT Early  \* the calls of the first part, and those before the reader begins

VARIABLE raced   \* history: two calls have overlapped

Symmetry == Permutations(Early) \cup Permutations(User)

Quiet == \A v \in Reader : view[v].pc = "closed"

OnlyEarly == \A r \in Call \ Early : call[r].pc = "idle"

\* The list is sorted by updated_at: whether two messages have one created_at
\* makes no difference to its reader.
Ticks ==
  \A r \in Call :
    call[r].pc = "createMessage" /\ call'[r].pc = "insertMessage" => clock' # clock

\* It begins when there is more in the list than fits on a page.
SeveralPages == \A v \in Reader : Cardinality(view[v].begun) > Limit \/ view[v].pc = "closed"

MCInit == InboxInit /\ raced = FALSE

MCNext ==
  /\ InboxNext
  /\ raced' = (raced \/ Cardinality(InFlight') > 1)
  /\ Quiet' => OnlyEarly'
  /\ raced' => Quiet' /\ Apart'
  /\ ~ raced' => Ticks /\ SeveralPages'

MCSpec == MCInit /\ [][MCNext]_<<allVars, raced>>
=============================================================================
