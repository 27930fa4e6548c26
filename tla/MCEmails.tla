------------------------------- MODULE MCEmails -------------------------------
(***************************************************************************)
(* Emails for TLC, in two parts: calls that overlap where they do no harm, *)
(* with mails that arrive, and calls that come one by one while mails fail *)
(* and the server crashes.  Calls are interchangeable until they arrive,   *)
(* so it is enough that they arrive in order; a symmetry set would not be  *)
(* sound for the liveness property.                                        *)
(***************************************************************************)
EXTENDS Emails

VARIABLE raced   \* history: two calls have overlapped

InOrder ==
  \A r, s \in Call : r < s /\ call[s].pc # "idle" => call[r].pc # "idle"

NothingFailed == lost = {} /\ stalled = {} /\ \A r \in Call : failures[r] = 0

MCInit == EmailsInit /\ raced = FALSE

MCNext ==
  /\ EmailsNext
  /\ raced' = (raced \/ Cardinality(InFlight') > 1)
  /\ InOrder'
  /\ raced' => UsesApart' /\ ForgotApart' /\ NothingFailed'

MCSpec == MCInit /\ [][MCNext]_<<allVars, raced>> /\ EmailsFairness
=============================================================================
