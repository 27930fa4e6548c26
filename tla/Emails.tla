-------------------------------- MODULE Emails --------------------------------
(***************************************************************************)
(* Accounts with the queue that carries its e-mails: EmailsService adds a  *)
(* job for each mail, and the one worker of SendEmailProcessor sends them. *)
(*                                                                         *)
(* The queue is BullMQ's, in Redis: it outlives the program.  A job that   *)
(* failed is tried again after a delay, one that was running in a crash is *)
(* put back once, and either way the mail may have gone out before.  A     *)
(* mail is named by its token, and so by the call that queued it.          *)
(***************************************************************************)
EXTENDS Accounts, Sequences

CONSTANT Attempts  \* how often a job is tried

VARIABLES
  waiting,   \* jobs in the order in which the worker takes them
  delayed,   \* failed jobs, until their delay is over
  active,    \* the job the worker is sending, or None
  failures,  \* call -> failed attempts of its job
  stalled,   \* jobs that were put back after a crash
  copies,    \* call -> how many copies of its mail the user has got
  lost       \* history: calls whose mail was given up, or never queued

queueVars == <<waiting, delayed, active, failures, stalled, copies, lost>>
allVars == <<users, tokens, mails, uses, call,
             waiting, delayed, active, failures, stalled, copies, lost>>

ASSUME AttemptsAssumption == Attempts \in Nat \ {0}

Inbox == {r \in Call : copies[r] > 0}

\* The mail of a handler that is stopped before the job is added is never sent.
FailHandler(r) ==
  /\ Fail(r)
  /\ lost' = IF call[r].pc = "mail" THEN lost \cup {r} ELSE lost
  /\ UNCHANGED <<waiting, delayed, active, failures, stalled, copies>>

\* queue.add.
AddJob(r) ==
  /\ SendMail(r)
  /\ waiting' = Append(waiting, r)
  /\ UNCHANGED <<delayed, active, failures, stalled, copies, lost>>

-----------------------------------------------------------------------------
(* The worker *)

TakeJob ==
  /\ active = None /\ waiting # <<>>
  /\ active' = Head(waiting)
  /\ waiting' = Tail(waiting)
  /\ UNCHANGED <<vars, delayed, failures, stalled, copies, lost>>

\* sendMail resolves, and the job is removed.
Deliver ==
  /\ active # None
  /\ copies' = [copies EXCEPT ![active] = @ + 1]
  /\ active' = None
  /\ UNCHANGED <<vars, waiting, delayed, failures, stalled, lost>>

\* Whether the mail of an attempt that did not end well has gone out.
Perhaps == \E n \in {0, 1} : copies' = [copies EXCEPT ![active] = @ + n]

\* Mutant: the job is added without the option attempts, and tried once.
FailDelivery_Once ==
  /\ active # None
  /\ Perhaps
  /\ failures' = [failures EXCEPT ![active] = @ + 1]
  /\ lost' = lost \cup {active}
  /\ active' = None
  /\ UNCHANGED <<vars, waiting, delayed, stalled>>

\* Mutant: one attempt too many.
FailDelivery_OneMore ==
  /\ active # None
  /\ Perhaps
  /\ failures' = [failures EXCEPT ![active] = @ + 1]
  /\ IF failures[active] < Attempts
       THEN delayed' = delayed \cup {active} /\ UNCHANGED lost
       ELSE lost' = lost \cup {active} /\ UNCHANGED delayed
  /\ active' = None
  /\ UNCHANGED <<vars, waiting, stalled>>

\* Mutant: attempts are not counted.
FailDelivery_Uncounted ==
  /\ active # None
  /\ Perhaps
  /\ delayed' = delayed \cup {active}
  /\ active' = None
  /\ UNCHANGED <<vars, waiting, failures, stalled, lost>>

\* sendMail rejects: the job is tried again later, or removed for good.
FailDelivery ==
  /\ active # None
  /\ Perhaps
  /\ failures' = [failures EXCEPT ![active] = @ + 1]
  /\ IF failures[active] + 1 < Attempts
       THEN delayed' = delayed \cup {active} /\ UNCHANGED lost
       ELSE lost' = lost \cup {active} /\ UNCHANGED delayed
  /\ active' = None
  /\ UNCHANGED <<vars, waiting, stalled>>

\* The program stops while a mail is being sent.  When it runs again the job
\* is found stalled, and is put in front; the second time it fails.
Crash ==
  /\ active # None
  /\ Perhaps
  /\ IF active \notin stalled
       THEN waiting' = <<active>> \o waiting /\ UNCHANGED lost
       ELSE lost' = lost \cup {active} /\ UNCHANGED waiting
  /\ stalled' = stalled \cup {active}
  /\ active' = None
  /\ UNCHANGED <<vars, delayed, failures>>

\* Mutant: nothing moves a delayed job on.
Retry_Never(r) == FALSE /\ UNCHANGED allVars

\* The delay of a failed job is over.
Retry(r) ==
  /\ r \in delayed
  /\ delayed' = delayed \ {r}
  /\ waiting' = Append(waiting, r)
  /\ UNCHANGED <<vars, active, failures, stalled, copies, lost>>

-----------------------------------------------------------------------------

EmailsInit ==
  /\ Init
  /\ waiting = <<>>
  /\ delayed = {}
  /\ active = None
  /\ failures = [r \in Call |-> 0]
  /\ stalled = {}
  /\ copies = [r \in Call |-> 0]
  /\ lost = {}

\* The handlers that leave the queue alone.  A link is followed from the inbox.
Handle(r) ==
  /\ \/ \E e \in Email : ValidateUser(r, e) \/ FindUser(r, e)
     \/ \E t \in tokens, type \in TokenType : t.id \in Inbox /\ FindToken(r, t, type)
     \/ InsertUser(r) \/ CommitUser(r)
     \/ DeleteTokens(r) \/ InsertToken(r)
     \/ WriteUser(r) \/ Revoke(r) \/ CommitUse(r)
  /\ UNCHANGED queueVars

EmailsNext ==
  \/ \E r \in Call : Handle(r) \/ AddJob(r) \/ FailHandler(r) \/ Retry(r)
  \/ \E t \in tokens : Expire(t) /\ UNCHANGED queueVars
  \/ TakeJob \/ Deliver \/ FailDelivery \/ Crash

EmailsSpec == EmailsInit /\ [][EmailsNext]_allVars

\* The event loop resumes a handler that is to queue its mail, the worker runs
\* whenever there is a job, sendMail settles, and every delay ends.
EmailsFairness ==
  /\ \A r \in Call : WF_allVars(AddJob(r)) /\ WF_allVars(Retry(r))
  /\ WF_allVars(TakeJob)
  /\ WF_allVars(Deliver \/ FailDelivery)

EmailsFairSpec == EmailsSpec /\ EmailsFairness

-----------------------------------------------------------------------------
(* Properties *)

\* The queue is well typed.
QueueTypeOK ==
  /\ waiting \in Seq(Call)
  /\ delayed \subseteq Call
  /\ active \in Call \cup {None}
  /\ failures \in [Call -> 0 .. Attempts]
  /\ stalled \subseteq Call
  /\ copies \in [Call -> Nat]
  /\ lost \subseteq Call

\* A mail has been given up: all attempts have failed, it was stalled again, or
\* its handler was stopped before it could queue it.
GivenUp(r) == r \in lost /\ (failures[r] \in {0, Attempts} \/ r \in stalled)

\* Where the mail of a call may be once its token is stored.
MailKnown(r) ==
  \/ call[r].pc = "mail"
  \/ \E i \in DOMAIN waiting : waiting[i] = r
  \/ r \in delayed
  \/ r = active
  \/ r \in Inbox
  \/ GivenUp(r)

\* An account that is not active has an activation token that nothing but its
\* use or the clock can stop - no request for another password does - and the
\* mail that carries it has arrived, will be tried, or was given up: after as
\* many failures as there are attempts, and not before, or stalled again, or
\* never queued.
ActivationInReach ==
  \A u \in users :
    u.status = "INACTIVE" =>
      \E t \in tokens :
        /\ t.id = u.id /\ t.user = u.id /\ t.type = "ACTIVATION" /\ t.live
        /\ MailKnown(t.id)

\* A mail is sent again after an attempt that failed or crashed, whether it
\* has gone out or not: each of the attempts, and a stalled one, may have left
\* a copy.
CopiesBounded == \A r \in Call : copies[r] <= Attempts + 1

\* The token that a handler has stored reaches its user by mail, unless the
\* handler failed or the queue has given up.
MailsArrive ==
  \A r \in Call : (\E t \in tokens : t.id = r) ~> (r \in Inbox \cup lost)
=============================================================================
