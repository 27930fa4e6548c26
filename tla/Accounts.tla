------------------------------- MODULE Accounts -------------------------------
(***************************************************************************)
(* AuthService, TokenService and UsersService as far as they keep accounts:*)
(* registering, activating an account, asking for a new password and       *)
(* setting it.                                                             *)
(*                                                                         *)
(* A user knows a token from the e-mail that carries it; only its hash is  *)
(* stored.  As in ChatStore, a document is named by the call that inserts  *)
(* it, and other calls run at every await.                                 *)
(***************************************************************************)
EXTENDS Naturals, FiniteSets

CONSTANTS
  Email,       \* addresses
  Call,        \* API calls, also the ids of the documents they insert
  None,        \* null
  MaxInFlight  \* bound: calls whose handlers may be running at once

VARIABLES
  users,   \* collection 'users'
  tokens,  \* collection 'tokens'
  mails,   \* ids of the tokens handed to the e-mail queue
  uses,    \* history: <<call, token id>> of the committed uses of tokens
  call     \* call -> position and local variables of its handler

vars == <<users, tokens, mails, uses, call>>

TokenType == {"ACTIVATION", "FORGOT_PASSWORD"}

\* The password is known by the call that set it.
User == [id: Call, email: Email, status: {"INACTIVE", "ACTIVE"}, password: Call]

\* live is deleted_at = null; expired is expiresAt < now.
Token == [id: Call, user: Call, type: TokenType, live: BOOLEAN, expired: BOOLEAN]

ASSUME NoneAssumption ==
  None \notin Email /\ None \notin Call /\ None \notin TokenType

ASSUME BoundAssumption == MaxInFlight \in Nat

Pc == {"idle", "insertUser", "commitUser", "deleteTokens", "insertToken", "mail",
       "writeUser", "revoke", "commitUse", "ended"}

CallState ==
  [pc: Pc,
   email: Email \cup {None},     \* address to register
   user: Call \cup {None},       \* user the handler has found
   token: Call \cup {None},      \* token the client has sent
   type: TokenType \cup {None},  \* and its type
   sees: BOOLEAN,                \* the snapshot shows that token alive
   holds: BOOLEAN]               \* the transaction has deleted it

Idle == [pc |-> "idle", email |-> None, user |-> None, token |-> None,
         type |-> None, sees |-> FALSE, holds |-> FALSE]

InFlight == {r \in Call : call[r].pc \notin {"idle", "ended"}}

Arrives(r) ==
  /\ call[r].pc = "idle"
  /\ Cardinality(InFlight) < MaxInFlight

End(r) == call' = [call EXCEPT ![r] = [Idle EXCEPT !.pc = "ended"]]

\* A database or queue error, a timeout or a crash stops a handler at an
\* await; an open transaction is aborted.
Fail(r) ==
  /\ r \in InFlight
  /\ End(r)
  /\ UNCHANGED <<users, tokens, mails, uses>>

\* The clock passes the time at which a token expires.
Expire(t) ==
  /\ t \in tokens /\ ~ t.expired
  /\ tokens' = (tokens \ {t}) \cup {[t EXCEPT !.expired = TRUE]}
  /\ UNCHANGED <<users, mails, uses, call>>

-----------------------------------------------------------------------------
(* register *)

\* UsersService.validate: inside the transaction but without its session.
ValidateUser(r, e) ==
  /\ Arrives(r)
  /\ \/ /\ \A u \in users : u.email # e
        /\ call' = [call EXCEPT ![r] = [Idle EXCEPT !.pc = "insertUser", !.email = e]]
     \/ (\E u \in users : u.email = e) /\ End(r)
  /\ UNCHANGED <<users, tokens, mails, uses>>

\* Mutant: the index is not unique.
EmailTaken_NoIndex(r, e) == FALSE

\* The insert of the user, under the unique index on (email, deleted_at): an
\* address stored by now, or written by another open transaction, aborts it.
EmailTaken(r, e) ==
  \/ \E u \in users : u.email = e
  \/ \E s \in Call \ {r} : call[s].pc = "commitUser" /\ call[s].email = e

\* Mutant: register queues the e-mail as a step of its transaction.
InsertUser_Mails(r) ==
  /\ call[r].pc = "insertUser"
  /\ IF EmailTaken(r, call[r].email)
       THEN End(r) /\ UNCHANGED mails
       ELSE /\ mails' = mails \cup {r}
            /\ call' = [call EXCEPT ![r].pc = "commitUser"]
  /\ UNCHANGED <<users, tokens, uses>>

InsertUser(r) ==
  /\ call[r].pc = "insertUser"
  /\ \/ /\ ~ EmailTaken(r, call[r].email)
        /\ call' = [call EXCEPT ![r].pc = "commitUser"]
     \/ EmailTaken(r, call[r].email) /\ End(r)
  /\ UNCHANGED <<users, tokens, mails, uses>>

\* Mutant: the two first arguments of TokenService.create are swapped.
NewToken_Swapped(r, user, type) ==
  [id |-> r, user |-> type, type |-> user, live |-> TRUE, expired |-> FALSE]

\* TokenService.create.
NewToken(r, user, type) ==
  [id |-> r, user |-> user, type |-> type, live |-> TRUE, expired |-> FALSE]

\* createActivationToken deletes nothing, as the user is new, and inserts the
\* token; then the transaction commits both.
CommitUser(r) ==
  /\ call[r].pc = "commitUser"
  /\ users' = users \cup
       {[id |-> r, email |-> call[r].email, status |-> "INACTIVE", password |-> r]}
  /\ tokens' = tokens \cup {NewToken(r, r, "ACTIVATION")}
  /\ call' = [call EXCEPT ![r] = [Idle EXCEPT !.pc = "mail"]]
  /\ UNCHANGED <<mails, uses>>

\* EmailsService: a job with the link, which names the token, is added to the
\* queue.  What the queue does with it is not part of this module.
QueueMail(token) == mails' = mails \cup {token}

\* The e-mail is queued after the commit, by register and by
\* createForgotPasswordRequest alike.
SendMail(r) ==
  /\ call[r].pc = "mail"
  /\ QueueMail(r)
  /\ End(r)
  /\ UNCHANGED <<users, tokens, uses>>

-----------------------------------------------------------------------------
(* createForgotPasswordRequest *)

FindUser(r, e) ==
  /\ Arrives(r)
  /\ \/ \E u \in users :
          /\ u.email = e
          /\ call' = [call EXCEPT ![r] = [Idle EXCEPT !.pc = "deleteTokens", !.user = u.id]]
     \/ (\A u \in users : u.email # e) /\ End(r)
  /\ UNCHANGED <<users, tokens, mails, uses>>

ForgotTokens(user) ==
  {t \in tokens : t.user = user /\ t.type = "FORGOT_PASSWORD" /\ t.live}

\* Tokens that an open transaction has deleted.
Held == {call[s].token : s \in {q \in Call : call[q].holds}}

\* Mutant: the earlier tokens stay alive.
DeleteTokens_Keeps(r) ==
  /\ call[r].pc = "deleteTokens"
  /\ call' = [call EXCEPT ![r].pc = "insertToken"]
  /\ UNCHANGED <<users, tokens, mails, uses>>

\* deleteAllTokensByType runs here without a session: it is no transaction,
\* and waits for the end of one that has written a token it matches.
DeleteTokens(r) ==
  /\ call[r].pc = "deleteTokens"
  /\ \A t \in ForgotTokens(call[r].user) : t.id \notin Held
  /\ tokens' = (tokens \ ForgotTokens(call[r].user)) \cup
       {[t EXCEPT !.live = FALSE] : t \in ForgotTokens(call[r].user)}
  /\ call' = [call EXCEPT ![r].pc = "insertToken"]
  /\ UNCHANGED <<users, mails, uses>>

InsertToken(r) ==
  /\ call[r].pc = "insertToken"
  /\ tokens' = tokens \cup {NewToken(r, call[r].user, "FORGOT_PASSWORD")}
  /\ call' = [call EXCEPT ![r] = [Idle EXCEPT !.pc = "mail"]]
  /\ UNCHANGED <<users, mails, uses>>

-----------------------------------------------------------------------------
(* activate and resetPassword *)

\* Mutant: the filter on deleted_at is missing.
FindToken_Deleted(r, t, type) ==
  /\ Arrives(r)
  /\ t.id \in mails
  /\ IF ~ t.expired /\ t.type = type
       THEN call' = [call EXCEPT ![r] = [Idle EXCEPT !.pc = "writeUser",
                       !.user = t.user, !.token = t.id, !.type = type]]
       ELSE End(r)
  /\ UNCHANGED <<users, tokens, mails, uses>>

\* TokenService.isTokenValid, for a token that its user got by e-mail.  A
\* client may send the ids of any token, but not the value of an unsent one.
FindToken(r, t, type) ==
  /\ Arrives(r)
  /\ t.id \in mails
  /\ IF t.live /\ ~ t.expired /\ t.type = type
       THEN call' = [call EXCEPT ![r] = [Idle EXCEPT !.pc = "writeUser",
                       !.user = t.user, !.token = t.id, !.type = type]]
       ELSE End(r)
  /\ UNCHANGED <<users, tokens, mails, uses>>

LiveToken(id) == \E t \in tokens : t.id = id /\ t.live

\* What the transaction writes to the user: the status or the password.
UsersAfter(r) ==
  {IF u.id # call[r].user THEN u
   ELSE IF call[r].type = "ACTIVATION" THEN [u EXCEPT !.status = "ACTIVE"]
   ELSE [u EXCEPT !.password = r] : u \in users}

\* Another open transaction has written the user.
UserHeld(r) ==
  \E s \in Call \ {r} :
    call[s].pc \in {"revoke", "commitUse"} /\ call[s].user = call[r].user

\* Mutant: the user is updated without the session.
WriteUser_OutsideTransaction(r) ==
  /\ call[r].pc = "writeUser"
  /\ IF UserHeld(r)
       THEN End(r) /\ UNCHANGED users
       ELSE /\ users' = UsersAfter(r)
            /\ call' = [call EXCEPT ![r].pc = "revoke",
                                    ![r].sees = LiveToken(call[r].token)]
  /\ UNCHANGED <<tokens, mails, uses>>

\* Updating the user is the first operation of the transaction and takes its
\* snapshot.  A write conflict aborts it.
WriteUser(r) ==
  /\ call[r].pc = "writeUser"
  /\ IF UserHeld(r)
       THEN End(r)
       ELSE call' = [call EXCEPT ![r].pc = "revoke",
                                 ![r].sees = LiveToken(call[r].token)]
  /\ UNCHANGED <<users, tokens, mails, uses>>

\* revokeToken does not look at what it finds: a token already deleted in the
\* snapshot is no error.  One deleted since then is a write conflict.  (No
\* other open transaction holds the token: it would hold its user as well.)
Revoke(r) ==
  /\ call[r].pc = "revoke"
  /\ IF call[r].sees /\ ~ LiveToken(call[r].token)
       THEN End(r)
       ELSE call' = [call EXCEPT ![r].pc = "commitUse", ![r].holds = call[r].sees]
  /\ UNCHANGED <<users, tokens, mails, uses>>

\* Mutant: revokeToken matches the tokens of the user, of both types.
CommitUse_ByUser(r) ==
  /\ call[r].pc = "commitUse"
  /\ users' = UsersAfter(r)
  /\ tokens' = {IF t.user = call[r].user THEN [t EXCEPT !.live = FALSE] ELSE t :
                  t \in tokens}
  /\ uses' = uses \cup {<<r, call[r].token>>}
  /\ End(r)
  /\ UNCHANGED mails

CommitUse(r) ==
  /\ call[r].pc = "commitUse"
  /\ users' = UsersAfter(r)
  /\ tokens' = {IF t.id = call[r].token THEN [t EXCEPT !.live = FALSE] ELSE t :
                  t \in tokens}
  /\ uses' = uses \cup {<<r, call[r].token>>}
  /\ End(r)
  /\ UNCHANGED mails

-----------------------------------------------------------------------------

Init ==
  /\ users = {}
  /\ tokens = {}
  /\ mails = {}
  /\ uses = {}
  /\ call = [r \in Call |-> Idle]

Next ==
  \/ \E r \in Call :
       \/ \E e \in Email : ValidateUser(r, e) \/ FindUser(r, e)
       \/ \E t \in tokens, type \in TokenType : FindToken(r, t, type)
       \/ InsertUser(r)
       \/ CommitUser(r)
       \/ SendMail(r)
       \/ DeleteTokens(r)
       \/ InsertToken(r)
       \/ WriteUser(r)
       \/ Revoke(r)
       \/ CommitUse(r)
       \/ Fail(r)
  \/ \E t \in tokens : Expire(t)

Spec == Init /\ [][Next]_vars

-----------------------------------------------------------------------------
(* Properties, for any number of calls in flight *)

\* Documents and handlers are well typed.
TypeOK ==
  /\ users \subseteq User
  /\ tokens \subseteq Token
  /\ mails \subseteq Call
  /\ uses \subseteq Call \X Call
  /\ call \in [Call -> CallState]

\* The check in UsersService.validate races with the insert; the unique index
\* on (email, deleted_at) still keeps each address to one user.
EmailUnique ==
  \A u, v \in users : u.email = v.email => u = v

\* A mailed link names a stored token of a stored user: the e-mail is queued
\* only after the transaction of register has committed both.
MailedTokensStored ==
  \A m \in mails : \E t \in tokens, u \in users : t.id = m /\ t.user = u.id

\* An account is active, or has another password than the registered one,
\* only by a committed use of a mailed token of that user and type, and that
\* token is dead: the change and the revocation commit together.
AccountsChangeByToken ==
  \A u \in users :
    /\ u.status = "ACTIVE" =>
         \E t \in tokens :
           /\ t.user = u.id /\ t.type = "ACTIVATION" /\ t.id \in mails /\ ~ t.live
           /\ \E r \in Call : <<r, t.id>> \in uses
    /\ u.password # u.id =>
         \E t \in tokens :
           /\ t.user = u.id /\ t.type = "FORGOT_PASSWORD" /\ t.id \in mails /\ ~ t.live
           /\ <<u.password, t.id>> \in uses

\* The link that carries a token.
Link(t) == [id |-> t.id, user |-> t.user, type |-> t.type]

Service == INSTANCE AccountService WITH
  accounts <- users,
  links <- {Link(t) : t \in tokens},
  working <- {Link(t) : t \in {w \in tokens : w.live /\ ~ w.expired}}

\* register, activate and resetPassword change the account and its link in one
\* step or not at all, and a link that has stopped working never works again.
ImplementsService == Service!Spec

-----------------------------------------------------------------------------
(* Properties the code keeps unless certain handlers overlap *)

\* createForgotPasswordToken deletes all previous forgot-password tokens, so
\* a user has at most one that works.
OneLiveForgotToken ==
  \A t, w \in tokens :
    /\ t.user = w.user
    /\ t.type = "FORGOT_PASSWORD" /\ w.type = "FORGOT_PASSWORD"
    /\ t.live /\ w.live
    => t = w

\* activate and resetPassword revoke the token they were called with, so it
\* serves one call only.
TokenUsedOnce ==
  \A p, q \in uses : p[2] = q[2] => p = q

-----------------------------------------------------------------------------
(* Which overlaps do harm: the states in which a handler is about to write  *)
(* what another one has read before and will not read again.                *)

\* No use of a token is about to be committed while another handler has found
\* the token alive and not begun its transaction.  (Two open transactions
\* conflict at the user.)
UsesApart ==
  \A r, s \in Call :
    call[r].pc = "writeUser" /\ call[s].pc = "commitUse" =>
      call[r].token # call[s].token

\* No two handlers have deleted the forgot-password tokens of one user and are
\* about to store a new one.
ForgotApart ==
  \A r, s \in Call :
    /\ call[r].pc = "insertToken" /\ call[s].pc = "insertToken"
    /\ call[r].user = call[s].user
    => r = s
=============================================================================
