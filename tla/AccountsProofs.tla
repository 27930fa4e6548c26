---------------------------- MODULE AccountsProofs ----------------------------
(***************************************************************************)
(* Proofs about Accounts, for any addresses, any number of calls and any   *)
(* number of them in flight.                                               *)
(***************************************************************************)
EXTENDS Accounts, FiniteSetTheorems, TLAPS

-----------------------------------------------------------------------------
(* The inductive invariant *)

\* An open register transaction that has inserted its user is the only one
\* with that address, and no stored user has it.
EmailOK ==
  \A r \in Call :
    /\ call[r].pc \in {"insertUser", "commitUser"} => call[r].email \in Email
    /\ call[r].pc = "commitUser" =>
         /\ \A u \in users : u.email # call[r].email
         /\ \A s \in Call \ {r} :
              call[s].pc = "commitUser" => call[s].email # call[r].email

\* What a handler knows of its user and its token.  A transaction that does
\* not hold its token works with a dead one.
HandlerOK(r) ==
  /\ call[r].pc = "mail" => \E t \in tokens : t.id = r
  /\ call[r].pc \in {"deleteTokens", "insertToken"} =>
       \E u \in users : u.id = call[r].user
  /\ call[r].pc \in {"writeUser", "revoke", "commitUse"} =>
       /\ call[r].token \in mails
       /\ \E t \in tokens :
            /\ t.id = call[r].token
            /\ t.user = call[r].user
            /\ t.type = call[r].type
  /\ call[r].pc = "revoke" /\ ~ call[r].sees => ~ LiveToken(call[r].token)
  /\ call[r].pc = "commitUse" /\ ~ call[r].holds => ~ LiveToken(call[r].token)

\* A mailed token is stored, and the call that mailed it has ended.
MailsOK ==
  \A m \in mails : call[m].pc = "ended" /\ \E t \in tokens : t.id = m

TokensOK == \A t \in tokens : \E u \in users : u.id = t.user

IInv ==
  /\ TypeOK
  /\ EmailOK
  /\ \A r \in Call : HandlerOK(r)
  /\ MailsOK
  /\ TokensOK
  /\ EmailUnique
  /\ AccountsChangeByToken

-----------------------------------------------------------------------------
(* What a step does to the documents *)

\* No token disappears, changes its user or type, or comes back to life.
TokensKept ==
  \A t \in tokens : \E w \in tokens' :
    w.id = t.id /\ w.user = t.user /\ w.type = t.type /\ (~ t.live => ~ w.live)

\* What lives after the step has lived before it or was not mailed yet.
NoneRevived ==
  \A w \in tokens' : w.live =>
    w.id \notin mails \/ \E t \in tokens : t.id = w.id /\ t.live

UsersKept == \A u \in users : \E v \in users' : v.id = u.id

\* The two halves of AccountsChangeByToken, for one user.
ActiveByToken(u) ==
  u.status = "ACTIVE" =>
    \E t \in tokens :
      /\ t.user = u.id /\ t.type = "ACTIVATION" /\ t.id \in mails /\ ~ t.live
      /\ \E r \in Call : <<r, t.id>> \in uses

PasswordByToken(u) ==
  u.password # u.id =>
    \E t \in tokens :
      /\ t.user = u.id /\ t.type = "FORGOT_PASSWORD" /\ t.id \in mails /\ ~ t.live
      /\ <<u.password, t.id>> \in uses

LEMMA ByToken ==
  AccountsChangeByToken <=> \A u \in users : ActiveByToken(u) /\ PasswordByToken(u)
BY DEF AccountsChangeByToken, ActiveByToken, PasswordByToken

\* What tokens and uses say of a user stays true of it.
LEMMA UserKept ==
  ASSUME NEW u, ActiveByToken(u), PasswordByToken(u),
         TokensKept, mails \subseteq mails', uses \subseteq uses'
  PROVE  ActiveByToken(u)' /\ PasswordByToken(u)'
<1>1. ASSUME NEW t \in tokens, ~ t.live
      PROVE  \E w \in tokens' :
               w.id = t.id /\ w.user = t.user /\ w.type = t.type /\ ~ w.live
  BY <1>1 DEF TokensKept
<1>2. ActiveByToken(u)'
  BY <1>1 DEF ActiveByToken
<1>3. PasswordByToken(u)'
  BY <1>1 DEF PasswordByToken
<1> QED BY <1>2, <1>3

LEMMA ChangesKept ==
  ASSUME AccountsChangeByToken, TokensKept, mails \subseteq mails', uses \subseteq uses',
         \A u \in users' : u \in users \/ (u.status # "ACTIVE" /\ u.password = u.id)
  PROVE  AccountsChangeByToken'
<1>1. \A u \in users : ActiveByToken(u)' /\ PasswordByToken(u)'
  BY ByToken, UserKept
<1>2. \A u : u.status # "ACTIVE" /\ u.password = u.id
              => ActiveByToken(u)' /\ PasswordByToken(u)'
  BY DEF ActiveByToken, PasswordByToken
<1> QED BY <1>1, <1>2 DEF AccountsChangeByToken, ActiveByToken, PasswordByToken

\* A handler that takes no step still knows what it knew.
LEMMA OthersKept ==
  ASSUME IInv, NEW s \in Call, call'[s] = call[s],
         TokensKept, NoneRevived, UsersKept, mails \subseteq mails'
  PROVE  HandlerOK(s)'
<1>1. HandlerOK(s)
  BY DEF IInv
<1>2. call'[s].pc = "mail" => \E t \in tokens' : t.id = s
  BY <1>1 DEF HandlerOK, TokensKept
<1>3. call'[s].pc \in {"deleteTokens", "insertToken"} =>
        \E u \in users' : u.id = call'[s].user
  BY <1>1 DEF HandlerOK, UsersKept
<1>4. ASSUME call[s].pc \in {"writeUser", "revoke", "commitUse"}
      PROVE  /\ call'[s].token \in mails'
             /\ \E t \in tokens' :
                  t.id = call'[s].token /\ t.user = call'[s].user /\ t.type = call'[s].type
             /\ ~ LiveToken(call[s].token) =>
                  ~ \E x \in tokens' : x.id = call'[s].token /\ x.live
  <2>1. PICK t \in tokens :
          t.id = call[s].token /\ t.user = call[s].user /\ t.type = call[s].type
    BY <1>1, <1>4 DEF HandlerOK
  <2>2. PICK w \in tokens' : w.id = t.id /\ w.user = t.user /\ w.type = t.type
    BY DEF TokensKept
  <2>3. call[s].token \in mails
    BY <1>1, <1>4 DEF HandlerOK
  <2>4. ~ LiveToken(call[s].token) => ~ \E x \in tokens' : x.id = call'[s].token /\ x.live
    BY <2>3 DEF LiveToken, NoneRevived
  <2> QED BY <2>1, <2>2, <2>3, <2>4
<1> QED BY <1>1, <1>2, <1>3, <1>4 DEF HandlerOK, LiveToken

-----------------------------------------------------------------------------
(* What a step does to the calls *)

\* Only the handler of r moves, and it has not ended.
OnlyMoves(r) ==
  /\ call[r].pc = "ended" => call' = call
  /\ \A s \in Call \ {r} : call'[s] = call[s]

LEMMA EmailKept ==
  ASSUME IInv, NEW r \in Call, OnlyMoves(r),
         call'[r].pc \notin {"insertUser", "commitUser"},
         \A v \in users' : \E u \in users : u.email = v.email
  PROVE  EmailOK'
<1>1. EmailOK
  BY DEF IInv
<1>2. \A s \in Call : call'[s].pc \in {"insertUser", "commitUser"} =>
        s # r /\ call'[s] = call[s]
  BY DEF OnlyMoves
<1> QED BY <1>1, <1>2 DEF EmailOK

\* The parts of the invariant that follow from how the documents change.
LEMMA StepKept ==
  ASSUME IInv, NEW r \in Call, OnlyMoves(r), HandlerOK(r)',
         TypeOK', EmailOK', EmailUnique', AccountsChangeByToken',
         TokensKept, NoneRevived, UsersKept, mails \subseteq mails',
         \A m \in mails' \ mails : call'[m].pc = "ended" /\ \E t \in tokens' : t.id = m,
         \A w \in tokens' :
           \/ \E t \in tokens : t.user = w.user
           \/ \E u \in users' : u.id = w.user
  PROVE  IInv'
<1>1. \A s \in Call : HandlerOK(s)'
  BY OthersKept DEF OnlyMoves
<1>2. MailsOK'
  <2> SUFFICES ASSUME NEW m \in mails
               PROVE  call'[m].pc = "ended" /\ \E t \in tokens' : t.id = m
    BY DEF MailsOK
  <2>1. call[m].pc = "ended" /\ m \in Call
    BY DEF IInv, MailsOK, TypeOK
  <2>2. call'[m] = call[m]
    BY <2>1 DEF OnlyMoves
  <2>3. PICK t \in tokens : t.id = m
    BY DEF IInv, MailsOK
  <2> QED BY <2>1, <2>2, <2>3 DEF TokensKept
<1>3. TokensOK'
  <2> SUFFICES ASSUME NEW w \in tokens', NEW t \in tokens, t.user = w.user
               PROVE  \E v \in users' : v.id = w.user
    BY DEF TokensOK
  <2>1. PICK u \in users : u.id = t.user
    BY DEF IInv, TokensOK
  <2> QED BY <2>1 DEF UsersKept
<1> QED BY <1>1, <1>2, <1>3 DEF IInv

\* A step that changes no document.
LEMMA LocalStep ==
  ASSUME IInv, NEW r \in Call, OnlyMoves(r), UNCHANGED <<users, tokens, mails, uses>>,
         call' \in [Call -> CallState], EmailOK', HandlerOK(r)'
  PROVE  IInv'
<1>1. TypeOK' /\ EmailUnique'
  BY DEF IInv, TypeOK, EmailUnique
<1>2. TokensKept /\ NoneRevived /\ UsersKept
  BY DEF TokensKept, NoneRevived, UsersKept
<1>3. AccountsChangeByToken'
  BY <1>2, ChangesKept DEF IInv
<1> QED BY <1>1, <1>2, <1>3, StepKept

\* A handler that ends without a write.
LEMMA EndStep ==
  ASSUME IInv, NEW r \in Call, call[r].pc # "ended", End(r),
         UNCHANGED <<users, tokens, mails, uses>>
  PROVE  IInv'
<1>1. OnlyMoves(r) /\ call'[r] = [Idle EXCEPT !.pc = "ended"]
      /\ call' \in [Call -> CallState]
  BY DEF IInv, TypeOK, End, OnlyMoves, Idle, CallState, Pc
<1>2. call'[r].pc = "ended"
  BY <1>1 DEF Idle
<1>3. EmailOK'
  BY <1>1, <1>2, EmailKept
<1>4. HandlerOK(r)'
  BY <1>2 DEF HandlerOK
<1> QED BY <1>1, <1>3, <1>4, LocalStep

-----------------------------------------------------------------------------
(* register *)

LEMMA ValidateUserStep ==
  ASSUME IInv, NEW r \in Call, NEW e \in Email, ValidateUser(r, e)
  PROVE  IInv'
<1>1. call[r].pc = "idle" /\ UNCHANGED <<users, tokens, mails, uses>>
  BY DEF ValidateUser, Arrives
<1>2. CASE End(r)
  BY <1>1, <1>2, EndStep
<1>3. CASE call' = [call EXCEPT ![r] = [Idle EXCEPT !.pc = "insertUser", !.email = e]]
  <2>1. OnlyMoves(r) /\ call' \in [Call -> CallState]
    BY <1>1, <1>3 DEF IInv, TypeOK, OnlyMoves, Idle, CallState, Pc
  <2>2. call'[r].pc = "insertUser" /\ call'[r].email = e
    BY <1>3 DEF IInv, TypeOK, Idle
  <2>3. EmailOK'
    BY <1>1, <2>1, <2>2 DEF IInv, EmailOK, OnlyMoves
  <2>4. HandlerOK(r)'
    BY <2>2 DEF HandlerOK
  <2> QED BY <1>1, <2>1, <2>3, <2>4, LocalStep
<1> QED BY <1>2, <1>3 DEF ValidateUser

LEMMA InsertUserStep ==
  ASSUME IInv, NEW r \in Call, InsertUser(r)
  PROVE  IInv'
<1>1. call[r].pc = "insertUser" /\ UNCHANGED <<users, tokens, mails, uses>>
  BY DEF InsertUser
<1>2. CASE End(r)
  BY <1>1, <1>2, EndStep
<1>3. CASE ~ EmailTaken(r, call[r].email) /\ call' = [call EXCEPT ![r].pc = "commitUser"]
  <2>1. OnlyMoves(r) /\ call' \in [Call -> CallState]
    BY <1>1, <1>3 DEF IInv, TypeOK, OnlyMoves, CallState, Pc
  <2>2. call'[r].pc = "commitUser" /\ call'[r].email = call[r].email
    BY <1>3 DEF IInv, TypeOK, CallState
  <2>3. EmailOK'
    BY <1>1, <1>3, <2>1, <2>2 DEF IInv, EmailOK, OnlyMoves, EmailTaken
  <2>4. HandlerOK(r)'
    BY <2>2 DEF HandlerOK
  <2> QED BY <1>1, <2>1, <2>3, <2>4, LocalStep
<1> QED BY <1>2, <1>3 DEF InsertUser

LEMMA CommitUserStep ==
  ASSUME IInv, NEW r \in Call, CommitUser(r)
  PROVE  IInv'
<1> DEFINE new == [id |-> r, email |-> call[r].email, status |-> "INACTIVE", password |-> r]
           token == NewToken(r, r, "ACTIVATION")
<1>1. /\ call[r].pc = "commitUser"
      /\ users' = users \cup {new}
      /\ tokens' = tokens \cup {token}
      /\ UNCHANGED <<mails, uses>>
  BY DEF CommitUser
<1>2. OnlyMoves(r) /\ call' \in [Call -> CallState] /\ call'[r].pc = "mail"
  BY <1>1, NoneAssumption DEF CommitUser, IInv, TypeOK, OnlyMoves, Idle, CallState, Pc
<1>3. call[r].email \in Email /\ \A u \in users : u.email # call[r].email
  BY <1>1 DEF IInv, EmailOK
<1>4. new \in User /\ new.id = r /\ new.status # "ACTIVE" /\ new.password = r
       /\ new.email = call[r].email
  BY <1>3 DEF User
<1>5. token \in Token /\ token.id = r /\ token.user = r
  BY DEF NewToken, Token, TokenType
<1> HIDE DEF new, token
<1>6. TypeOK'
  BY <1>1, <1>2, <1>4, <1>5 DEF IInv, TypeOK
<1>7. EmailUnique'
  BY <1>1, <1>3, <1>4 DEF IInv, EmailUnique
<1>8. EmailOK'
  <2>1. \A s \in Call : call'[s].pc \in {"insertUser", "commitUser"} =>
          s # r /\ call'[s] = call[s]
    BY <1>2 DEF OnlyMoves
  <2>2. \A s \in Call \ {r} : call[s].pc = "commitUser" => call[s].email # call[r].email
    BY <1>1 DEF IInv, EmailOK
  <2> QED BY <1>1, <1>4, <2>1, <2>2 DEF IInv, EmailOK
<1>9. r \notin mails
  BY <1>1 DEF IInv, MailsOK
<1>10. TokensKept /\ NoneRevived /\ UsersKept
  BY <1>1, <1>9, <1>5 DEF TokensKept, NoneRevived, UsersKept
<1>11. AccountsChangeByToken'
  BY <1>1, <1>10, <1>4, ChangesKept DEF IInv
<1>12. HandlerOK(r)'
  BY <1>1, <1>2, <1>5 DEF HandlerOK
<1>13. \A w \in tokens' :
         (\E t \in tokens : t.user = w.user) \/ (\E u \in users' : u.id = w.user)
  BY <1>1, <1>4, <1>5
<1> QED BY <1>1, <1>2, <1>6, <1>7, <1>8, <1>10, <1>11, <1>12, <1>13, StepKept

LEMMA SendMailStep ==
  ASSUME IInv, NEW r \in Call, SendMail(r)
  PROVE  IInv'
<1>1. /\ call[r].pc = "mail"
      /\ mails' = mails \cup {r}
      /\ UNCHANGED <<users, tokens, uses>>
  BY DEF SendMail, QueueMail
<1>2. OnlyMoves(r) /\ call' \in [Call -> CallState] /\ call'[r].pc = "ended"
  BY <1>1 DEF SendMail, QueueMail, End, IInv, TypeOK, OnlyMoves, Idle, CallState, Pc
<1>3. \E t \in tokens : t.id = r
  BY <1>1 DEF IInv, HandlerOK
<1>4. TypeOK' /\ EmailUnique'
  BY <1>1, <1>2 DEF IInv, TypeOK, EmailUnique
<1>5. EmailOK'
  BY <1>1, <1>2, EmailKept
<1>6. TokensKept /\ NoneRevived /\ UsersKept
  BY <1>1 DEF TokensKept, NoneRevived, UsersKept
<1>7. AccountsChangeByToken'
  BY <1>1, <1>6, ChangesKept DEF IInv
<1>8. HandlerOK(r)'
  BY <1>2 DEF HandlerOK
<1> QED BY <1>1, <1>2, <1>3, <1>4, <1>5, <1>6, <1>7, <1>8, StepKept

-----------------------------------------------------------------------------
(* createForgotPasswordRequest *)

LEMMA FindUserStep ==
  ASSUME IInv, NEW r \in Call, NEW e \in Email, FindUser(r, e)
  PROVE  IInv'
<1>1. call[r].pc = "idle" /\ UNCHANGED <<users, tokens, mails, uses>>
  BY DEF FindUser, Arrives
<1>2. CASE End(r)
  BY <1>1, <1>2, EndStep
<1>3. ASSUME NEW u \in users,
             call' = [call EXCEPT ![r] = [Idle EXCEPT !.pc = "deleteTokens", !.user = u.id]]
      PROVE  IInv'
  <2>1. OnlyMoves(r) /\ call' \in [Call -> CallState]
    BY <1>1, <1>3 DEF IInv, TypeOK, User, OnlyMoves, Idle, CallState, Pc
  <2>2. call'[r].pc = "deleteTokens" /\ call'[r].user = u.id
    BY <1>3 DEF IInv, TypeOK, Idle
  <2>3. EmailOK'
    BY <1>1, <2>1, <2>2, EmailKept
  <2>4. HandlerOK(r)'
    BY <1>1, <2>2 DEF HandlerOK
  <2> QED BY <1>1, <2>1, <2>3, <2>4, LocalStep
<1> QED BY <1>2, <1>3 DEF FindUser

LEMMA DeleteTokensStep ==
  ASSUME IInv, NEW r \in Call, DeleteTokens(r)
  PROVE  IInv'
<1> DEFINE dead == ForgotTokens(call[r].user)
<1>1. /\ call[r].pc = "deleteTokens"
      /\ tokens' = (tokens \ dead) \cup {[t EXCEPT !.live = FALSE] : t \in dead}
      /\ UNCHANGED <<users, mails, uses>>
  BY DEF DeleteTokens
<1>2. OnlyMoves(r) /\ call' \in [Call -> CallState]
      /\ call'[r].pc = "insertToken" /\ call'[r].user = call[r].user
  BY <1>1 DEF DeleteTokens, IInv, TypeOK, OnlyMoves, CallState, Pc
<1>3. dead \subseteq tokens /\ tokens \subseteq Token
  BY DEF ForgotTokens, IInv, TypeOK
<1> HIDE DEF dead
<1>4. \A t \in dead : LET w == [t EXCEPT !.live = FALSE] IN
        w \in Token /\ w.id = t.id /\ w.user = t.user /\ w.type = t.type /\ ~ w.live
  BY <1>3 DEF Token
<1>5. TypeOK' /\ EmailUnique'
  BY <1>1, <1>2, <1>3, <1>4 DEF IInv, TypeOK, EmailUnique
<1>6. EmailOK'
  BY <1>1, <1>2, EmailKept
<1>7. TokensKept
  <2> SUFFICES ASSUME NEW t \in tokens
               PROVE  \E w \in tokens' :
                        /\ w.id = t.id /\ w.user = t.user /\ w.type = t.type
                        /\ ~ t.live => ~ w.live
    BY DEF TokensKept
  <2>1. CASE t \in dead
    BY <1>1, <1>4, <2>1
  <2>2. CASE t \notin dead
    BY <1>1, <2>2
  <2> QED BY <2>1, <2>2
<1>8. NoneRevived /\ UsersKept
  BY <1>1, <1>3, <1>4 DEF NoneRevived, UsersKept
<1>9. AccountsChangeByToken'
  BY <1>1, <1>7, ChangesKept DEF IInv
<1>10. HandlerOK(r)'
  BY <1>1, <1>2 DEF HandlerOK, IInv
<1>11. \A w \in tokens' : \E t \in tokens : t.user = w.user
  BY <1>1, <1>3, <1>4
<1> QED BY <1>1, <1>2, <1>5, <1>6, <1>7, <1>8, <1>9, <1>10, <1>11, StepKept

LEMMA InsertTokenStep ==
  ASSUME IInv, NEW r \in Call, InsertToken(r)
  PROVE  IInv'
<1> DEFINE new == NewToken(r, call[r].user, "FORGOT_PASSWORD")
<1>1. /\ call[r].pc = "insertToken"
      /\ tokens' = tokens \cup {new}
      /\ UNCHANGED <<users, mails, uses>>
  BY DEF InsertToken
<1>2. OnlyMoves(r) /\ call' \in [Call -> CallState] /\ call'[r].pc = "mail"
  BY <1>1 DEF InsertToken, IInv, TypeOK, OnlyMoves, Idle, CallState, Pc
<1>3. PICK u \in users : u.id = call[r].user
  BY <1>1 DEF IInv, HandlerOK
<1>4. new \in Token /\ new.id = r /\ new.user = u.id
  BY <1>3 DEF IInv, TypeOK, User, Token, TokenType, NewToken
<1> HIDE DEF new
<1>5. TypeOK' /\ EmailUnique'
  BY <1>1, <1>2, <1>4 DEF IInv, TypeOK, EmailUnique
<1>6. EmailOK'
  BY <1>1, <1>2, EmailKept
<1>7. r \notin mails
  BY <1>1 DEF IInv, MailsOK
<1>8. TokensKept /\ NoneRevived /\ UsersKept
  BY <1>1, <1>4, <1>7 DEF TokensKept, NoneRevived, UsersKept
<1>9. AccountsChangeByToken'
  BY <1>1, <1>8, ChangesKept DEF IInv
<1>10. HandlerOK(r)'
  BY <1>1, <1>2, <1>4 DEF HandlerOK
<1> QED BY <1>1, <1>2, <1>3, <1>4, <1>5, <1>6, <1>8, <1>9, <1>10, StepKept

-----------------------------------------------------------------------------
(* activate and resetPassword *)

LEMMA FindTokenStep ==
  ASSUME IInv, NEW r \in Call, NEW t \in tokens, NEW type \in TokenType,
         FindToken(r, t, type)
  PROVE  IInv'
<1>1. call[r].pc = "idle" /\ t.id \in mails /\ UNCHANGED <<users, tokens, mails, uses>>
  BY DEF FindToken, Arrives
<1>2. CASE End(r)
  BY <1>1, <1>2, EndStep
<1>3. CASE /\ t.type = type
           /\ call' = [call EXCEPT ![r] = [Idle EXCEPT !.pc = "writeUser",
                         !.user = t.user, !.token = t.id, !.type = type]]
  <2>1. OnlyMoves(r) /\ call' \in [Call -> CallState]
    BY <1>1, <1>3 DEF IInv, TypeOK, Token, OnlyMoves, Idle, CallState, Pc
  <2>2. /\ call'[r].pc = "writeUser" /\ call'[r].token = t.id
        /\ call'[r].user = t.user /\ call'[r].type = t.type
    BY <1>3 DEF IInv, TypeOK, Idle
  <2>3. EmailOK'
    BY <1>1, <2>1, <2>2, EmailKept
  <2>4. HandlerOK(r)'
    BY <1>1, <2>2 DEF HandlerOK
  <2> QED BY <1>1, <2>1, <2>3, <2>4, LocalStep
<1> QED BY <1>2, <1>3 DEF FindToken

LEMMA WriteUserStep ==
  ASSUME IInv, NEW r \in Call, WriteUser(r)
  PROVE  IInv'
<1>1. call[r].pc = "writeUser" /\ UNCHANGED <<users, tokens, mails, uses>>
  BY DEF WriteUser
<1>2. CASE End(r)
  BY <1>1, <1>2, EndStep
<1>3. CASE call' = [call EXCEPT ![r].pc = "revoke",
                                ![r].sees = LiveToken(call[r].token)]
  <2>1. LiveToken(call[r].token) \in BOOLEAN
    BY DEF LiveToken
  <2>2. OnlyMoves(r) /\ call' \in [Call -> CallState]
    BY <1>1, <1>3, <2>1 DEF IInv, TypeOK, OnlyMoves, CallState, Pc
  <2>3. /\ call'[r].pc = "revoke" /\ call'[r].sees = LiveToken(call[r].token)
        /\ call'[r].token = call[r].token /\ call'[r].user = call[r].user
        /\ call'[r].type = call[r].type
    BY <1>3 DEF IInv, TypeOK, CallState
  <2>4. EmailOK'
    BY <1>1, <2>2, <2>3, EmailKept
  <2>5. HandlerOK(r)'
    BY <1>1, <2>3 DEF HandlerOK, LiveToken, IInv
  <2> QED BY <1>1, <2>2, <2>4, <2>5, LocalStep
<1> QED BY <1>2, <1>3 DEF WriteUser

LEMMA RevokeStep ==
  ASSUME IInv, NEW r \in Call, Revoke(r)
  PROVE  IInv'
<1>1. call[r].pc = "revoke" /\ UNCHANGED <<users, tokens, mails, uses>>
  BY DEF Revoke
<1>2. CASE End(r)
  BY <1>1, <1>2, EndStep
<1>3. CASE call' = [call EXCEPT ![r].pc = "commitUse", ![r].holds = call[r].sees]
  <2>1. OnlyMoves(r) /\ call' \in [Call -> CallState]
    BY <1>1, <1>3 DEF IInv, TypeOK, OnlyMoves, CallState, Pc
  <2>2. /\ call'[r].pc = "commitUse" /\ call'[r].holds = call[r].sees
        /\ call'[r].token = call[r].token /\ call'[r].user = call[r].user
        /\ call'[r].type = call[r].type
    BY <1>3 DEF IInv, TypeOK, CallState
  <2>3. EmailOK'
    BY <1>1, <2>1, <2>2, EmailKept
  <2>4. HandlerOK(r)'
    BY <1>1, <2>2 DEF HandlerOK, LiveToken, IInv
  <2> QED BY <1>1, <2>1, <2>3, <2>4, LocalStep
<1> QED BY <1>2, <1>3 DEF Revoke

\* The commit changes one user and kills its token, and records the use of a
\* token of that user and of the right type.
LEMMA CommitUseStep ==
  ASSUME IInv, NEW r \in Call, CommitUse(r)
  PROVE  IInv'
<1> DEFINE After(u) == IF u.id # call[r].user THEN u
                       ELSE IF call[r].type = "ACTIVATION" THEN [u EXCEPT !.status = "ACTIVE"]
                       ELSE [u EXCEPT !.password = r]
           Kill(t) == IF t.id = call[r].token THEN [t EXCEPT !.live = FALSE] ELSE t
<1>1. /\ call[r].pc = "commitUse"
      /\ users' = {After(u) : u \in users}
      /\ tokens' = {Kill(t) : t \in tokens}
      /\ uses' = uses \cup {<<r, call[r].token>>}
      /\ UNCHANGED mails
  BY DEF CommitUse, UsersAfter
<1>2. OnlyMoves(r) /\ call' \in [Call -> CallState] /\ call'[r].pc = "ended"
  BY <1>1 DEF CommitUse, End, IInv, TypeOK, OnlyMoves, Idle, CallState, Pc
<1>3. \A t \in tokens :
        /\ Kill(t) \in Token
        /\ Kill(t).id = t.id /\ Kill(t).user = t.user /\ Kill(t).type = t.type
        /\ Kill(t).live => t.live /\ t.id # call[r].token
  BY DEF IInv, TypeOK, Token
<1>4. \A u \in users :
        /\ After(u) \in User /\ After(u).id = u.id /\ After(u).email = u.email
        /\ After(u).status = "ACTIVE" =>
             u.status = "ACTIVE" \/ (u.id = call[r].user /\ call[r].type = "ACTIVATION")
        /\ \/ After(u).password = u.password
           \/ /\ u.id = call[r].user /\ call[r].type # "ACTIVATION"
              /\ After(u).password = r
  BY DEF IInv, TypeOK, User
<1> HIDE DEF After, Kill
<1>5. PICK t \in tokens :
        t.id = call[r].token /\ t.user = call[r].user /\ t.type = call[r].type
  BY <1>1 DEF IInv, HandlerOK
<1>6. call[r].token \in mails
  BY <1>1 DEF IInv, HandlerOK
<1>7. TypeOK'
  <2>1. call[r].token \in Call
    BY <1>6 DEF IInv, TypeOK
  <2> QED BY <1>1, <1>2, <1>3, <1>4, <2>1 DEF IInv, TypeOK
<1>8. EmailUnique'
  BY <1>1, <1>4 DEF IInv, EmailUnique
<1>9. EmailOK'
  BY <1>1, <1>2, <1>4, EmailKept
<1>10. TokensKept /\ NoneRevived /\ UsersKept
  BY <1>1, <1>3, <1>4 DEF TokensKept, NoneRevived, UsersKept
<1>11. Kill(t) \in tokens' /\ ~ Kill(t).live /\ <<r, Kill(t).id>> \in uses'
  BY <1>1, <1>3, <1>5
<1>12. ASSUME NEW u \in users, NEW v, v = After(u)
       PROVE  ActiveByToken(v)' /\ PasswordByToken(v)'
  <2>1. ActiveByToken(u)' /\ PasswordByToken(u)'
    BY <1>1, <1>10, ByToken, UserKept DEF IInv
  <2>2. ActiveByToken(v)'
    <3>1. CASE u.status = "ACTIVE"
      BY <1>4, <1>12, <2>1, <3>1 DEF ActiveByToken
    <3>2. CASE u.id = call[r].user /\ call[r].type = "ACTIVATION"
      BY <1>1, <1>3, <1>4, <1>5, <1>6, <1>11, <1>12, <3>2 DEF ActiveByToken
    <3> QED BY <1>4, <1>12, <3>1, <3>2 DEF ActiveByToken
  <2>3. PasswordByToken(v)'
    <3>1. CASE v.password = u.password
      BY <1>4, <1>12, <2>1, <3>1 DEF PasswordByToken
    <3>2. CASE u.id = call[r].user /\ call[r].type # "ACTIVATION" /\ v.password = r
      <4>1. Kill(t).type = "FORGOT_PASSWORD"
        BY <1>3, <1>5, <3>2 DEF Token, TokenType
      <4> QED BY <1>1, <1>3, <1>4, <1>5, <1>6, <1>11, <1>12, <3>2, <4>1
              DEF PasswordByToken
    <3> QED BY <1>4, <1>12, <3>1, <3>2
  <2> QED BY <2>2, <2>3
<1>13. AccountsChangeByToken'
  BY <1>1, <1>12 DEF AccountsChangeByToken, ActiveByToken, PasswordByToken
<1>14. HandlerOK(r)'
  BY <1>2 DEF HandlerOK
<1>15. \A w \in tokens' : \E x \in tokens : x.user = w.user
  BY <1>1, <1>3
<1> QED BY <1>1, <1>2, <1>7, <1>8, <1>9, <1>10, <1>13, <1>14, <1>15, StepKept

-----------------------------------------------------------------------------
(* Failures and time *)

LEMMA FailStep ==
  ASSUME IInv, NEW r \in Call, Fail(r)
  PROVE  IInv'
BY EndStep DEF Fail, InFlight

LEMMA ExpireStep ==
  ASSUME IInv, NEW t \in tokens, Expire(t)
  PROVE  IInv'
<1> DEFINE w == [t EXCEPT !.expired = TRUE]
<1>1. tokens' = (tokens \ {t}) \cup {w} /\ UNCHANGED <<users, mails, uses, call>>
  BY DEF Expire
<1>2. /\ t \in Token /\ w \in Token
      /\ w.id = t.id /\ w.user = t.user /\ w.type = t.type /\ w.live = t.live
  BY DEF IInv, TypeOK, Token
<1> HIDE DEF w
<1>3. TypeOK' /\ EmailUnique' /\ EmailOK'
  BY <1>1, <1>2 DEF IInv, TypeOK, EmailUnique, EmailOK
<1>4. TokensKept /\ NoneRevived /\ UsersKept
  BY <1>1, <1>2 DEF TokensKept, NoneRevived, UsersKept
<1>5. AccountsChangeByToken'
  BY <1>1, <1>4, ChangesKept DEF IInv
<1>6. t.id \in Call /\ OnlyMoves(t.id)
  BY <1>1, <1>2 DEF OnlyMoves, Token
<1>7. HandlerOK(t.id)'
  BY <1>1, <1>4, <1>6, OthersKept
<1>8. \A x \in tokens' : \E y \in tokens : y.user = x.user
  BY <1>1, <1>2
<1> QED BY <1>1, <1>3, <1>4, <1>5, <1>6, <1>7, <1>8, StepKept

-----------------------------------------------------------------------------
(* The refinement of AccountService *)

\* A call that has not stored its documents yet has none.
Fresh ==
  \A r \in Call :
    call[r].pc \in {"idle", "insertUser", "commitUser", "deleteTokens", "insertToken"} =>
      /\ \A t \in tokens : t.id # r
      /\ call[r].pc \in {"idle", "insertUser", "commitUser"} => \A u \in users : u.id # r

\* A step that adds no document keeps the others fresh.
LEMMA FreshKept ==
  ASSUME Fresh, NEW r \in Call, \A s \in Call \ {r} : call'[s] = call[s],
         \/ call'[r].pc \notin {"idle", "insertUser", "commitUser", "deleteTokens", "insertToken"}
         \/ /\ call[r].pc = "idle" /\ UNCHANGED <<users, tokens>>
         \/ /\ call[r].pc \in {"insertUser", "deleteTokens"}
            /\ call'[r].pc \in {"commitUser", "insertToken"}
            /\ call'[r].pc = "commitUser" => call[r].pc = "insertUser",
         \A t \in tokens' : t.id = r \/ \E w \in tokens : w.id = t.id,
         call[r].pc \in {"insertUser", "deleteTokens"} =>
           \A t \in tokens' : \E w \in tokens : w.id = t.id,
         \A u \in users' : \/ u.id = r /\ call'[r].pc \notin {"idle", "insertUser", "commitUser"}
                           \/ \E v \in users : v.id = u.id
  PROVE  Fresh'
<1> SUFFICES ASSUME NEW s \in Call,
                    call'[s].pc \in {"idle", "insertUser", "commitUser", "deleteTokens", "insertToken"}
             PROVE  /\ \A t \in tokens' : t.id # s
                    /\ call'[s].pc \in {"idle", "insertUser", "commitUser"} => \A u \in users' : u.id # s
  BY DEF Fresh
<1>1. CASE s # r
  BY <1>1 DEF Fresh
<1>2. CASE s = r
  BY <1>2 DEF Fresh
<1> QED BY <1>1, <1>2

LEMMA FreshStep ==
  ASSUME IInv, Fresh, [Next]_vars
  PROVE  Fresh'
<1>1. call \in [Call -> CallState]
  BY DEF IInv, TypeOK
<1> USE DEF CallState, Idle
<1>2. ASSUME NEW r \in Call, NEW e \in Email, ValidateUser(r, e) \/ FindUser(r, e)
      PROVE  Fresh'
  <2>1. call[r].pc = "idle" /\ UNCHANGED <<users, tokens>>
        /\ \A s \in Call \ {r} : call'[s] = call[s]
    BY <1>1, <1>2 DEF ValidateUser, FindUser, Arrives, End
  <2> QED BY <2>1, FreshKept
<1>3. ASSUME NEW r \in Call, NEW t \in tokens, NEW type \in TokenType, FindToken(r, t, type)
      PROVE  Fresh'
  <2>1. call[r].pc = "idle" /\ UNCHANGED <<users, tokens>>
        /\ \A s \in Call \ {r} : call'[s] = call[s]
    BY <1>1, <1>3 DEF FindToken, Arrives, End
  <2> QED BY <2>1, FreshKept
<1>4. ASSUME NEW r \in Call, InsertUser(r)
      PROVE  Fresh'
  <2>1. UNCHANGED <<users, tokens>> /\ \A s \in Call \ {r} : call'[s] = call[s]
    BY <1>1, <1>4 DEF InsertUser, End
  <2>2. call[r].pc = "insertUser" /\ call'[r].pc \in {"commitUser", "ended"}
    BY <1>1, <1>4 DEF InsertUser, End
  <2> QED BY <2>1, <2>2, FreshKept
<1>5. ASSUME NEW r \in Call, CommitUser(r)
      PROVE  Fresh'
  <2>1. /\ call'[r].pc = "mail" /\ \A s \in Call \ {r} : call'[s] = call[s]
        /\ call[r].pc = "commitUser"
    BY <1>1, <1>5 DEF CommitUser
  <2>2. /\ \A t \in tokens' : t.id = r \/ t \in tokens
        /\ \A u \in users' : u.id = r \/ u \in users
    BY <1>5 DEF CommitUser, NewToken
  <2> QED BY <2>1, <2>2, FreshKept
<1>6. ASSUME NEW r \in Call, SendMail(r) \/ WriteUser(r) \/ Revoke(r) \/ Fail(r)
      PROVE  Fresh'
  <2>1. /\ call'[r].pc \in {"ended", "revoke", "commitUse"} /\ UNCHANGED <<users, tokens>>
        /\ \A s \in Call \ {r} : call'[s] = call[s]
    BY <1>1, <1>6 DEF SendMail, WriteUser, Revoke, Fail, End
  <2> QED BY <2>1, FreshKept
<1>7. ASSUME NEW r \in Call, DeleteTokens(r)
      PROVE  Fresh'
  <2>1. /\ call[r].pc = "deleteTokens" /\ call'[r].pc = "insertToken" /\ UNCHANGED users
        /\ \A s \in Call \ {r} : call'[s] = call[s]
    BY <1>1, <1>7 DEF DeleteTokens
  <2>2. \A t \in tokens' : \E w \in tokens : w.id = t.id
    <3> SUFFICES ASSUME NEW t \in ForgotTokens(call[r].user)
                 PROVE  t \in tokens /\ [t EXCEPT !.live = FALSE].id = t.id
      BY <1>7 DEF DeleteTokens
    <3>1. t \in tokens /\ t \in Token
      BY DEF ForgotTokens, IInv, TypeOK
    <3> QED BY <3>1 DEF Token
  <2> QED BY <2>1, <2>2, FreshKept
<1>8. ASSUME NEW r \in Call, InsertToken(r)
      PROVE  Fresh'
  <2>1. /\ call'[r].pc = "mail" /\ UNCHANGED users /\ call[r].pc = "insertToken"
        /\ \A s \in Call \ {r} : call'[s] = call[s]
    BY <1>1, <1>8 DEF InsertToken
  <2>2. \A t \in tokens' : t.id = r \/ t \in tokens
    BY <1>8 DEF InsertToken, NewToken
  <2> QED BY <2>1, <2>2, FreshKept
<1>9. ASSUME NEW r \in Call, CommitUse(r)
      PROVE  Fresh'
  <2>1. /\ call'[r].pc = "ended" /\ call[r].pc = "commitUse"
        /\ \A s \in Call \ {r} : call'[s] = call[s]
    BY <1>1, <1>9 DEF CommitUse, End
  <2>2. \A t \in tokens' : \E w \in tokens : w.id = t.id
    BY <1>9 DEF CommitUse, IInv, TypeOK, Token
  <2>3. \A u \in users' : \E v \in users : v.id = u.id
    BY <1>9 DEF CommitUse, UsersAfter, IInv, TypeOK, User
  <2> QED BY <2>1, <2>2, <2>3, FreshKept
<1>10. ASSUME NEW t \in tokens, Expire(t)
       PROVE  Fresh'
  <2>1. UNCHANGED <<users, call>> /\ \A w \in tokens' : \E x \in tokens : x.id = w.id
    BY <1>10 DEF Expire, IInv, TypeOK, Token
  <2> QED BY <2>1 DEF Fresh
<1>11. CASE UNCHANGED vars
  BY <1>11 DEF vars, Fresh
<1> QED BY <1>2, <1>3, <1>4, <1>5, <1>6, <1>7, <1>8, <1>9, <1>10, <1>11 DEF Next

Links == {Link(t) : t \in tokens}
Working == {Link(t) : t \in {w \in tokens : w.live /\ ~ w.expired}}

\* A step that changes no record but live and expired keeps the links.
LEMMA LinksKept ==
  ASSUME \A t \in tokens' : \E w \in tokens : Link(w) = Link(t),
         \A t \in tokens : \E w \in tokens' : Link(w) = Link(t)
  PROVE  Links' = Links
<1>1. Links' = {Link(t) : t \in tokens'}
  BY DEF Links, Link
<1> QED BY <1>1 DEF Links

LEMMA DeleteTokensRefines ==
  ASSUME IInv, NEW r \in Call, DeleteTokens(r)
  PROVE  \E user \in Call : Service!Withdraw(user)
<1> DEFINE F == ForgotTokens(call[r].user)
<1>1. tokens \subseteq Token
  BY DEF IInv, TypeOK
<1>2. \A t \in F : t \in tokens /\ Link([t EXCEPT !.live = FALSE]) = Link(t)
                   /\ [t EXCEPT !.live = FALSE].live = FALSE
  BY <1>1 DEF ForgotTokens, Token, Link
<1>3. tokens' = (tokens \ F) \cup {[t EXCEPT !.live = FALSE] : t \in F}
  BY DEF DeleteTokens
<1>4. Links' = Links
  <2>1. \A t \in tokens' : \E w \in tokens : Link(w) = Link(t)
    BY <1>2, <1>3
  <2>2. \A t \in tokens : \E w \in tokens' : Link(w) = Link(t)
    BY <1>2, <1>3
  <2> QED BY <2>1, <2>2, LinksKept
<1>5. Working' = {l \in Working : ~ (l.user = call[r].user /\ l.type = "FORGOT_PASSWORD")}
  <2>1. \A t \in tokens' : t.live => t \in tokens \ F
    BY <1>2, <1>3
  <2>2. \A t \in tokens : t.live =>
          (t \in F <=> Link(t).user = call[r].user /\ Link(t).type = "FORGOT_PASSWORD")
    BY DEF ForgotTokens, Link
  <2>3. \A t \in tokens \ F : t \in tokens'
    BY <1>3
  <2> HIDE DEF F
  <2> QED BY <2>1, <2>2, <2>3 DEF Working
<1>6. \E u \in users : u.id = call[r].user
  BY DEF DeleteTokens, IInv, HandlerOK
<1>7. PICK user \in Call : user = call[r].user
  BY <1>6 DEF IInv, TypeOK, User
<1>8. Service!Withdraw(user)
  BY <1>4, <1>5, <1>7 DEF Service!Withdraw, DeleteTokens, Links, Working
<1> QED BY <1>8

LEMMA CommitUseRefines ==
  ASSUME IInv, NEW r \in Call, CommitUse(r)
  PROVE  \E l \in Links : Service!Use(r, l)
<1>1. PICK t \in tokens :
        t.id = call[r].token /\ t.user = call[r].user /\ t.type = call[r].type
  BY DEF CommitUse, IInv, HandlerOK
<1>2. Link(t) \in Links
  BY DEF Links
<1>3. users' = {Service!Changed(u, r, Link(t)) : u \in users}
  BY <1>1 DEF CommitUse, UsersAfter, Service!Changed, Link
<1>4. tokens \subseteq Token
  BY DEF IInv, TypeOK
<1>5. tokens' = {IF w.id = t.id THEN [w EXCEPT !.live = FALSE] ELSE w : w \in tokens}
  BY <1>1 DEF CommitUse
<1>6. \A w \in tokens : /\ Link([w EXCEPT !.live = FALSE]) = Link(w)
                        /\ [w EXCEPT !.live = FALSE].live = FALSE
  BY <1>4 DEF Token, Link
<1>7. Links' = Links
  <2>1. \A x \in tokens' : \E w \in tokens : Link(w) = Link(x)
    BY <1>5, <1>6
  <2>2. \A w \in tokens : \E x \in tokens' : Link(w) = Link(x)
    BY <1>5, <1>6
  <2> QED BY <2>1, <2>2, LinksKept
<1>8. Working' = {m \in Working : m.id # Link(t).id}
  <2>1. \A x \in tokens' : x.live => x \in tokens /\ x.id # t.id
    BY <1>5, <1>6
  <2>2. \A x \in tokens : x.id # t.id => x \in tokens'
    BY <1>5
  <2>3. \A x : Link(x).id = x.id
    BY DEF Link
  <2> QED BY <2>1, <2>2, <2>3 DEF Working
<1> QED BY <1>2, <1>3, <1>7, <1>8 DEF Service!Use, Links, Working

LEMMA ExpireRefines ==
  ASSUME IInv, NEW t \in tokens, Expire(t)
  PROVE  \/ UNCHANGED <<users, Links, Working>>
         \/ \E l \in Working : Service!Lapse(l)
<1> DEFINE x == [t EXCEPT !.expired = TRUE]
<1>1. Link(x) = Link(t) /\ x.expired
  BY DEF IInv, TypeOK, Token, Link
<1>2. tokens' = (tokens \ {t}) \cup {x} /\ UNCHANGED users
  BY DEF Expire
<1> HIDE DEF x
<1>3. Links' = Links
  BY <1>1, <1>2, LinksKept
<1>4. Working' \subseteq Working
  BY <1>1, <1>2 DEF Working
<1>5. \A l \in Working : l # Link(t) => l \in Working'
  BY <1>1, <1>2 DEF Working
<1>6. CASE Link(t) \in Working
  <2>1. Working' = Working \/ Working' = Working \ {Link(t)}
    BY <1>4, <1>5
  <2> QED BY <1>2, <1>3, <1>6, <2>1 DEF Service!Lapse, Links, Working
<1>7. CASE Link(t) \notin Working
  BY <1>2, <1>3, <1>4, <1>5, <1>7
<1> QED BY <1>6, <1>7

LEMMA CommitUserRefines ==
  ASSUME IInv, Fresh, NEW r \in Call, CommitUser(r)
  PROVE  \E e \in Email : Service!Register(r, e)
<1>1. PICK e \in Email : e = call[r].email
  BY DEF CommitUser, IInv, EmailOK
<1>2. /\ \A u \in users : u.email # e /\ u.id # r
      /\ \A t \in tokens : t.id # r
  BY <1>1 DEF CommitUser, IInv, EmailOK, Fresh
<1>3. PICK t : t = NewToken(r, r, "ACTIVATION")
  OBVIOUS
<1>4. tokens' = tokens \cup {t} /\ Link(t) = [id |-> r, user |-> r, type |-> "ACTIVATION"]
      /\ t.live /\ ~ t.expired
  BY <1>3 DEF CommitUser, NewToken, Link
<1>5. Links' = Links \cup {Link(t)} /\ Working' = Working \cup {Link(t)}
  BY <1>4 DEF Links, Working
<1>6. \A m \in Links : m.id # r
  BY <1>2 DEF Links, Link
<1> QED BY <1>1, <1>2, <1>4, <1>5, <1>6
       DEF Service!Register, Service!Offered, CommitUser, Links, Working

LEMMA InsertTokenRefines ==
  ASSUME IInv, Fresh, NEW r \in Call, InsertToken(r)
  PROVE  \E u \in users : Service!Offer(r, u)
<1>1. PICK u \in users : u.id = call[r].user
  BY DEF InsertToken, IInv, HandlerOK
<1>2. \A t \in tokens : t.id # r
  BY DEF InsertToken, Fresh
<1>3. PICK t : t = NewToken(r, u.id, "FORGOT_PASSWORD")
  OBVIOUS
<1>4. tokens' = tokens \cup {t} /\ Link(t) = [id |-> r, user |-> u.id, type |-> "FORGOT_PASSWORD"]
      /\ t.live /\ ~ t.expired
  BY <1>1, <1>3 DEF InsertToken, NewToken, Link
<1>5. Links' = Links \cup {Link(t)} /\ Working' = Working \cup {Link(t)}
  BY <1>4 DEF Links, Working
<1>6. \A m \in Links : m.id # r
  BY <1>2 DEF Links, Link
<1> QED BY <1>4, <1>5, <1>6
       DEF Service!Offer, Service!Offered, InsertToken, Links, Working

\* Every step is a step of AccountService or leaves accounts and links alone.
LEMMA StepRefines ==
  ASSUME IInv, Fresh, [Next]_vars
  PROVE  [Service!Next]_(Service!vars)
<1>1. CASE UNCHANGED <<users, tokens>>
  BY <1>1 DEF Service!vars
<1>2. ASSUME NEW r \in Call, CommitUser(r)
      PROVE  Service!Next
  <2>1. PICK e \in Email : Service!Register(r, e)
    BY <1>2, CommitUserRefines
  <2> QED BY <2>1 DEF Service!Next
<1>3. ASSUME NEW r \in Call, InsertToken(r)
      PROVE  Service!Next
  <2>1. PICK u \in users : Service!Offer(r, u)
    BY <1>3, InsertTokenRefines
  <2> QED BY <2>1 DEF Service!Next
<1>4. ASSUME NEW r \in Call, DeleteTokens(r)
      PROVE  Service!Next
  <2>1. PICK u \in Call : Service!Withdraw(u)
    BY <1>4, DeleteTokensRefines
  <2> QED BY <2>1 DEF Service!Next
<1>5. ASSUME NEW r \in Call, CommitUse(r)
      PROVE  Service!Next
  <2>1. PICK l \in Links : Service!Use(r, l)
    BY <1>5, CommitUseRefines
  <2> QED BY <2>1 DEF Service!Next, Links
<1>6. ASSUME NEW t \in tokens, Expire(t)
      PROVE  [Service!Next]_(Service!vars)
  BY <1>6, ExpireRefines DEF Service!Next, Service!vars, Links, Working
<1> QED BY <1>1, <1>2, <1>3, <1>4, <1>5, <1>6
        DEF Next, vars, ValidateUser, FindUser, FindToken, InsertUser, SendMail, WriteUser,
            Revoke, Fail

-----------------------------------------------------------------------------
(* The theorems *)

\* The invariant holds in every state, whatever interleaves or fails.
THEOREM AccountsInvariance == Spec => []IInv
<1>1. Init => IInv
  BY DEF Init, IInv, TypeOK, EmailOK, HandlerOK, MailsOK, TokensOK, EmailUnique,
         AccountsChangeByToken, Idle, CallState, Pc
<1>2. IInv /\ [Next]_vars => IInv'
  <2> SUFFICES ASSUME IInv, [Next]_vars
               PROVE  IInv'
    OBVIOUS
  <2>1. ASSUME NEW r \in Call,
               \/ \E e \in Email : ValidateUser(r, e) \/ FindUser(r, e)
               \/ \E t \in tokens, type \in TokenType : FindToken(r, t, type)
        PROVE  IInv'
    BY <2>1, ValidateUserStep, FindUserStep, FindTokenStep
  <2>2. ASSUME NEW r \in Call,
               \/ InsertUser(r) \/ CommitUser(r) \/ SendMail(r)
               \/ DeleteTokens(r) \/ InsertToken(r)
               \/ WriteUser(r) \/ Revoke(r) \/ CommitUse(r)
               \/ Fail(r)
        PROVE  IInv'
    BY <2>2, InsertUserStep, CommitUserStep, SendMailStep, DeleteTokensStep,
       InsertTokenStep, WriteUserStep, RevokeStep, CommitUseStep, FailStep
  <2>3. ASSUME NEW t \in tokens, Expire(t)
        PROVE  IInv'
    BY <2>3, ExpireStep
  <2>4. CASE UNCHANGED vars
    <3>1. (\A r \in Call : HandlerOK(r))'
      BY <2>4 DEF vars, IInv, HandlerOK, LiveToken
    <3>2. TypeOK' /\ EmailOK' /\ MailsOK' /\ TokensOK' /\ EmailUnique'
      BY <2>4 DEF vars, IInv, TypeOK, EmailOK, MailsOK, TokensOK, EmailUnique
    <3>3. AccountsChangeByToken'
      BY <2>4 DEF vars, IInv, AccountsChangeByToken
    <3> QED BY <3>1, <3>2, <3>3 DEF IInv
  <2> QED BY <2>1, <2>2, <2>3, <2>4 DEF Next
<1> QED BY <1>1, <1>2, PTL DEF Spec

\* UsersService, TokenService: documents and handlers are well typed.
THEOREM AccountsTypeCorrect == Spec => []TypeOK
<1>1. IInv => TypeOK
  BY DEF IInv
<1> QED BY <1>1, AccountsInvariance, PTL

\* register: an address never has two users.
THEOREM EmailsAreUnique == Spec => []EmailUnique
<1>1. IInv => EmailUnique
  BY DEF IInv
<1> QED BY <1>1, AccountsInvariance, PTL

\* register, createForgotPasswordRequest: a link is mailed after the commit.
THEOREM MailedLinksResolve == Spec => []MailedTokensStored
<1>1. IInv => MailedTokensStored
  BY DEF IInv, MailsOK, TokensOK, MailedTokensStored
<1> QED BY <1>1, AccountsInvariance, PTL

\* activate, resetPassword: the change of an account and the revocation of
\* the mailed token commit together.
THEOREM ChangesAreAuthorized == Spec => []AccountsChangeByToken
<1>1. IInv => AccountsChangeByToken
  BY DEF IInv
<1> QED BY <1>1, AccountsInvariance, PTL

\* Every behaviour of Accounts is one of AccountService: an account changes in
\* one step, together with the link it takes, and dead links stay dead.
THEOREM AccountsImplementation == Spec => ImplementsService
<1>1. Init => Service!Init
  BY DEF Init, Service!Init
<1>2. Init => Fresh
  BY DEF Init, Fresh
<1>3. IInv /\ Fresh /\ [Next]_vars => Fresh'
  BY FreshStep
<1>4. IInv /\ Fresh /\ [Next]_vars => [Service!Next]_(Service!vars)
  BY StepRefines
<1> QED BY <1>1, <1>2, <1>3, <1>4, AccountsInvariance, PTL DEF Spec, ImplementsService, Service!Spec

-----------------------------------------------------------------------------
(* Which overlaps do harm: how a step moves its handler and the tokens      *)

Moves(r) ==
  \/ \E e \in Email : ValidateUser(r, e) \/ FindUser(r, e)
  \/ \E t \in tokens, type \in TokenType : FindToken(r, t, type)
  \/ InsertUser(r) \/ CommitUser(r) \/ SendMail(r)
  \/ DeleteTokens(r) \/ InsertToken(r)
  \/ WriteUser(r) \/ Revoke(r) \/ CommitUse(r) \/ Fail(r)

LEMMA NextMoves ==
  ASSUME Next
  PROVE  (\E r \in Call : Moves(r)) \/ (\E t \in tokens : Expire(t))
BY DEF Next, Moves

Acting == {"writeUser", "revoke", "commitUse"}

\* What the handler of r does next, of the positions that matter below.
GoesOn(r) ==
  \/ call'[r].pc \in {"insertUser", "commitUser", "mail", "deleteTokens", "ended"}
  \/ /\ call[r].pc = "deleteTokens" /\ call'[r].pc = "insertToken"
     /\ call'[r].user = call[r].user
     /\ DeleteTokens(r)
  \/ /\ call[r].pc = "idle" /\ call'[r].pc = "writeUser"
     /\ LiveToken(call'[r].token)
  \/ /\ call[r].pc = "writeUser" /\ call'[r].pc = "revoke"
     /\ call'[r].user = call[r].user /\ call'[r].token = call[r].token
     /\ ~ UserHeld(r)
  \/ /\ call[r].pc = "revoke" /\ call'[r].pc = "commitUse"
     /\ call'[r].user = call[r].user /\ call'[r].token = call[r].token

LEMMA OneMoves ==
  ASSUME IInv, NEW r \in Call, Moves(r)
  PROVE  (\A s \in Call \ {r} : call'[s] = call[s]) /\ GoesOn(r)
<1>1. call \in [Call -> CallState]
  BY DEF IInv, TypeOK
<1> USE DEF CallState, Idle
<1>2. CASE \E e \in Email : ValidateUser(r, e) \/ FindUser(r, e)
  BY <1>1, <1>2 DEF ValidateUser, FindUser, End, GoesOn
<1>3. ASSUME NEW t \in tokens, NEW type \in TokenType, FindToken(r, t, type)
      PROVE  (\A s \in Call \ {r} : call'[s] = call[s]) /\ GoesOn(r)
  <2>1. CASE End(r)
    BY <1>1, <2>1 DEF End, GoesOn
  <2>2. CASE t.live /\ call' = [call EXCEPT ![r] = [Idle EXCEPT !.pc = "writeUser",
                           !.user = t.user, !.token = t.id, !.type = type]]
    <3>1. /\ \A s \in Call \ {r} : call'[s] = call[s]
          /\ call'[r].pc = "writeUser" /\ call'[r].token = t.id
      BY <1>1, <2>2
    <3> QED BY <1>3, <2>2, <3>1 DEF FindToken, Arrives, GoesOn, LiveToken
  <2> QED BY <1>3, <2>1, <2>2 DEF FindToken
<1>4. CASE InsertUser(r) \/ CommitUser(r) \/ SendMail(r) \/ InsertToken(r) \/ CommitUse(r) \/ Fail(r)
  BY <1>1, <1>4 DEF InsertUser, CommitUser, SendMail, InsertToken, CommitUse, Fail, End, GoesOn
<1>5. CASE DeleteTokens(r)
  BY <1>1, <1>5 DEF DeleteTokens, GoesOn
<1>6. CASE WriteUser(r)
  BY <1>1, <1>6 DEF WriteUser, End, GoesOn
<1>7. CASE Revoke(r)
  BY <1>1, <1>7 DEF Revoke, End, GoesOn
<1> QED BY <1>2, <1>3, <1>4, <1>5, <1>6, <1>7 DEF Moves

\* Where a live token comes from: it has lived before, or the handler has just
\* stored it.
ComesFrom(r, w) ==
  \/ \E t \in tokens : t.live /\ t.id = w.id /\ t.user = w.user /\ t.type = w.type
  \/ w.id = r /\ call[r].pc = "commitUser" /\ w.type = "ACTIVATION"
  \/ w.id = r /\ call[r].pc = "insertToken" /\ w.user = call[r].user

\* Tokens have ids of their own.
Distinct == \A t, w \in tokens : t.id = w.id => t = w

LEMMA TokensMove ==
  ASSUME IInv, Fresh, Distinct, NEW r \in Call, Moves(r)
  PROVE  /\ \A w \in tokens' : w.live => ComesFrom(r, w)
         /\ Distinct'
<1>1. tokens \subseteq Token
  BY DEF IInv, TypeOK
<1>2. CASE CommitUser(r)
  <2>1. PICK n : n = NewToken(r, r, "ACTIVATION")
    OBVIOUS
  <2>2. tokens' = tokens \cup {n} /\ n.id = r /\ n.type = "ACTIVATION" /\ call[r].pc = "commitUser"
    BY <1>2, <2>1 DEF CommitUser, NewToken
  <2> QED BY <2>2 DEF ComesFrom, Distinct, Fresh
<1>3. CASE InsertToken(r)
  <2>1. PICK n : n = NewToken(r, call[r].user, "FORGOT_PASSWORD")
    OBVIOUS
  <2>2. tokens' = tokens \cup {n} /\ n.id = r /\ n.user = call[r].user /\ call[r].pc = "insertToken"
    BY <1>3, <2>1 DEF InsertToken, NewToken
  <2> QED BY <2>2 DEF ComesFrom, Distinct, Fresh
<1>4. CASE DeleteTokens(r)
  <2>1. \A t \in tokens : [t EXCEPT !.live = FALSE].id = t.id /\ ~ [t EXCEPT !.live = FALSE].live
    BY <1>1 DEF Token
  <2>2. \A w \in tokens' : \/ w \in tokens /\ w \notin ForgotTokens(call[r].user)
                           \/ \E t \in ForgotTokens(call[r].user) : w = [t EXCEPT !.live = FALSE]
    BY <1>4 DEF DeleteTokens
  <2>3. ForgotTokens(call[r].user) \subseteq tokens
    BY DEF ForgotTokens
  <2>4. \A w \in tokens' : w.live => w \in tokens
    BY <2>1, <2>2, <2>3
  <2>5. ASSUME NEW v \in tokens', NEW w \in tokens', v.id = w.id
        PROVE  v = w
    <3>1. PICK t \in tokens : t.id = v.id /\ v = IF t \in ForgotTokens(call[r].user)
                                                THEN [t EXCEPT !.live = FALSE] ELSE t
      BY <2>1, <2>2, <2>3
    <3>2. PICK x \in tokens : x.id = w.id /\ w = IF x \in ForgotTokens(call[r].user)
                                                THEN [x EXCEPT !.live = FALSE] ELSE x
      BY <2>1, <2>2, <2>3
    <3> QED BY <2>5, <3>1, <3>2 DEF Distinct
  <2> QED BY <2>4, <2>5 DEF ComesFrom, Distinct
<1>5. CASE CommitUse(r)
  <2>1. \A t \in tokens : [t EXCEPT !.live = FALSE].id = t.id /\ ~ [t EXCEPT !.live = FALSE].live
    BY <1>1 DEF Token
  <2>2. \A w \in tokens' : \E t \in tokens :
          t.id = w.id /\ w = IF t.id = call[r].token THEN [t EXCEPT !.live = FALSE] ELSE t
    BY <1>5, <2>1 DEF CommitUse
  <2>3. \A w \in tokens' : w.live => w \in tokens
    BY <2>1, <2>2
  <2>4. ASSUME NEW v \in tokens', NEW w \in tokens', v.id = w.id
        PROVE  v = w
    <3>1. PICK t \in tokens : t.id = v.id /\ v = IF t.id = call[r].token
                                                THEN [t EXCEPT !.live = FALSE] ELSE t
      BY <2>2
    <3>2. PICK x \in tokens : x.id = w.id /\ w = IF x.id = call[r].token
                                                THEN [x EXCEPT !.live = FALSE] ELSE x
      BY <2>2
    <3> QED BY <2>4, <3>1, <3>2 DEF Distinct
  <2> QED BY <2>3, <2>4 DEF ComesFrom, Distinct
<1>6. CASE UNCHANGED tokens
  BY <1>6 DEF ComesFrom, Distinct
<1> QED BY <1>2, <1>3, <1>4, <1>5, <1>6 DEF Moves, ValidateUser, FindUser, FindToken, InsertUser,
        SendMail, WriteUser, Revoke, Fail

LEMMA ExpireMoves ==
  ASSUME IInv, Distinct, NEW x \in tokens, Expire(x)
  PROVE  /\ UNCHANGED <<mails, uses, call>>
         /\ \A w \in tokens' : \E t \in tokens :
              t.id = w.id /\ t.user = w.user /\ t.type = w.type /\ t.live = w.live
         /\ Distinct'
<1> DEFINE y == [x EXCEPT !.expired = TRUE]
<1>1. y.id = x.id /\ y.user = x.user /\ y.type = x.type /\ y.live = x.live
  BY DEF IInv, TypeOK, Token
<1>2. tokens' = (tokens \ {x}) \cup {y} /\ UNCHANGED <<mails, uses, call>>
  BY DEF Expire
<1> HIDE DEF y
<1> QED BY <1>1, <1>2 DEF Distinct

\* TokenService: a token is stored once, under an id of its own.
THEOREM TokensDistinct == Spec => [](Fresh /\ Distinct)
<1>1. Init => Fresh /\ Distinct
  BY DEF Init, Fresh, Distinct
<1>2. IInv /\ Fresh /\ Distinct /\ [Next]_vars => Fresh' /\ Distinct'
  <2> SUFFICES ASSUME IInv, Fresh, Distinct, [Next]_vars
               PROVE  Distinct'
    BY FreshStep
  <2>1. CASE UNCHANGED vars
    BY <2>1 DEF vars, Distinct
  <2>2. CASE Next
    BY <2>2, NextMoves, TokensMove, ExpireMoves
  <2> QED BY <2>1, <2>2
<1> QED BY <1>1, <1>2, AccountsInvariance, PTL DEF Spec

-----------------------------------------------------------------------------
(* The uses of a token *)

\* Of the open transactions of activate and resetPassword at most one has
\* written a user.
UserHeldOnce ==
  \A r, s \in Call :
    /\ call[r].pc \in {"revoke", "commitUse"} /\ call[s].pc \in {"revoke", "commitUse"}
    /\ call[r].user = call[s].user
    => r = s

\* The token of a handler has not been used; a used one is dead.
UsesOK ==
  /\ \A r \in Call : call[r].pc \in Acting => \A p \in uses : p[2] # call[r].token
  /\ \A p \in uses : p[2] \in mails /\ ~ LiveToken(p[2])
  /\ TokenUsedOnce

LEMMA UserHeldOnceStep ==
  ASSUME IInv, UserHeldOnce, [Next]_vars
  PROVE  UserHeldOnce'
<1>1. CASE UNCHANGED call
  BY <1>1 DEF UserHeldOnce
<1>2. ASSUME NEW r \in Call, Moves(r)
      PROVE  UserHeldOnce'
  <2>1. (\A s \in Call \ {r} : call'[s] = call[s]) /\ GoesOn(r)
    BY <1>2, OneMoves
  <2>2. CASE call[r].pc = "writeUser" /\ call'[r].pc = "revoke"
    <3>1. call'[r].user = call[r].user /\ ~ UserHeld(r)
      BY <2>1, <2>2 DEF GoesOn
    <3>2. \A s \in Call \ {r} : call[s].pc \in {"revoke", "commitUse"} =>
            call[s].user # call[r].user
      BY <3>1 DEF UserHeld
    <3> QED BY <2>1, <3>1, <3>2 DEF UserHeldOnce
  <2>3. CASE ~ (call[r].pc = "writeUser" /\ call'[r].pc = "revoke")
    <3>1. call'[r].pc \in {"revoke", "commitUse"} =>
            call[r].pc \in {"revoke", "commitUse"} /\ call'[r].user = call[r].user
      BY <2>1, <2>3 DEF GoesOn
    <3> QED BY <2>1, <3>1 DEF UserHeldOnce
  <2> QED BY <2>2, <2>3
<1> QED BY <1>1, <1>2, NextMoves DEF Expire, vars

LEMMA UsesStep ==
  ASSUME IInv, Fresh, Distinct, UserHeldOnce, UsesOK, UsesApart, [Next]_vars
  PROVE  UsesOK'
<1>1. CASE UNCHANGED vars
  BY <1>1 DEF vars, UsesOK, TokenUsedOnce, LiveToken
<1>2. ASSUME NEW x \in tokens, Expire(x)
      PROVE  UsesOK'
  <2>1. \A id : LiveToken(id)' => LiveToken(id)
    BY <1>2, ExpireMoves DEF LiveToken
  <2> QED BY <1>2, <2>1, ExpireMoves DEF UsesOK, TokenUsedOnce
<1>3. ASSUME NEW r \in Call, Moves(r)
      PROVE  UsesOK'
  <2>1. (\A s \in Call \ {r} : call'[s] = call[s]) /\ GoesOn(r)
    BY <1>3, OneMoves
  <2>2. mails \subseteq mails'
    BY <1>3 DEF Moves, ValidateUser, FindUser, FindToken, InsertUser, CommitUser, SendMail,
       QueueMail, DeleteTokens, InsertToken, WriteUser, Revoke, CommitUse, Fail
  <2>3. \A m \in mails : LiveToken(m)' => LiveToken(m)
    <3>1. ASSUME NEW m \in mails, NEW w \in tokens', w.live, w.id = m
          PROVE  LiveToken(m)
      <4>1. ComesFrom(r, w)
        BY <1>3, <3>1, TokensMove
      <4>2. call[m].pc = "ended"
        BY DEF IInv, MailsOK
      <4> QED BY <3>1, <4>1, <4>2 DEF ComesFrom, LiveToken
    <3> QED BY <3>1 DEF LiveToken
  <2>4. CASE UNCHANGED uses
    <3>1. \A p \in uses : p[2] \in mails' /\ ~ LiveToken(p[2])'
      BY <2>2, <2>3 DEF UsesOK
    <3>2. ASSUME NEW s \in Call, call'[s].pc \in Acting, NEW p \in uses
          PROVE  p[2] # call'[s].token
      <4>1. CASE s = r /\ LiveToken(call'[r].token)
        BY <4>1 DEF UsesOK
      <4>2. CASE call[s].pc \in Acting /\ call'[s].token = call[s].token
        BY <4>2 DEF UsesOK
      <4> QED BY <2>1, <3>2, <4>1, <4>2 DEF GoesOn, Acting
    <3> QED BY <2>4, <3>1, <3>2 DEF UsesOK, TokenUsedOnce
  <2>5. CASE CommitUse(r)
    <3>1. PICK k : k = call[r].token
      OBVIOUS
    <3>2. /\ call[r].pc = "commitUse" /\ uses' = uses \cup {<<r, k>>} /\ call'[r].pc = "ended"
          /\ k \in mails
      BY <2>5, <3>1 DEF CommitUse, End, Idle, IInv, HandlerOK, TypeOK
    <3>3. ~ LiveToken(k)'
      <4>1. \A t \in tokens : ~ [t EXCEPT !.live = FALSE].live
        BY DEF IInv, TypeOK, Token
      <4> QED BY <2>5, <3>1, <4>1 DEF CommitUse, LiveToken
    <3>4. \A p \in uses' : p[2] \in mails' /\ ~ LiveToken(p[2])'
      BY <2>2, <2>3, <3>2, <3>3 DEF UsesOK
    <3>5. ASSUME NEW s \in Call, call'[s].pc \in Acting
          PROVE  \A p \in uses' : p[2] # call'[s].token
      <4>1. s # r /\ call'[s] = call[s] /\ call[s].pc \in Acting
        BY <2>1, <3>2, <3>5 DEF Acting
      <4>2. call[s].token # k
        <5>1. CASE call[s].pc = "writeUser"
          BY <3>1, <3>2, <5>1 DEF UsesApart
        <5>2. CASE call[s].pc # "writeUser"
          <6>1. SUFFICES ASSUME call[s].token = k
                         PROVE  FALSE
            OBVIOUS
          <6>2. PICK t \in tokens : t.id = k /\ t.user = call[r].user
            BY <3>1, <3>2 DEF IInv, HandlerOK
          <6>3. PICK w \in tokens : w.id = k /\ w.user = call[s].user
            BY <4>1, <6>1 DEF IInv, HandlerOK, Acting
          <6>4. t = w
            BY <6>2, <6>3 DEF Distinct
          <6> QED BY <3>2, <4>1, <5>2, <6>2, <6>3, <6>4 DEF UserHeldOnce, Acting
        <5> QED BY <5>1, <5>2
      <4> QED BY <3>2, <4>1, <4>2 DEF UsesOK
    <3>6. TokenUsedOnce'
      <4>1. \A p \in uses : p[2] # k
        BY <3>1, <3>2 DEF UsesOK, Acting
      <4> QED BY <3>2, <4>1 DEF UsesOK, TokenUsedOnce
    <3> QED BY <3>4, <3>5, <3>6 DEF UsesOK
  <2> QED BY <1>3, <2>4, <2>5 DEF Moves, ValidateUser, FindUser, FindToken, InsertUser,
          CommitUser, SendMail, DeleteTokens, InsertToken, WriteUser, Revoke, Fail
<1> QED BY <1>1, <1>2, <1>3, NextMoves

\* activate, resetPassword: two open transactions never hold one user.
THEOREM UsersHeldOnce == Spec => []UserHeldOnce
<1>1. Init => UserHeldOnce
  BY DEF Init, Idle, UserHeldOnce
<1>2. IInv /\ UserHeldOnce /\ [Next]_vars => UserHeldOnce'
  BY UserHeldOnceStep
<1> QED BY <1>1, <1>2, AccountsInvariance, PTL DEF Spec

\* activate, resetPassword: a token serves two calls only if its use is
\* committed while another handler has found it alive and not yet begun its
\* transaction.
THEOREM TokensServeOnce == Spec /\ []UsesApart => []TokenUsedOnce
<1>1. Init => UsesOK
  BY DEF Init, Idle, UsesOK, Acting, TokenUsedOnce
<1>2. IInv /\ Fresh /\ Distinct /\ UserHeldOnce /\ UsesOK /\ UsesApart /\ [Next]_vars => UsesOK'
  BY UsesStep
<1>3. UsesOK => TokenUsedOnce
  BY DEF UsesOK
<1> QED BY <1>1, <1>2, <1>3, AccountsInvariance, TokensDistinct, UsersHeldOnce, PTL DEF Spec

-----------------------------------------------------------------------------
(* Forgot-password tokens *)

\* Who is about to store a forgot-password token finds none alive.
ForgotOK ==
  /\ \A r \in Call : call[r].pc = "insertToken" => ForgotTokens(call[r].user) = {}
  /\ OneLiveForgotToken

LEMMA ForgotStep ==
  ASSUME IInv, Fresh, Distinct, ForgotOK, ForgotApart, [Next]_vars
  PROVE  ForgotOK'
<1>0. Distinct'
  <2>1. CASE UNCHANGED vars
    BY <2>1 DEF vars, Distinct
  <2> QED BY <2>1, NextMoves, TokensMove, ExpireMoves
<1>1. CASE UNCHANGED vars
  BY <1>1 DEF vars, ForgotOK, OneLiveForgotToken, ForgotTokens
<1>2. ASSUME NEW x \in tokens, Expire(x)
      PROVE  ForgotOK'
  <2>1. UNCHANGED call /\ \A w \in tokens' : \E t \in tokens :
          t.id = w.id /\ t.user = w.user /\ t.type = w.type /\ t.live = w.live
    BY <1>2, ExpireMoves
  <2>2. \A u : ForgotTokens(u) = {} => ForgotTokens(u)' = {}
    BY <2>1 DEF ForgotTokens
  <2>3. OneLiveForgotToken'
    BY <1>0, <2>1 DEF ForgotOK, OneLiveForgotToken, Distinct
  <2> QED BY <2>1, <2>2, <2>3 DEF ForgotOK
<1>3. ASSUME NEW r \in Call, Moves(r)
      PROVE  ForgotOK'
  <2>1. (\A s \in Call \ {r} : call'[s] = call[s]) /\ GoesOn(r)
    BY <1>3, OneMoves
  <2>2. \A w \in tokens' : w.live => ComesFrom(r, w)
    BY <1>3, TokensMove
  <2>3. ASSUME NEW s \in Call, call'[s].pc = "insertToken",
               NEW w \in tokens', w.user = call'[s].user, w.type = "FORGOT_PASSWORD", w.live
        PROVE  FALSE
    <3>1. CASE s = r
      <4>1. DeleteTokens(r) /\ call'[r].user = call[r].user
        BY <2>1, <2>3, <3>1 DEF GoesOn
      <4>2. \A t \in ForgotTokens(call[r].user) : ~ [t EXCEPT !.live = FALSE].live
        BY DEF ForgotTokens, IInv, TypeOK, Token
      <4> QED BY <2>3, <3>1, <4>1, <4>2 DEF DeleteTokens, ForgotTokens
    <3>2. CASE s # r
      <4>1. call'[s] = call[s] /\ ForgotTokens(call[s].user) = {}
        BY <2>1, <2>3, <3>2 DEF ForgotOK
      <4>2. ~ (call[r].pc = "insertToken" /\ w.user = call[r].user)
        BY <2>3, <3>2, <4>1 DEF ForgotApart
      <4> QED BY <2>2, <2>3, <4>1, <4>2 DEF ComesFrom, ForgotTokens
    <3> QED BY <3>1, <3>2
  <2>4. ASSUME NEW v \in tokens', NEW w \in tokens', v.user = w.user, v.live, w.live,
               v.type = "FORGOT_PASSWORD", w.type = "FORGOT_PASSWORD"
        PROVE  v = w
    <3>1. ComesFrom(r, v) /\ ComesFrom(r, w)
      BY <2>2, <2>4
    <3>2. CASE v.id = r /\ w.id = r
      BY <1>0, <3>2 DEF Distinct
    <3>3. CASE call[r].pc = "insertToken" /\ v.user = call[r].user
      <4>1. ForgotTokens(call[r].user) = {}
        BY <3>3 DEF ForgotOK
      <4> QED BY <2>4, <3>1, <3>2, <3>3, <4>1 DEF ComesFrom, ForgotTokens
    <3>4. CASE ~ (call[r].pc = "insertToken" /\ v.user = call[r].user)
      <4>1. PICK t \in tokens : t.live /\ t.id = v.id /\ t.user = v.user /\ t.type = v.type
        BY <2>4, <3>1, <3>4 DEF ComesFrom
      <4>2. PICK x \in tokens : x.live /\ x.id = w.id /\ x.user = w.user /\ x.type = w.type
        BY <2>4, <3>1, <3>4 DEF ComesFrom
      <4>3. t = x
        BY <2>4, <4>1, <4>2 DEF ForgotOK, OneLiveForgotToken
      <4> QED BY <1>0, <4>1, <4>2, <4>3 DEF Distinct
    <3> QED BY <3>3, <3>4
  <2> QED BY <2>3, <2>4 DEF ForgotOK, ForgotTokens, OneLiveForgotToken
<1> QED BY <1>1, <1>2, <1>3, NextMoves

\* createForgotPasswordRequest: a user has two live forgot-password tokens only
\* if two handlers have deleted the earlier ones before either stores its own;
\* failures between the two steps do no harm.
THEOREM ForgotTokensReplaced == Spec /\ []ForgotApart => []OneLiveForgotToken
<1>1. Init => ForgotOK
  BY DEF Init, Idle, ForgotOK, OneLiveForgotToken
<1>2. IInv /\ Fresh /\ Distinct /\ ForgotOK /\ ForgotApart /\ [Next]_vars => ForgotOK'
  BY ForgotStep
<1>3. ForgotOK => OneLiveForgotToken
  BY DEF ForgotOK
<1> QED BY <1>1, <1>2, <1>3, AccountsInvariance, TokensDistinct, PTL DEF Spec

-----------------------------------------------------------------------------
(* One call at a time *)

\* Who arrives is alone.
LEMMA ArrivesAlone ==
  ASSUME IsFiniteSet(Call), MaxInFlight = 1, NEW r \in Call, Arrives(r)
  PROVE  InFlight = {}
<1>1. InFlight \subseteq Call
  BY DEF InFlight
<1>2. IsFiniteSet(InFlight)
  BY <1>1, FS_Subset
<1>3. Cardinality(InFlight) \in Nat /\ Cardinality(InFlight) < 1
  BY <1>2, FS_CardinalityType DEF Arrives
<1> QED BY <1>2, <1>3, FS_EmptySet

Alone == \A r, s \in InFlight : r = s

LEMMA AloneStep ==
  ASSUME IsFiniteSet(Call), MaxInFlight = 1, IInv, Alone, [Next]_vars
  PROVE  Alone'
<1>1. CASE UNCHANGED call
  BY <1>1 DEF Alone, InFlight
<1>2. ASSUME NEW r \in Call, Moves(r)
      PROVE  Alone'
  <2>1. InFlight' \subseteq InFlight \cup {r}
    BY <1>2, OneMoves DEF InFlight
  <2>2. CASE Arrives(r)
    BY <2>1, <2>2, ArrivesAlone DEF Alone
  <2>3. CASE r \in InFlight
    BY <2>1, <2>3 DEF Alone
  <2> QED BY <1>2, <2>2, <2>3 DEF Moves, ValidateUser, FindUser, FindToken, InsertUser,
          CommitUser, SendMail, DeleteTokens, InsertToken, WriteUser, Revoke, CommitUse, Fail,
          InFlight
<1> QED BY <1>1, <1>2, NextMoves DEF Expire, vars

\* One call at a time: no two handlers meet in the harmful states, so both
\* properties hold.
THEOREM AccountsAloneApart ==
  ASSUME IsFiniteSet(Call), MaxInFlight = 1
  PROVE  Spec => [](UsesApart /\ ForgotApart)
<1>1. Init => Alone
  BY DEF Init, Idle, Alone, InFlight
<1>2. IInv /\ Alone /\ [Next]_vars => Alone'
  BY AloneStep
<1>3. Alone => UsesApart /\ ForgotApart
  BY DEF Alone, UsesApart, ForgotApart, InFlight
<1> QED BY <1>1, <1>2, <1>3, AccountsInvariance, PTL DEF Spec
=============================================================================
