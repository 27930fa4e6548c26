---------------------------- MODULE AccountService ----------------------------
(***************************************************************************)
(* What AuthService promises about accounts: every change of an account is *)
(* one step, made with a link that stops working in the same step.         *)
(*                                                                         *)
(* There are no handlers, transactions, e-mails or indexes here.  A link   *)
(* stands for a one-time token: it works from the moment it is offered     *)
(* until it is used, withdrawn or lapses, and never again.                 *)
(***************************************************************************)
EXTENDS Naturals, FiniteSets

CONSTANTS Email, Call

VARIABLES
  accounts,  \* set of [id, email, status, password]
  links,     \* set of [id, user, type]: the links ever offered
  working    \* those of them that work

vars == <<accounts, links, working>>

Init ==
  /\ accounts = {}
  /\ links = {}
  /\ working = {}

\* A link is new, and it works.
Offered(l) ==
  /\ \A m \in links : m.id # l.id
  /\ links' = links \cup {l}
  /\ working' = working \cup {l}

\* An address gets its account and the link that activates it.
Register(r, e) ==
  /\ \A a \in accounts : a.email # e /\ a.id # r
  /\ accounts' = accounts \cup
       {[id |-> r, email |-> e, status |-> "INACTIVE", password |-> r]}
  /\ Offered([id |-> r, user |-> r, type |-> "ACTIVATION"])

\* A request for a new password takes two steps: it withdraws the links of
\* earlier requests, and offers another one.  A failure may come in between.
Withdraw(user) ==
  /\ working' = {l \in working : ~ (l.user = user /\ l.type = "FORGOT_PASSWORD")}
  /\ UNCHANGED <<accounts, links>>

Offer(r, a) ==
  /\ Offered([id |-> r, user |-> a.id, type |-> "FORGOT_PASSWORD"])
  /\ UNCHANGED accounts

Lapse(l) ==
  /\ working' = working \ {l}
  /\ UNCHANGED <<accounts, links>>

Changed(a, r, l) ==
  IF a.id # l.user THEN a
  ELSE IF l.type = "ACTIVATION" THEN [a EXCEPT !.status = "ACTIVE"]
  ELSE [a EXCEPT !.password = r]

\* activate or resetPassword.  The link worked when it was looked at, which may
\* be before another call has used or withdrawn it.
Use(r, l) ==
  /\ accounts' = {Changed(a, r, l) : a \in accounts}
  /\ working' = {m \in working : m.id # l.id}
  /\ UNCHANGED links

Next ==
  \/ \E r \in Call :
       \/ \E e \in Email : Register(r, e)
       \/ Withdraw(r)
       \/ \E a \in accounts : Offer(r, a)
       \/ \E l \in links : Use(r, l)
  \/ \E l \in working : Lapse(l)

Spec == Init /\ [][Next]_vars
=============================================================================
