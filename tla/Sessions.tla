------------------------------- MODULE Sessions -------------------------------
(***************************************************************************)
(* The sessions of one active user: login, the two JWT strategies, refresh *)
(* and what resetPassword does to them (updatePassword moves validTokenIat,*)
(* and tokens issued before it stop being valid).                          *)
(*                                                                         *)
(* A JWT is checked against validTokenIat: refresh tokens against the      *)
(* database, access tokens through a cache in Redis.  Time runs in half    *)
(* seconds, as JWTs count whole seconds (iat is rounded down) while        *)
(* updatePassword rounds to the nearest one.  Another call may run at      *)
(* every await.  The one-time token of a reset is the matter of Accounts.  *)
(***************************************************************************)
EXTENDS Naturals, FiniteSets

CONSTANTS
  Call,         \* API calls
  None,         \* null, and the name of the password chosen at registration
  MaxTime,      \* bound: the time at which the clock stops, in half seconds
  MaxInFlight   \* bound: calls whose handlers may be running at once

VARIABLES
  now,      \* the clock, in half seconds
  user,     \* the stored user: password, validTokenIat, the time that came from
  stamps,   \* history: every validTokenIat ever committed
  iatCache, \* the cache entry iat:<user>: a set of one value or of none
  issued,   \* JWTs handed out
  served,   \* history: checked requests, with what was true on their arrival
  call      \* call -> position and local variables of its handler

vars == <<now, user, stamps, iatCache, issued, served, call>>

ASSUME BoundAssumption == MaxTime \in Nat /\ MaxInFlight \in Nat

\* jsonwebtoken: iat is Math.floor of the seconds.
Floor(t) == t \div 2

\* Mutant: the next whole second.
RoundSeconds_Next(t) == t \div 2 + 1

\* Math.round(Date.now() / 1000) rounds a half up.
RoundSeconds(t) == (t + 1) \div 2

Password == Call \cup {None}

\* password is the one that was valid when the chain of tokens began.
Jwt == [kind: {"access", "refresh"}, at: Nat, password: Password]

ASSUME NoneAssumption == None \notin Call /\ None \notin Jwt

Iat(jwt) == Floor(jwt.at)

\* A guard's verdict, and what was true when it let the request pass or not.
Served == [jwt: Jwt, accepted: BOOLEAN, validTokenIat: Nat, password: Password,
           changedAt: Nat]

Pc == {"idle", "sign", "readUser", "fill", "renew", "save", "clear", "commit", "ended"}

CallState ==
  [pc: Pc,
   jwt: Jwt \cup {None},   \* token the client has sent
   password: Password,     \* password that was valid when login read the user
   iat: Nat,               \* validTokenIat read, or to be written
   at: Nat]                \* the time a new validTokenIat is taken from

Idle == [pc |-> "idle", jwt |-> None, password |-> None, iat |-> 0, at |-> 0]

InFlight == {r \in Call : call[r].pc \notin {"idle", "ended"}}

Arrives(r) ==
  /\ call[r].pc = "idle"
  /\ Cardinality(InFlight) < MaxInFlight

Goto(r, pc) == call' = [call EXCEPT ![r].pc = pc]

End(r) == call' = [call EXCEPT ![r] = [Idle EXCEPT !.pc = "ended"]]

\* An error of the database or of Redis, or a crash, stops a handler at an
\* await; an open transaction is aborted.
Fail(r) ==
  /\ r \in InFlight
  /\ End(r)
  /\ UNCHANGED <<now, user, stamps, iatCache, issued, served>>

Tick ==
  /\ now < MaxTime
  /\ now' = now + 1
  /\ UNCHANGED <<user, stamps, iatCache, issued, served, call>>

\* Mutant: the entry has no time to live.
ExpireCache_Never == FALSE /\ UNCHANGED vars

\* Redis drops the entry five minutes after it was set.
ExpireCache ==
  /\ iatCache # {}
  /\ iatCache' = {}
  /\ UNCHANGED <<now, user, stamps, issued, served, call>>

-----------------------------------------------------------------------------
(* login *)

\* The user is read with the password hash.  A wrong password ends the call.
FindLoginUser(r) ==
  /\ Arrives(r)
  /\ \/ call' = [call EXCEPT ![r] = [Idle EXCEPT !.pc = "sign", !.password = user.password]]
     \/ End(r)
  /\ UNCHANGED <<now, user, stamps, iatCache, issued, served>>

NewJwt(kind, password) == [kind |-> kind, at |-> now, password |-> password]

\* After bcrypt's comparison both tokens are signed in one synchronous run.
Sign(r) ==
  /\ call[r].pc = "sign"
  /\ issued' = issued \cup {NewJwt(k, call[r].password) : k \in {"access", "refresh"}}
  /\ End(r)
  /\ UNCHANGED <<now, user, stamps, iatCache, served>>

-----------------------------------------------------------------------------
(* JwtAccessTokenStrategy and AuthService.isTokenValid *)

Verdict(jwt, accepted) ==
  [jwt |-> jwt, accepted |-> accepted, validTokenIat |-> user.validTokenIat,
   password |-> user.password, changedAt |-> user.changedAt]

\* A cache hit ends the check.  JwtAccessTokenStrategy.validate awaits the
\* answer and drops it, so every request with an unexpired token passes.
CheckAccess(r, jwt) ==
  /\ Arrives(r)
  /\ jwt.kind = "access"
  /\ IF iatCache # {}
       THEN End(r) /\ served' = served \cup {Verdict(jwt, TRUE)}
       ELSE /\ call' = [call EXCEPT ![r] = [Idle EXCEPT !.pc = "readUser", !.jwt = jwt]]
            /\ UNCHANGED served
  /\ UNCHANGED <<now, user, stamps, iatCache, issued>>

\* The miss: validTokenIat is read from the database.
ReadUser(r) ==
  /\ call[r].pc = "readUser"
  /\ call' = [call EXCEPT ![r].pc = "fill", ![r].iat = user.validTokenIat]
  /\ UNCHANGED <<now, user, stamps, iatCache, issued, served>>

\* The value read is put into the cache, however old it is by now.
FillCache(r) ==
  /\ call[r].pc = "fill"
  /\ iatCache' = {call[r].iat}
  /\ served' = served \cup {Verdict(call[r].jwt, TRUE)}
  /\ End(r)
  /\ UNCHANGED <<now, user, stamps, issued>>

-----------------------------------------------------------------------------
(* JwtRefreshTokenStrategy and AuthService.refresh *)

\* Mutant: $lte in the filter.
ValidForRefresh_Lte(jwt) == user.validTokenIat <= Iat(jwt)

\* $lt: tokens count from the second after validTokenIat.
ValidForRefresh(jwt) == user.validTokenIat < Iat(jwt)

\* The guard: the verdict on the token is a filter of one query.
CheckRefresh(r, jwt) ==
  /\ Arrives(r)
  /\ jwt.kind = "refresh"
  /\ served' = served \cup {Verdict(jwt, ValidForRefresh(jwt))}
  /\ IF ValidForRefresh(jwt)
       THEN call' = [call EXCEPT ![r] = [Idle EXCEPT !.pc = "renew", !.jwt = jwt]]
       ELSE End(r)
  /\ UNCHANGED <<now, user, stamps, iatCache, issued>>

\* After the guard's await the handler signs a new access token.
Renew(r) ==
  /\ call[r].pc = "renew"
  /\ issued' = issued \cup {NewJwt("access", call[r].jwt.password)}
  /\ End(r)
  /\ UNCHANGED <<now, user, stamps, iatCache, served>>

-----------------------------------------------------------------------------
(* UsersService.updatePassword, in the transaction of resetPassword *)

\* The stamp is taken before the new password is hashed.
ResetPassword(r) ==
  /\ Arrives(r)
  /\ call' = [call EXCEPT ![r] = [Idle EXCEPT !.pc = "save", !.iat = RoundSeconds(now),
                                                !.at = now]]
  /\ UNCHANGED <<now, user, stamps, iatCache, issued, served>>

\* A user written by another open transaction is a write conflict.
SaveUser(r) ==
  /\ call[r].pc = "save"
  /\ IF \E s \in Call : call[s].pc \in {"clear", "commit"} THEN End(r) ELSE Goto(r, "clear")
  /\ UNCHANGED <<now, user, stamps, iatCache, issued, served>>

\* Mutant: the entry is left to its time to live.
ClearCache_Keeps(r) ==
  /\ call[r].pc = "clear"
  /\ Goto(r, "commit")
  /\ UNCHANGED <<now, user, stamps, iatCache, issued, served>>

\* Mutant: the entry is replaced by the value about to be committed.
ClearCache_Writes(r) ==
  /\ call[r].pc = "clear"
  /\ iatCache' = {call[r].iat}
  /\ Goto(r, "commit")
  /\ UNCHANGED <<now, user, stamps, issued, served>>

\* The cache knows nothing of the transaction, which is still open.
ClearCache(r) ==
  /\ call[r].pc = "clear"
  /\ iatCache' = {}
  /\ Goto(r, "commit")
  /\ UNCHANGED <<now, user, stamps, issued, served>>

\* Mutant: validTokenIat is left undefined.
CommitPassword_Unset(r) ==
  /\ call[r].pc = "commit"
  /\ user' = [password |-> r, validTokenIat |-> None, changedAt |-> call[r].at]
  /\ End(r)
  /\ UNCHANGED <<now, stamps, iatCache, issued, served>>

\* The transaction of resetPassword commits the password and the stamp.
CommitPassword(r) ==
  /\ call[r].pc = "commit"
  /\ user' = [password |-> r, validTokenIat |-> call[r].iat, changedAt |-> call[r].at]
  /\ stamps' = stamps \cup {call[r].iat}
  /\ End(r)
  /\ UNCHANGED <<now, iatCache, issued, served>>

-----------------------------------------------------------------------------

Init ==
  /\ now = 0
  /\ user = [password |-> None, validTokenIat |-> RoundSeconds(0), changedAt |-> 0]
  /\ stamps = {user.validTokenIat}
  /\ iatCache = {}
  /\ issued = {}
  /\ served = {}
  /\ call = [r \in Call |-> Idle]

Step(r) ==
  \/ Sign(r)
  \/ ReadUser(r) \/ FillCache(r)
  \/ Renew(r)
  \/ SaveUser(r) \/ ClearCache(r) \/ CommitPassword(r)

Next ==
  \/ Tick
  \/ ExpireCache
  \/ \E r \in Call :
       \/ FindLoginUser(r) \/ ResetPassword(r)
       \/ \E jwt \in issued : CheckAccess(r, jwt) \/ CheckRefresh(r, jwt)
       \/ Step(r)
       \/ Fail(r)

Spec == Init /\ [][Next]_vars

\* The event loop resumes every handler, and Redis drops what has expired.
FairSpec ==
  /\ Spec
  /\ \A r \in Call : WF_vars(Step(r))
  /\ WF_vars(ExpireCache)

-----------------------------------------------------------------------------
(* Properties, for any number of calls in flight *)

\* Tokens and handlers are well typed.
TypeOK ==
  /\ now \in Nat
  /\ user \in [password : Password, validTokenIat : Nat, changedAt : Nat]
  /\ stamps \subseteq Nat
  /\ iatCache \subseteq Nat /\ Cardinality(iatCache) <= 1
  /\ issued \subseteq Jwt
  /\ served \subseteq Served
  /\ call \in [Call -> CallState]

\* The cache only ever holds a validTokenIat that was committed: a reset that
\* is aborted after the cache was cleared has not changed what checks see.
CacheIsCommitted == iatCache \subseteq stamps

\* Both roundings and the strict comparison cost a new session little: a
\* refresh token is accepted if it was created one second and a half after
\* the instant from which validTokenIat was taken, or later.
NewSessionRefreshes ==
  \A s \in served :
    s.jwt.kind = "refresh" /\ s.jwt.at >= s.changedAt + 3 => s.accepted

\* A value filled in by a check that raced with a reset does not stay: when
\* the calls are over, the cache and the database end up in agreement.
EventuallyFresh == <>[](iatCache \subseteq {user.validTokenIat})

-----------------------------------------------------------------------------
(* Properties the code keeps unless certain handlers overlap *)

\* A refresh token is accepted only from a session that began with the
\* password of now: updatePassword ends the sessions that are older, however
\* the two roundings of the time fall.
RefreshedIsCurrent ==
  \A s \in served :
    s.jwt.kind = "refresh" /\ s.accepted => s.jwt.password = s.password

\* updatePassword clears the cache, so outside a call the cache agrees with
\* the database.
CacheFresh == InFlight = {} => iatCache \subseteq {user.validTokenIat}

\* The valid token is the one created after validTokenIat: the guards let no
\* older token pass.
OlderTokensRefused ==
  \A s \in served : s.accepted => Iat(s.jwt) >= s.validTokenIat

-----------------------------------------------------------------------------
(* Which overlaps do harm: the states in which a handler is about to write  *)
(* what another one has read before and will not read again.                *)

\* No login is about to sign tokens while a reset has taken its stamp and not
\* committed it.
LoginsApart ==
  \A r, s \in Call :
    ~ (call[r].pc = "sign" /\ call[s].pc \in {"save", "clear", "commit"})

\* No check is about to fill the cache while a reset has cleared it and not
\* committed.
ChecksApart ==
  \A r, s \in Call : ~ (call[r].pc = "fill" /\ call[s].pc = "commit")
=============================================================================
