---------------------------- MODULE SessionsProofs ----------------------------
(***************************************************************************)
(* Proofs about Sessions, for any number of calls, any number of them in   *)
(* flight and any time.                                                    *)
(***************************************************************************)
EXTENDS Sessions, FiniteSetTheorems, TLAPS

\* What a handler knows: a value on its way into the cache was committed, a
\* new validTokenIat is the rounding of the time it was taken at.
HandlerOK(q) ==
  /\ q \in CallState
  /\ q.pc = "fill" => q.iat \in stamps
  /\ q.pc \in {"save", "clear", "commit"} => q.iat = RoundSeconds(q.at)
  /\ q.pc \in {"readUser", "fill"} => q.jwt \in Jwt /\ q.jwt.kind = "access"
  /\ q.pc = "renew" => q.jwt \in Jwt

UserOK ==
  /\ user.validTokenIat \in stamps
  /\ user.validTokenIat = RoundSeconds(user.changedAt)

\* The record of a request at the refresh guard tells the guard's verdict.
VerdictOK(s) ==
  /\ s.validTokenIat = RoundSeconds(s.changedAt)
  /\ s.jwt.kind = "refresh" => (s.accepted <=> s.validTokenIat < Iat(s.jwt))

IInv ==
  /\ TypeOK
  /\ UserOK
  /\ CacheIsCommitted
  /\ \A r \in Call : HandlerOK(call[r])
  /\ \A s \in served : VerdictOK(s)

-----------------------------------------------------------------------------
(* The two roundings *)

LEMMA RoundingIsNat ==
  ASSUME NEW t \in Nat
  PROVE  RoundSeconds(t) \in Nat /\ Floor(t) \in Nat
BY DEF RoundSeconds, Floor

\* Three half seconds after an instant, the whole seconds have passed the
\* nearest second of that instant.
LEMMA RoundingGap ==
  ASSUME NEW t \in Nat, NEW u \in Nat, u >= t + 3
  PROVE  RoundSeconds(t) < Floor(u)
BY DEF RoundSeconds, Floor

-----------------------------------------------------------------------------
(* Steps *)

LEMMA EndedOK == HandlerOK([Idle EXCEPT !.pc = "ended"])
BY DEF HandlerOK, Idle, CallState, Pc, Password

\* A step that leaves the handlers alone, or replaces the local variables of
\* one by right ones, keeps what handlers know if no stamp is forgotten.
LEMMA HandlersKept ==
  ASSUME IInv, stamps \subseteq stamps', NEW r \in Call, NEW q, HandlerOK(q)',
         call' = [call EXCEPT ![r] = q]
  PROVE  call' \in [Call -> CallState] /\ \A s \in Call : HandlerOK(call[s])'
<1>1. call' \in [Call -> CallState]
  BY DEF HandlerOK, IInv, TypeOK
<1>2. \A s \in Call : HandlerOK(call[s])'
  <2> SUFFICES ASSUME NEW s \in Call
               PROVE  HandlerOK(call[s])'
    OBVIOUS
  <2>1. CASE s = r
    BY <2>1 DEF IInv, TypeOK
  <2>2. CASE s # r
    BY <2>2 DEF IInv, TypeOK, HandlerOK
  <2> QED BY <2>1, <2>2
<1> QED BY <1>1, <1>2

\* A step of one handler that hands out tokens or records requests at most.
LEMMA LocalStep ==
  ASSUME IInv, UNCHANGED <<now, user, stamps, iatCache>>,
         NEW r \in Call, NEW q, HandlerOK(q), call' = [call EXCEPT ![r] = q],
         issued' \subseteq Jwt,
         served' \subseteq Served, \A s \in served' : VerdictOK(s)
  PROVE  IInv'
<1>1. HandlerOK(q)'
  BY DEF HandlerOK
<1>2. call' \in [Call -> CallState] /\ \A s \in Call : HandlerOK(call[s])'
  BY <1>1, HandlersKept
<1>3. TypeOK' /\ UserOK' /\ CacheIsCommitted'
  BY <1>2 DEF IInv, TypeOK, UserOK, CacheIsCommitted
<1>4. \A s \in served' : VerdictOK(s)'
  BY DEF VerdictOK
<1> QED BY <1>2, <1>3, <1>4 DEF IInv

LEMMA VerdictsAreRight ==
  ASSUME IInv, NEW jwt \in Jwt, NEW accepted \in BOOLEAN,
         jwt.kind = "refresh" => accepted = ValidForRefresh(jwt)
  PROVE  Verdict(jwt, accepted) \in Served /\ VerdictOK(Verdict(jwt, accepted))
BY DEF IInv, TypeOK, UserOK, Verdict, VerdictOK, Served, ValidForRefresh

-----------------------------------------------------------------------------
(* login *)

LEMMA EndStep ==
  ASSUME IInv, NEW r \in Call, End(r),
         UNCHANGED <<now, user, stamps, iatCache, issued, served>>
  PROVE  IInv'
BY EndedOK, LocalStep DEF End, IInv, TypeOK

LEMMA FindLoginUserStep ==
  ASSUME IInv, NEW r \in Call, FindLoginUser(r)
  PROVE  IInv'
<1>1. CASE End(r)
  BY <1>1, EndStep DEF FindLoginUser
<1> DEFINE q == [Idle EXCEPT !.pc = "sign", !.password = user.password]
<1>2. CASE call' = [call EXCEPT ![r] = q]
  <2>1. HandlerOK(q)
    BY DEF HandlerOK, IInv, TypeOK, Idle, CallState, Pc, Password
  <2> QED BY <1>2, <2>1, LocalStep DEF FindLoginUser, IInv, TypeOK
<1> QED BY <1>1, <1>2 DEF FindLoginUser

LEMMA SignStep ==
  ASSUME IInv, NEW r \in Call, Sign(r)
  PROVE  IInv'
<1>1. call[r].password \in Password /\ now \in Nat
  BY DEF IInv, TypeOK, CallState
<1>2. issued' \subseteq Jwt
  BY <1>1 DEF Sign, IInv, TypeOK, NewJwt, Jwt
<1> QED BY <1>2, EndedOK, LocalStep DEF Sign, End, IInv, TypeOK

-----------------------------------------------------------------------------
(* The two guards *)

LEMMA CheckAccessStep ==
  ASSUME IInv, NEW r \in Call, NEW jwt \in issued, CheckAccess(r, jwt)
  PROVE  IInv'
<1>1. jwt \in Jwt /\ jwt.kind = "access"
  BY DEF IInv, TypeOK, CheckAccess
<1>2. CASE End(r) /\ served' = served \cup {Verdict(jwt, TRUE)}
  <2>1. Verdict(jwt, TRUE) \in Served /\ VerdictOK(Verdict(jwt, TRUE))
    BY <1>1, VerdictsAreRight
  <2>2. served' \subseteq Served /\ \A s \in served' : VerdictOK(s)
    BY <1>2, <2>1 DEF IInv, TypeOK
  <2> QED BY <1>2, <2>2, EndedOK, LocalStep DEF CheckAccess, End, IInv, TypeOK
<1> DEFINE q == [Idle EXCEPT !.pc = "readUser", !.jwt = jwt]
<1>3. CASE call' = [call EXCEPT ![r] = q] /\ UNCHANGED served
  <2>1. HandlerOK(q)
    BY <1>1 DEF HandlerOK, Idle, CallState, Pc, Password
  <2> QED BY <1>3, <2>1, LocalStep DEF CheckAccess, IInv, TypeOK
<1> QED BY <1>2, <1>3 DEF CheckAccess

LEMMA ReadUserStep ==
  ASSUME IInv, NEW r \in Call, ReadUser(r)
  PROVE  IInv'
<1> DEFINE q == [call[r] EXCEPT !.pc = "fill", !.iat = user.validTokenIat]
<1>1. HandlerOK(call[r]) /\ user.validTokenIat \in stamps /\ user.validTokenIat \in Nat
  BY DEF IInv, UserOK, TypeOK
<1>2. HandlerOK(q)
  BY <1>1 DEF ReadUser, HandlerOK, CallState, Pc
<1>3. call' = [call EXCEPT ![r] = q]
  BY DEF ReadUser, IInv, TypeOK
<1> QED BY <1>2, <1>3, LocalStep DEF ReadUser, IInv, TypeOK

LEMMA FillCacheStep ==
  ASSUME IInv, NEW r \in Call, FillCache(r)
  PROVE  IInv'
<1>1. call[r].iat \in stamps /\ call[r].jwt \in Jwt /\ call[r].jwt.kind = "access"
  BY DEF FillCache, IInv, HandlerOK
<1>2. Verdict(call[r].jwt, TRUE) \in Served /\ VerdictOK(Verdict(call[r].jwt, TRUE))
  BY <1>1, VerdictsAreRight
<1>3. HandlerOK([Idle EXCEPT !.pc = "ended"])'
  BY EndedOK DEF HandlerOK, Idle
<1>4. call' \in [Call -> CallState] /\ \A s \in Call : HandlerOK(call[s])'
  BY <1>3, HandlersKept DEF FillCache, End
<1>5. iatCache' \subseteq stamps' /\ stamps' \subseteq Nat /\ Cardinality(iatCache') <= 1
  <2>1. Cardinality({call[r].iat}) = 1
    BY FS_Singleton
  <2> QED BY <1>1, <2>1 DEF FillCache, IInv, TypeOK
<1>6. served' \subseteq Served /\ \A s \in served' : VerdictOK(s)'
  BY <1>2 DEF FillCache, IInv, TypeOK, VerdictOK
<1> QED BY <1>4, <1>5, <1>6 DEF FillCache, IInv, TypeOK, UserOK, CacheIsCommitted

LEMMA CheckRefreshStep ==
  ASSUME IInv, NEW r \in Call, NEW jwt \in issued, CheckRefresh(r, jwt)
  PROVE  IInv'
<1>1. jwt \in Jwt /\ ValidForRefresh(jwt) \in BOOLEAN
  BY DEF IInv, TypeOK, ValidForRefresh
<1> DEFINE s == Verdict(jwt, ValidForRefresh(jwt))
<1>2. s \in Served /\ VerdictOK(s)
  BY <1>1, VerdictsAreRight
<1>3. served' \subseteq Served /\ \A x \in served' : VerdictOK(x)
  BY <1>2 DEF CheckRefresh, IInv, TypeOK
<1>4. CASE End(r)
  BY <1>3, <1>4, EndedOK, LocalStep DEF CheckRefresh, End, IInv, TypeOK
<1> DEFINE q == [Idle EXCEPT !.pc = "renew", !.jwt = jwt]
<1>5. CASE call' = [call EXCEPT ![r] = q]
  <2>1. HandlerOK(q)
    BY <1>1 DEF HandlerOK, Idle, CallState, Pc, Password
  <2> QED BY <1>3, <1>5, <2>1, LocalStep DEF CheckRefresh, IInv, TypeOK
<1> QED BY <1>4, <1>5 DEF CheckRefresh

LEMMA RenewStep ==
  ASSUME IInv, NEW r \in Call, Renew(r)
  PROVE  IInv'
<1>1. call[r].jwt \in Jwt /\ now \in Nat
  BY DEF Renew, IInv, HandlerOK, TypeOK
<1>2. issued' \subseteq Jwt
  BY <1>1 DEF Renew, IInv, TypeOK, NewJwt, Jwt
<1> QED BY <1>2, EndedOK, LocalStep DEF Renew, End, IInv, TypeOK

-----------------------------------------------------------------------------
(* updatePassword *)

LEMMA ResetPasswordStep ==
  ASSUME IInv, NEW r \in Call, ResetPassword(r)
  PROVE  IInv'
<1> DEFINE q == [Idle EXCEPT !.pc = "save", !.iat = RoundSeconds(now), !.at = now]
<1>1. now \in Nat /\ RoundSeconds(now) \in Nat
  BY RoundingIsNat DEF IInv, TypeOK
<1>2. HandlerOK(q)
  BY <1>1 DEF HandlerOK, Idle, CallState, Pc, Password
<1> QED BY <1>2, LocalStep DEF ResetPassword, IInv, TypeOK

\* A reset on its way to the commit.
LEMMA GotoOK ==
  ASSUME IInv, NEW r \in Call, call[r].pc \in {"save", "clear"},
         NEW pc \in {"clear", "commit"}
  PROVE  HandlerOK([call[r] EXCEPT !.pc = pc])
BY DEF IInv, HandlerOK, CallState, Pc

LEMMA SaveUserStep ==
  ASSUME IInv, NEW r \in Call, SaveUser(r)
  PROVE  IInv'
<1>1. CASE End(r)
  BY <1>1, EndStep DEF SaveUser
<1>2. CASE Goto(r, "clear")
  <2>1. HandlerOK([call[r] EXCEPT !.pc = "clear"])
    BY GotoOK DEF SaveUser
  <2>2. call' = [call EXCEPT ![r] = [call[r] EXCEPT !.pc = "clear"]]
    BY <1>2 DEF Goto, IInv, TypeOK
  <2> QED BY <2>1, <2>2, LocalStep DEF SaveUser, IInv, TypeOK
<1> QED BY <1>1, <1>2 DEF SaveUser

LEMMA ClearCacheStep ==
  ASSUME IInv, NEW r \in Call, ClearCache(r)
  PROVE  IInv'
<1>0. PICK q : q = [call[r] EXCEPT !.pc = "commit"]
  OBVIOUS
<1>1. HandlerOK(q)
  BY <1>0, GotoOK DEF ClearCache
<1>2. call' = [call EXCEPT ![r] = q]
  BY <1>0 DEF ClearCache, Goto, IInv, TypeOK
<1>3. HandlerOK(q)'
  BY <1>1 DEF ClearCache, HandlerOK
<1>4. call' \in [Call -> CallState] /\ \A s \in Call : HandlerOK(call[s])'
  BY <1>2, <1>3, HandlersKept DEF ClearCache
<1>5. iatCache' = {} /\ Cardinality(iatCache') <= 1
  BY FS_EmptySet DEF ClearCache
<1>6. \A s \in served' : VerdictOK(s)'
  BY DEF ClearCache, IInv, VerdictOK
<1> QED BY <1>4, <1>5, <1>6 DEF ClearCache, IInv, TypeOK, UserOK, CacheIsCommitted

LEMMA CommitPasswordStep ==
  ASSUME IInv, NEW r \in Call, CommitPassword(r)
  PROVE  IInv'
<1>1. /\ call[r].iat \in Nat /\ call[r].at \in Nat
      /\ call[r].iat = RoundSeconds(call[r].at)
  BY DEF CommitPassword, IInv, TypeOK, HandlerOK, CallState
<1>2. HandlerOK([Idle EXCEPT !.pc = "ended"])'
  BY EndedOK DEF HandlerOK, Idle
<1>3. call' \in [Call -> CallState] /\ \A s \in Call : HandlerOK(call[s])'
  BY <1>2, HandlersKept DEF CommitPassword, End
<1>4. UserOK' /\ user' \in [password : Password, validTokenIat : Nat, changedAt : Nat]
  BY <1>1 DEF CommitPassword, UserOK, Password
<1>5. stamps' \subseteq Nat /\ CacheIsCommitted'
  BY <1>1 DEF CommitPassword, IInv, TypeOK, CacheIsCommitted
<1>6. \A s \in served' : VerdictOK(s)'
  BY DEF CommitPassword, IInv, VerdictOK
<1> QED BY <1>3, <1>4, <1>5, <1>6 DEF CommitPassword, IInv, TypeOK

-----------------------------------------------------------------------------
(* The theorems *)

\* The invariant holds in every state, whatever interleaves or fails.
THEOREM SessionsInvariance == Spec => []IInv
<1>1. Init => IInv
  <2> SUFFICES ASSUME Init
               PROVE  IInv
    OBVIOUS
  <2>1. RoundSeconds(0) \in Nat
    BY RoundingIsNat
  <2>2. Cardinality(iatCache) <= 1
    BY FS_EmptySet DEF Init
  <2>3. TypeOK /\ UserOK
    BY <2>1, <2>2 DEF Init, TypeOK, UserOK, Idle, CallState, Pc, Password
  <2>4. \A r \in Call : HandlerOK(call[r])
    BY DEF Init, HandlerOK, Idle, CallState, Pc, Password
  <2> QED BY <2>3, <2>4 DEF Init, IInv, CacheIsCommitted
<1>2. IInv /\ [Next]_vars => IInv'
  <2> SUFFICES ASSUME IInv, [Next]_vars
               PROVE  IInv'
    OBVIOUS
  <2>1. CASE Tick
    BY <2>1 DEF Tick, IInv, TypeOK, UserOK, CacheIsCommitted, HandlerOK, VerdictOK
  <2>2. CASE ExpireCache
    <3>1. Cardinality(iatCache') <= 1
      BY <2>2, FS_EmptySet DEF ExpireCache
    <3> QED BY <2>2, <3>1 DEF ExpireCache, IInv, TypeOK, UserOK, CacheIsCommitted,
                              HandlerOK, VerdictOK
  <2>3. ASSUME NEW r \in Call, FindLoginUser(r) \/ ResetPassword(r) \/ Fail(r)
        PROVE  IInv'
    BY <2>3, FindLoginUserStep, ResetPasswordStep, EndStep DEF Fail
  <2>4. ASSUME NEW r \in Call, NEW jwt \in issued,
               CheckAccess(r, jwt) \/ CheckRefresh(r, jwt)
        PROVE  IInv'
    BY <2>4, CheckAccessStep, CheckRefreshStep
  <2>5. ASSUME NEW r \in Call, Step(r)
        PROVE  IInv'
    BY <2>5, SignStep, ReadUserStep, FillCacheStep, RenewStep, SaveUserStep,
       ClearCacheStep, CommitPasswordStep DEF Step
  <2>6. CASE UNCHANGED vars
    BY <2>6 DEF vars, IInv, TypeOK, UserOK, CacheIsCommitted, HandlerOK, VerdictOK
  <2> QED BY <2>1, <2>2, <2>3, <2>4, <2>5, <2>6 DEF Next
<1> QED BY <1>1, <1>2, PTL DEF Spec

\* Tokens, cache and handlers are well typed.
THEOREM SessionsTypeCorrect == Spec => []TypeOK
<1>1. IInv => TypeOK
  BY DEF IInv
<1> QED BY <1>1, SessionsInvariance, PTL

\* isTokenValid, updatePassword: the cache holds committed values only.
THEOREM CacheIsSound == Spec => []CacheIsCommitted
<1>1. IInv => CacheIsCommitted
  BY DEF IInv
<1> QED BY <1>1, SessionsInvariance, PTL

\* JwtRefreshTokenStrategy: whatever the clock and the calls do, a session
\* begun a second and a half after the change of the password is refreshed.
THEOREM NewSessionsLast == Spec => []NewSessionRefreshes
<1>1. IInv => NewSessionRefreshes
  <2> SUFFICES ASSUME IInv, NEW s \in served,
                      s.jwt.kind = "refresh", s.jwt.at >= s.changedAt + 3
               PROVE  s.accepted
    BY DEF NewSessionRefreshes
  <2>1. s.jwt.at \in Nat /\ s.changedAt \in Nat
    BY DEF IInv, TypeOK, Served, Jwt
  <2>2. RoundSeconds(s.changedAt) < Floor(s.jwt.at)
    BY <2>1, RoundingGap
  <2> QED BY <2>2 DEF IInv, VerdictOK, Iat
<1> QED BY <1>1, SessionsInvariance, PTL

-----------------------------------------------------------------------------
(* The steps of one handler *)

LEMMA EndsAt ==
  ASSUME IInv, NEW r \in Call, End(r)
  PROVE  (\A s \in Call \ {r} : call'[s] = call[s]) /\ call'[r].pc = "ended"
BY DEF End, IInv, TypeOK, Idle

LEMMA GoesTo ==
  ASSUME IInv, NEW r \in Call, NEW pc, Goto(r, pc)
  PROVE  /\ \A s \in Call \ {r} : call'[s] = call[s]
         /\ call'[r].pc = pc /\ call'[r].at = call[r].at /\ call'[r].iat = call[r].iat
<1>1. call \in [Call -> CallState]
  BY DEF IInv, TypeOK
<1>2. call' = [call EXCEPT ![r] = [call[r] EXCEPT !.pc = pc]]
  BY <1>1 DEF Goto
<1> QED BY <1>1, <1>2 DEF CallState

\* A call arrives: its handler has ended at once, or it goes on from one of
\* four places.
Enters(r) ==
  /\ \A s \in Call \ {r} : call'[s] = call[s]
  /\ \/ call'[r].pc \in {"ended", "readUser", "renew"}
     \/ call'[r].pc = "sign" /\ call'[r].password = user.password
     \/ call'[r].pc = "save" /\ call'[r].at = now

LEMMA ArrivalEnters ==
  ASSUME IInv, NEW r \in Call,
         \/ FindLoginUser(r) \/ ResetPassword(r)
         \/ \E jwt \in issued : CheckAccess(r, jwt) \/ CheckRefresh(r, jwt)
  PROVE  Enters(r) /\ call[r].pc = "idle" /\ UNCHANGED <<now, user, iatCache, issued>>
<1>0. call \in [Call -> CallState]
  BY DEF IInv, TypeOK
<1>1. UNCHANGED <<now, user, iatCache, issued>> /\ call[r].pc = "idle"
  BY DEF FindLoginUser, ResetPassword, CheckAccess, CheckRefresh, Arrives
<1>2. CASE End(r)
  BY <1>1, <1>2, EndsAt DEF Enters
<1>3. CASE call' = [call EXCEPT ![r] = [Idle EXCEPT !.pc = "sign", !.password = user.password]]
  BY <1>0, <1>1, <1>3 DEF Enters, Idle
<1>4. CASE call' = [call EXCEPT ![r] = [Idle EXCEPT !.pc = "save", !.iat = RoundSeconds(now),
                                                      !.at = now]]
  BY <1>0, <1>1, <1>4 DEF Enters, Idle
<1>5. ASSUME NEW jwt \in issued,
             \/ call' = [call EXCEPT ![r] = [Idle EXCEPT !.pc = "readUser", !.jwt = jwt]]
             \/ call' = [call EXCEPT ![r] = [Idle EXCEPT !.pc = "renew", !.jwt = jwt]]
      PROVE  Enters(r)
  BY <1>0, <1>5 DEF Enters, Idle
<1> QED BY <1>1, <1>2, <1>3, <1>4, <1>5 DEF FindLoginUser, ResetPassword, CheckAccess,
        CheckRefresh

-----------------------------------------------------------------------------
(* Sessions of an earlier password *)

Resetting == {"save", "clear", "commit"}

\* A session is of the password of now, or not younger than the change.
Outdated(jwt) == jwt.password = user.password \/ jwt.at <= user.changedAt

\* No session is younger than a stamp that is on its way to the database, and
\* a login that has read the user has read the password of now.
LoginsOK ==
  /\ \A jwt \in issued : jwt.kind = "refresh" => jwt.at <= now /\ Outdated(jwt)
  /\ \A r \in Call :
       /\ call[r].pc = "sign" => call[r].password = user.password
       /\ call[r].pc \in Resetting =>
            \A jwt \in issued : jwt.kind = "refresh" => jwt.at <= call[r].at
  /\ RefreshedIsCurrent

\* The strict comparison undoes what either rounding can gain.
LEMMA RoundingOrder ==
  ASSUME NEW t \in Nat, NEW u \in Nat, u <= t
  PROVE  Floor(u) <= RoundSeconds(t)
BY DEF RoundSeconds, Floor

\* The guard lets a refresh token pass only if it is of the password of now.
LEMMA AcceptedIsCurrent ==
  ASSUME IInv, LoginsOK, NEW jwt \in issued, jwt.kind = "refresh", ValidForRefresh(jwt)
  PROVE  jwt.password = user.password
<1>1. /\ jwt.at \in Nat /\ user.changedAt \in Nat /\ user.validTokenIat \in Nat
      /\ user.validTokenIat = RoundSeconds(user.changedAt)
  BY DEF IInv, TypeOK, UserOK, Jwt
<1>2. Floor(jwt.at) \in Nat /\ user.validTokenIat < Floor(jwt.at)
  BY <1>1, RoundingIsNat DEF ValidForRefresh, Iat
<1>3. ~ jwt.at <= user.changedAt
  BY <1>1, <1>2, RoundingOrder
<1> QED BY <1>3 DEF LoginsOK, Outdated

\* What a check adds to the record.
LEMMA CheckedIsCurrent ==
  ASSUME IInv, LoginsOK, [Next]_vars
  PROVE  RefreshedIsCurrent'
<1>1. CASE served' = served
  BY <1>1 DEF LoginsOK, RefreshedIsCurrent
<1>2. ASSUME NEW jwt \in Jwt, jwt.kind = "access", served' = served \cup {Verdict(jwt, TRUE)}
      PROVE  RefreshedIsCurrent'
  BY <1>2 DEF LoginsOK, RefreshedIsCurrent, Verdict
<1>3. ASSUME NEW r \in Call, NEW jwt \in issued, CheckAccess(r, jwt)
      PROVE  RefreshedIsCurrent'
  BY <1>1, <1>2, <1>3 DEF CheckAccess, IInv, TypeOK
<1>4. ASSUME NEW r \in Call, FillCache(r)
      PROVE  RefreshedIsCurrent'
  BY <1>2, <1>4 DEF FillCache, IInv, HandlerOK
<1>5. ASSUME NEW r \in Call, NEW jwt \in issued, CheckRefresh(r, jwt)
      PROVE  RefreshedIsCurrent'
  <2>1. ValidForRefresh(jwt) => jwt.password = user.password
    BY <1>5, AcceptedIsCurrent DEF CheckRefresh
  <2>2. served' = served \cup {Verdict(jwt, ValidForRefresh(jwt))}
    BY <1>5 DEF CheckRefresh
  <2> QED BY <2>1, <2>2 DEF LoginsOK, RefreshedIsCurrent, Verdict
<1> QED BY <1>1, <1>3, <1>4, <1>5 DEF Next, Step, Tick, ExpireCache, FindLoginUser, ResetPassword,
        Fail, Sign, ReadUser, Renew, SaveUser, ClearCache, CommitPassword, vars

\* A step that changes neither the user nor the sessions, in which handlers
\* come no nearer to either.
LEMMA LoginsKept ==
  ASSUME LoginsOK, RefreshedIsCurrent', now' \in Nat, now \in Nat, now <= now', issued \subseteq Jwt,
         user' = user, \A jwt \in issued' : jwt.kind = "refresh" => jwt \in issued,
         \A s \in Call :
           \/ call'[s].pc \notin Resetting \cup {"sign"}
           \/ call'[s].pc = "sign" /\ call'[s].password = user.password
           \/ call'[s].pc \in Resetting /\ call'[s].at = now
           \/ /\ call'[s].pc \in Resetting /\ call[s].pc \in Resetting
              /\ call'[s].at = call[s].at
  PROVE  LoginsOK'
<1>1. \A jwt \in issued' : jwt.kind = "refresh" => jwt.at <= now' /\ Outdated(jwt)'
  <2> SUFFICES ASSUME NEW jwt \in issued', jwt.kind = "refresh"
               PROVE  jwt.at <= now' /\ Outdated(jwt)'
    OBVIOUS
  <2>1. jwt \in issued /\ jwt.at \in Nat /\ jwt.at <= now /\ Outdated(jwt)
    BY DEF LoginsOK, Jwt
  <2> QED BY <2>1 DEF Outdated
<1>2. ASSUME NEW s \in Call
      PROVE  /\ call'[s].pc = "sign" => call'[s].password = user'.password
             /\ call'[s].pc \in Resetting =>
                  \A jwt \in issued' : jwt.kind = "refresh" => jwt.at <= call'[s].at
  BY DEF LoginsOK, Resetting
<1> QED BY <1>1, <1>2 DEF LoginsOK

LEMMA LoginsStep ==
  ASSUME IInv, LoginsApart, LoginsOK, [Next]_vars
  PROVE  LoginsOK'
<1>1. call \in [Call -> CallState] /\ now \in Nat /\ issued \subseteq Jwt
  BY DEF IInv, TypeOK
<1>2. RefreshedIsCurrent'
  BY CheckedIsCurrent
<1> DEFINE Stays(s) == \/ call'[s].pc \notin Resetting \cup {"sign"}
                       \/ call'[s].pc = "sign" /\ call'[s].password = user.password
                       \/ call'[s].pc \in Resetting /\ call'[s].at = now
                       \/ /\ call'[s].pc \in Resetting /\ call[s].pc \in Resetting
                          /\ call'[s].at = call[s].at
<1>3. \A s \in Call : call'[s] = call[s] => Stays(s)
  BY DEF LoginsOK
<1>4. CASE UNCHANGED <<user, issued, call>> /\ now' \in Nat /\ now <= now'
  BY <1>1, <1>2, <1>3, <1>4, LoginsKept
<1>5. ASSUME NEW r \in Call, UNCHANGED <<now, user>>,
             \A jwt \in issued' : jwt.kind = "refresh" => jwt \in issued,
             \A s \in Call \ {r} : call'[s] = call[s], Stays(r)
      PROVE  LoginsOK'
  <2>1. \A s \in Call : Stays(s)
    BY <1>3, <1>5
  <2> QED BY <1>1, <1>2, <1>5, <2>1, LoginsKept
<1>6. ASSUME NEW r \in Call, End(r), UNCHANGED <<now, user>>,
             \A jwt \in issued' : jwt.kind = "refresh" => jwt \in issued
      PROVE  LoginsOK'
  BY <1>5, <1>6, EndsAt DEF Resetting
<1>7. CASE Tick \/ ExpireCache \/ UNCHANGED vars
  BY <1>1, <1>4, <1>7 DEF Tick, ExpireCache, vars
<1>8. ASSUME NEW r \in Call,
             \/ FindLoginUser(r) \/ ResetPassword(r)
             \/ \E jwt \in issued : CheckAccess(r, jwt) \/ CheckRefresh(r, jwt)
      PROVE  LoginsOK'
  <2>1. Enters(r) /\ UNCHANGED <<now, user, issued>>
    BY <1>8, ArrivalEnters
  <2> QED BY <1>5, <2>1 DEF Enters, Resetting
<1>9. ASSUME NEW r \in Call, Fail(r) \/ FillCache(r)
      PROVE  LoginsOK'
  BY <1>6, <1>9 DEF Fail, FillCache
<1>10. ASSUME NEW r \in Call, Sign(r)
       PROVE  LoginsOK'
  <2>1. /\ call[r].pc = "sign" /\ call[r].password = user.password /\ UNCHANGED <<now, user>>
        /\ \A s \in Call : call[s].pc \notin Resetting
    BY <1>10 DEF Sign, LoginsOK, LoginsApart, Resetting
  <2>2. \A jwt \in issued' : jwt \in issued \/ (jwt.at = now /\ jwt.password = user.password)
    BY <1>10, <2>1 DEF Sign, NewJwt
  <2>3. (\A s \in Call \ {r} : call'[s] = call[s]) /\ call'[r].pc = "ended"
    BY <1>10, EndsAt DEF Sign
  <2>4. \A jwt \in issued' : jwt.kind = "refresh" => jwt.at <= now' /\ Outdated(jwt)'
    BY <1>1, <2>1, <2>2 DEF LoginsOK, Outdated
  <2>5. \A s \in Call : /\ call'[s].pc = "sign" => call'[s].password = user'.password
                        /\ call'[s].pc \notin Resetting
    BY <2>1, <2>3 DEF LoginsOK, Resetting
  <2> QED BY <1>2, <2>4, <2>5 DEF LoginsOK
<1>11. ASSUME NEW r \in Call, ReadUser(r)
       PROVE  LoginsOK'
  <2>1. call'[r].pc = "fill" /\ \A s \in Call \ {r} : call'[s] = call[s]
    BY <1>1, <1>11 DEF ReadUser, CallState
  <2> QED BY <1>5, <1>11, <2>1 DEF ReadUser, Resetting
<1>12. ASSUME NEW r \in Call, Renew(r)
       PROVE  LoginsOK'
  BY <1>6, <1>12 DEF Renew, NewJwt
<1>13. ASSUME NEW r \in Call, SaveUser(r) \/ ClearCache(r)
       PROVE  LoginsOK'
  <2>1. UNCHANGED <<now, user, issued>> /\ call[r].pc \in Resetting
    BY <1>13 DEF SaveUser, ClearCache, Resetting
  <2>2. CASE Goto(r, "clear") \/ Goto(r, "commit")
    <3>1. /\ \A s \in Call \ {r} : call'[s] = call[s]
          /\ call'[r].pc \in Resetting /\ call'[r].at = call[r].at
      BY <2>2, GoesTo DEF Resetting
    <3> QED BY <1>5, <2>1, <3>1
  <2> QED BY <1>6, <1>13, <2>1, <2>2 DEF SaveUser, ClearCache
<1>14. ASSUME NEW r \in Call, CommitPassword(r)
       PROVE  LoginsOK'
  <2>1. /\ UNCHANGED <<now, issued>> /\ user'.changedAt = call[r].at
        /\ \A jwt \in issued : jwt.kind = "refresh" => jwt.at <= call[r].at
        /\ \A s \in Call : call[s].pc # "sign"
    BY <1>14 DEF CommitPassword, LoginsOK, LoginsApart, Resetting
  <2>2. (\A s \in Call \ {r} : call'[s] = call[s]) /\ call'[r].pc = "ended"
    BY <1>14, EndsAt DEF CommitPassword
  <2>3. \A jwt \in issued' : jwt.kind = "refresh" => jwt.at <= now' /\ Outdated(jwt)'
    BY <2>1 DEF LoginsOK, Outdated
  <2>4. \A s \in Call : /\ call'[s].pc # "sign"
                        /\ call'[s].pc \in Resetting =>
                             \A jwt \in issued' : jwt.kind = "refresh" => jwt.at <= call'[s].at
    BY <2>1, <2>2 DEF LoginsOK, Resetting
  <2> QED BY <1>2, <2>3, <2>4 DEF LoginsOK
<1> QED BY <1>7, <1>8, <1>9, <1>10, <1>11, <1>12, <1>13, <1>14 DEF Next, Step

\* AuthService.login, updatePassword, JwtRefreshTokenStrategy: whatever else
\* overlaps, if no login is between its read of the user and its signature
\* while a reset is between its stamp and its commit, the refresh guard
\* accepts only sessions begun with the password of now.
THEOREM OldSessionsEnd == Spec /\ []LoginsApart => []RefreshedIsCurrent
<1>1. Init => LoginsOK
  BY DEF Init, Idle, LoginsOK, Resetting, RefreshedIsCurrent
<1>2. IInv /\ LoginsApart /\ LoginsOK /\ [Next]_vars => LoginsOK'
  BY LoginsStep
<1>3. LoginsOK => RefreshedIsCurrent
  BY DEF LoginsOK
<1> QED BY <1>1, <1>2, <1>3, SessionsInvariance, PTL DEF Spec

-----------------------------------------------------------------------------
(* The cache *)

Writing == {"clear", "commit"}

\* One reset at a time holds the user's document; until it commits the cache it
\* has cleared stays empty, and what a check has read is still so.
CacheOK ==
  /\ \A r, s \in Call : call[r].pc \in Writing /\ call[s].pc \in Writing => r = s
  /\ \A r \in Call : call[r].pc = "commit" => iatCache = {}
  /\ \A r \in Call : call[r].pc = "fill" => call[r].iat = user.validTokenIat
  /\ iatCache \subseteq {user.validTokenIat}

LEMMA CacheStep ==
  ASSUME IInv, ChecksApart, CacheOK, [Next]_vars
  PROVE  CacheOK'
<1>1. call \in [Call -> CallState]
  BY DEF IInv, TypeOK
<1>2. ASSUME NEW r \in Call, \A s \in Call \ {r} : call'[s] = call[s],
             UNCHANGED <<user, iatCache>>,
             \/ call'[r].pc \notin Writing \cup {"fill"}
             \/ call'[r].pc = "fill" /\ call'[r].iat = user.validTokenIat
      PROVE  CacheOK'
  BY <1>2 DEF CacheOK, Writing
<1>3. ASSUME NEW r \in Call, End(r), UNCHANGED <<user, iatCache>>
      PROVE  CacheOK'
  BY <1>2, <1>3, EndsAt DEF Writing
<1>4. CASE Tick \/ ExpireCache \/ UNCHANGED vars
  BY <1>4 DEF Tick, ExpireCache, vars, CacheOK
<1>5. ASSUME NEW r \in Call,
             \/ FindLoginUser(r) \/ ResetPassword(r)
             \/ \E jwt \in issued : CheckAccess(r, jwt) \/ CheckRefresh(r, jwt)
      PROVE  CacheOK'
  <2>1. Enters(r) /\ UNCHANGED <<user, iatCache>>
    BY <1>5, ArrivalEnters
  <2> QED BY <1>2, <2>1 DEF Enters, Writing
<1>6. ASSUME NEW r \in Call, Sign(r) \/ Renew(r) \/ Fail(r)
      PROVE  CacheOK'
  BY <1>3, <1>6 DEF Sign, Renew, Fail
<1>7. ASSUME NEW r \in Call, ReadUser(r)
      PROVE  CacheOK'
  <2>1. /\ \A s \in Call \ {r} : call'[s] = call[s]
        /\ call'[r].pc = "fill" /\ call'[r].iat = user.validTokenIat
    BY <1>1, <1>7 DEF ReadUser, CallState
  <2> QED BY <1>2, <1>7, <2>1 DEF ReadUser
<1>8. ASSUME NEW r \in Call, FillCache(r)
      PROVE  CacheOK'
  <2>1. /\ iatCache' = {user.validTokenIat} /\ user' = user
        /\ \A s \in Call : call[s].pc # "commit"
    BY <1>8 DEF FillCache, CacheOK, ChecksApart
  <2>2. (\A s \in Call \ {r} : call'[s] = call[s]) /\ call'[r].pc = "ended"
    BY <1>8, EndsAt DEF FillCache
  <2> QED BY <2>1, <2>2 DEF CacheOK, Writing
<1>9. ASSUME NEW r \in Call, SaveUser(r)
      PROVE  CacheOK'
  <2>1. UNCHANGED <<user, iatCache>>
    BY <1>9 DEF SaveUser
  <2>2. CASE Goto(r, "clear") /\ \A s \in Call : call[s].pc \notin Writing
    <3>1. (\A s \in Call \ {r} : call'[s] = call[s]) /\ call'[r].pc = "clear"
      BY <2>2, GoesTo
    <3> QED BY <2>1, <2>2, <3>1 DEF CacheOK, Writing
  <2> QED BY <1>3, <1>9, <2>1, <2>2 DEF SaveUser, Writing
<1>10. ASSUME NEW r \in Call, ClearCache(r)
       PROVE  CacheOK'
  <2>1. (\A s \in Call \ {r} : call'[s] = call[s]) /\ call'[r].pc = "commit"
    BY <1>10, GoesTo DEF ClearCache
  <2> QED BY <1>10, <2>1 DEF ClearCache, CacheOK, Writing
<1>11. ASSUME NEW r \in Call, CommitPassword(r)
       PROVE  CacheOK'
  <2>1. /\ iatCache = {} /\ iatCache' = {} /\ call[r].pc = "commit"
        /\ \A s \in Call : call[s].pc # "fill" /\ (s # r => call[s].pc \notin Writing)
    BY <1>11 DEF CommitPassword, CacheOK, ChecksApart, Writing
  <2>2. (\A s \in Call \ {r} : call'[s] = call[s]) /\ call'[r].pc = "ended"
    BY <1>11, EndsAt DEF CommitPassword
  <2> QED BY <2>1, <2>2 DEF CacheOK, Writing
<1> QED BY <1>4, <1>5, <1>6, <1>7, <1>8, <1>9, <1>10, <1>11 DEF Next, Step

\* updatePassword, isTokenValid: whatever else overlaps, if no check is about
\* to fill the cache while a reset has cleared it and not committed, what the
\* cache holds is the database's value.
THEOREM CacheAgrees == Spec /\ []ChecksApart => []CacheFresh
<1>1. Init => CacheOK
  BY DEF Init, Idle, CacheOK, Writing
<1>2. IInv /\ ChecksApart /\ CacheOK /\ [Next]_vars => CacheOK'
  BY CacheStep
<1>3. CacheOK => CacheFresh
  BY DEF CacheOK, CacheFresh
<1> QED BY <1>1, <1>2, <1>3, SessionsInvariance, PTL DEF Spec

-----------------------------------------------------------------------------
(* One call at a time *)

LEMMA ArrivesAlone ==
  ASSUME IsFiniteSet(Call), MaxInFlight = 1, NEW r \in Call, Arrives(r)
  PROVE  InFlight = {}
<1>1. InFlight \subseteq Call
  BY DEF InFlight
<1>2. IsFiniteSet(InFlight)
  BY <1>1, FS_Subset
<1>3. Cardinality(InFlight) \in Nat /\ Cardinality(InFlight) < 1
  BY <1>2, FS_CardinalityType DEF Arrives
<1> QED BY <1>2, <1>3, FS_EmptySet

Alone == \A r, s \in InFlight : r = s

LEMMA AloneStep ==
  ASSUME IsFiniteSet(Call), MaxInFlight = 1, IInv, Alone, [Next]_vars
  PROVE  Alone'
<1>1. call \in [Call -> CallState]
  BY DEF IInv, TypeOK
<1>2. CASE call' = call
  BY <1>2 DEF Alone, InFlight
<1>3. ASSUME NEW r \in Call, \A s \in Call \ {r} : call'[s] = call[s],
             InFlight = {} \/ r \in InFlight
      PROVE  Alone'
  BY <1>3 DEF Alone, InFlight
<1>4. ASSUME NEW r \in Call,
             \/ FindLoginUser(r) \/ ResetPassword(r)
             \/ \E jwt \in issued : CheckAccess(r, jwt) \/ CheckRefresh(r, jwt)
      PROVE  Alone'
  <2>1. InFlight = {}
    BY <1>4, ArrivesAlone DEF FindLoginUser, ResetPassword, CheckAccess, CheckRefresh
  <2> QED BY <1>3, <1>4, <2>1, ArrivalEnters DEF Enters
<1>5. ASSUME NEW r \in Call, Step(r) \/ Fail(r)
      PROVE  Alone'
  <2>1. r \in InFlight
    BY <1>5 DEF InFlight, Step, Fail, Sign, ReadUser, FillCache, Renew, SaveUser, ClearCache,
         CommitPassword
  <2>2. \A s \in Call \ {r} : call'[s] = call[s]
    BY <1>1, <1>5, EndsAt, GoesTo DEF Step, Fail, Sign, ReadUser, FillCache, Renew, SaveUser,
         ClearCache, CommitPassword
  <2> QED BY <1>3, <2>1, <2>2
<1> QED BY <1>2, <1>4, <1>5 DEF Next, Tick, ExpireCache, vars

\* A server that runs one call at a time never meets either overlap.
THEOREM SessionsAloneApart ==
  ASSUME IsFiniteSet(Call), MaxInFlight = 1
  PROVE  Spec => [](LoginsApart /\ ChecksApart)
<1>1. Init => Alone
  BY DEF Init, Idle, Alone, InFlight
<1>2. IInv /\ Alone /\ [Next]_vars => Alone'
  BY AloneStep
<1>3. Alone => LoginsApart /\ ChecksApart
  BY DEF Alone, LoginsApart, ChecksApart, InFlight
<1> QED BY <1>1, <1>2, <1>3, SessionsInvariance, PTL DEF Spec
=============================================================================
