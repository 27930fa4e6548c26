---------------------------- MODULE BrowserProofs ----------------------------
(***************************************************************************)
(* Proofs about Browser: the sessions do not notice it, for any number of  *)
(* requests under way; and what a browser that waits for its answers can   *)
(* rely on, whatever the other devices do at the same time.                *)
(***************************************************************************)
EXTENDS Browser, SessionsProofs

-----------------------------------------------------------------------------
(* Every behaviour with a browser is one of Sessions *)

\* The browser has its tokens from the service.
TokensIssued ==
  /\ \A c \in jar : c.jwt \in issued
  /\ \A a \in answers : \A c \in a.sets : c.jwt \in issued

LEMMA StepIsSessions ==
  ASSUME TokensIssued, [BrowserNext]_allVars
  PROVE  [Next]_vars
<1>1. ASSUME NEW r \in Call, NEW k \in Kind, Login(r, k)
      PROVE  Next
  BY <1>1 DEF Login, Next
<1>2. ASSUME NEW r \in Call, AnswerLogin(r) \/ AnswerRefresh(r)
      PROVE  Next
  BY <1>2 DEF AnswerLogin, AnswerRefresh, Next, Step
<1>3. ASSUME NEW r \in Call, Refresh(r)
      PROVE  Next
  <2>1. PICK c \in jar : CheckRefresh(r, c.jwt)
    BY <1>3 DEF Refresh
  <2>2. c.jwt \in issued
    BY DEF TokensIssued
  <2> QED BY <2>1, <2>2 DEF Next
<1>4. ASSUME NEW r \in Call, Logout(r)
      PROVE  Next
  <2>1. FindLoginUser(r)
    BY <1>4 DEF Logout, FindLoginUser
  <2> QED BY <2>1 DEF Next
<1>5. ASSUME NEW r \in Call, Unnoticed(r)
      PROVE  Next
  BY <1>5 DEF Unnoticed, Next, Step
<1>6. ASSUME (\E a \in answers : ApplyAnswer(a) \/ LoseAnswer(a)) \/ (\E c \in jar : DropCookie(c))
             \/ Close \/ UNCHANGED allVars
      PROVE  UNCHANGED vars
  BY <1>6 DEF ApplyAnswer, LoseAnswer, DropCookie, Close, allVars, vars
<1>7. ASSUME Tick \/ ExpireCache
      PROVE  Next
  BY <1>7 DEF Next
<1> QED BY <1>1, <1>2, <1>3, <1>4, <1>5, <1>6, <1>7 DEF BrowserNext

\* No handler takes a token back.
LEMMA IssuedGrows ==
  ASSUME [Next]_vars
  PROVE  issued \subseteq issued'
BY DEF Next, vars, Tick, ExpireCache, FindLoginUser, ResetPassword, CheckAccess, CheckRefresh,
       Step, Sign, ReadUser, FillCache, Renew, SaveUser, ClearCache, CommitPassword, Fail

LEMMA TokensIssuedStep ==
  ASSUME TokensIssued, [BrowserNext]_allVars
  PROVE  TokensIssued'
<1>1. issued \subseteq issued'
  BY StepIsSessions, IssuedGrows
<1>2. ASSUME NEW r \in Call, AnswerLogin(r)
      PROVE  TokensIssued'
  <2>1. \A c \in LoginCookies(r) : c.jwt \in issued'
    BY <1>2 DEF AnswerLogin, Sign, LoginCookies, NewCookie
  <2> QED BY <1>1, <1>2, <2>1 DEF AnswerLogin, Answers, TokensIssued
<1>3. ASSUME NEW r \in Call, AnswerRefresh(r)
      PROVE  TokensIssued'
  <2>1. RefreshCookie(r).jwt \in issued'
    BY <1>3 DEF AnswerRefresh, Renew, RefreshCookie, NewCookie
  <2> QED BY <1>1, <1>3, <2>1 DEF AnswerRefresh, Answers, TokensIssued
<1>4. ASSUME NEW r \in Call, (\E k \in Kind : Login(r, k)) \/ Refresh(r)
      PROVE  TokensIssued'
  BY <1>1, <1>4 DEF Login, Refresh, Asks, TokensIssued
<1>5. ASSUME NEW r \in Call, Logout(r)
      PROVE  TokensIssued'
  BY <1>1, <1>5 DEF Logout, Asks, Answers, TokensIssued
<1>6. ASSUME NEW a \in answers, ApplyAnswer(a) \/ LoseAnswer(a)
      PROVE  TokensIssued'
  BY <1>1, <1>6 DEF ApplyAnswer, LoseAnswer, TokensIssued, vars
<1>7. ASSUME (\E c \in jar : DropCookie(c)) \/ Close
      PROVE  TokensIssued'
  BY <1>1, <1>7 DEF DropCookie, Close, TokensIssued
<1>8. ASSUME UNCHANGED browserVars \/ UNCHANGED allVars
      PROVE  TokensIssued'
  BY <1>1, <1>8 DEF browserVars, allVars, TokensIssued
<1>9. ASSUME NEW r \in Call, Unnoticed(r)
      PROVE  TokensIssued'
  BY <1>8, <1>9 DEF Unnoticed
<1> QED BY <1>2, <1>3, <1>4, <1>5, <1>6, <1>7, <1>8, <1>9 DEF BrowserNext

\* Every behaviour of Browser is one of Sessions, so that what is proved of
\* the tokens and the cache holds with the browser's cookies between them.
THEOREM SessionsUndisturbed == BrowserSpec => Spec
<1>1. BrowserInit => Init /\ TokensIssued
  BY DEF BrowserInit, TokensIssued
<1>2. TokensIssued /\ [BrowserNext]_allVars => TokensIssued' /\ [Next]_vars
  BY StepIsSessions, TokensIssuedStep
<1> QED BY <1>1, <1>2, PTL DEF BrowserSpec, Spec

-----------------------------------------------------------------------------
(* Types *)

LEMMA CookieTyped ==
  ASSUME NEW name \in Name, NEW path \in Path, NEW jwt \in Jwt, NEW kept \in BOOLEAN
  PROVE  NewCookie(name, path, jwt, kept) \in Cookie
BY DEF NewCookie, Cookie

LEMMA BrowserTypeStep ==
  ASSUME TypeOK, TypeOK', TokensIssued', BrowserTypeOK, [BrowserNext]_allVars
  PROVE  BrowserTypeOK'
<1>1. ASSUME NEW r \in Call, AnswerLogin(r)
      PROVE  BrowserTypeOK'
  <2>1. \A c \in LoginCookies(r) : c \in Cookie
    <3>1. \A k \in {"access", "refresh"} : NewJwt(k, call[r].password) \in Jwt
      BY <1>1 DEF AnswerLogin, Sign, TypeOK
    <3>2. (kind[r] = "remember") \in BOOLEAN
      OBVIOUS
    <3> QED BY <3>1, <3>2, CookieTyped, Zenon DEF LoginCookies, Name, Path
  <2> QED BY <1>1, <2>1 DEF AnswerLogin, Answers, BrowserTypeOK, Answer
<1>2. ASSUME NEW r \in Call, AnswerRefresh(r)
      PROVE  BrowserTypeOK'
  <2>1. RefreshCookie(r) \in Cookie
    <3>1. NewJwt("access", call[r].jwt.password) \in Jwt
      BY <1>2 DEF AnswerRefresh, Renew, TypeOK
    <3> QED BY <3>1 DEF RefreshCookie, NewCookie, Cookie, Name, Path
  <2> QED BY <1>2, <2>1 DEF AnswerRefresh, Answers, BrowserTypeOK, Answer
<1>3. ASSUME NEW r \in Call, (\E k \in Kind : Login(r, k)) \/ Refresh(r)
      PROVE  BrowserTypeOK'
  BY <1>3 DEF Login, Refresh, Asks, Kind, BrowserTypeOK
<1>4. ASSUME NEW r \in Call, Logout(r)
      PROVE  BrowserTypeOK'
  BY <1>4 DEF Logout, Asks, Answers, Kind, BrowserTypeOK, Answer, Cleared, Name, Path
<1>5. ASSUME NEW a \in answers, ApplyAnswer(a) \/ LoseAnswer(a)
      PROVE  BrowserTypeOK'
  BY <1>5 DEF ApplyAnswer, LoseAnswer, BrowserTypeOK, Answer
<1>6. ASSUME (\E c \in jar : DropCookie(c)) \/ Close
      PROVE  BrowserTypeOK'
  BY <1>6 DEF DropCookie, Close, BrowserTypeOK
<1>7. ASSUME UNCHANGED browserVars \/ UNCHANGED allVars \/ \E r \in Call : Unnoticed(r)
      PROVE  BrowserTypeOK'
  BY <1>7 DEF Unnoticed, browserVars, allVars, BrowserTypeOK
<1> QED BY <1>1, <1>2, <1>3, <1>4, <1>5, <1>6, <1>7 DEF BrowserNext

\* AuthController's cookies: the jar and the answers are well typed.
THEOREM BrowserTypeCorrect == BrowserSpec => [](TokensIssued /\ BrowserTypeOK)
<1>1. BrowserInit => TokensIssued /\ BrowserTypeOK
  BY DEF BrowserInit, TokensIssued, BrowserTypeOK
<1>2. /\ TypeOK /\ TypeOK' /\ TokensIssued /\ BrowserTypeOK /\ [BrowserNext]_allVars
      => (TokensIssued /\ BrowserTypeOK)'
  BY TokensIssuedStep, BrowserTypeStep
<1> QED BY <1>1, <1>2, SessionsUndisturbed, SessionsTypeCorrect, PTL DEF BrowserSpec

-----------------------------------------------------------------------------
(* A browser with one request at a time *)

\* login and logout, and login and refresh, agree on the path of the access
\* token.
RightPath(c) ==
  /\ c.name = "access_token" => c.path = "/"
  /\ c.name = "refresh_token" => c.path = "/auth/refresh"

\* What an answer under way will do to the jar.
AnswerOK(a) ==
  /\ kind[a.call] \in {"login", "remember"} =>
       /\ \A c \in a.sets : RightPath(c)
       /\ \A c, d \in a.sets : c.jwt.password = d.jwt.password /\ (c.name = d.name => c = d)
       /\ \A name \in Name : \E c \in a.sets : c.name = name
  /\ kind[a.call] = "refresh" =>
       \E c : /\ a.sets = {c}
              /\ c.name = "access_token" /\ c.path = "/"
              /\ \A d \in jar : d.jwt.password = c.jwt.password
  /\ kind[a.call] = "logout" => a.sets = {} /\ a.clears = Cleared

\* There is at most one request, and what it has found in the jar is still so.
Waiting ==
  /\ \A r \in Unanswered : asked = r
  /\ \A a, b \in answers : a = b
  /\ \A a \in answers : kind[a.call] # None /\ call[a.call].pc = "ended" /\ AnswerOK(a)
  /\ \A r \in Call : kind[r] = "logout" => call[r].pc = "ended"
  /\ \A r \in Call : kind[r] = "refresh" /\ call[r].pc = "renew" =>
       \A d \in jar : d.jwt.password = call[r].jwt.password

WaitInv ==
  /\ BrowserTypeOK
  /\ Waiting
  /\ \A c \in jar : RightPath(c)
  /\ OneSession
  /\ LogoutEndsAccess

\* A request is only made when none is unanswered.
LEMMA AsksAlone ==
  ASSUME Tabs = 1, IsFiniteSet(Call), NEW r \in Call, NEW k, Asks(r, k)
  PROVE  Unanswered = {}
<1>1. IsFiniteSet(Unanswered)
  BY FS_Subset DEF Unanswered
<1>2. Cardinality(Unanswered) \in Nat /\ Cardinality(Unanswered) < 1
  BY <1>1, FS_CardinalityType DEF Asks
<1> QED BY <1>1, <1>2, FS_EmptySet

LEMMA AloneNoAnswers ==
  ASSUME BrowserTypeOK, Waiting, Unanswered = {}
  PROVE  answers = {}
BY DEF BrowserTypeOK, Waiting, Answer, Unanswered

\* A step the browser does not notice leaves its own requests where they are
\* or lets them end.
Unmoved(q) ==
  /\ q \in InFlight' => q \in InFlight
  /\ call[q].pc = "ended" => call'[q].pc = "ended"
  /\ call'[q].pc = "renew" => call'[q] = call[q]

LEMMA OthersUnmoved ==
  ASSUME TypeOK, BrowserTypeOK,
         NEW r \in Call, Unnoticed(r), NEW q \in Call, kind[q] # None
  PROVE  Unmoved(q)
<1> USE DEF Unmoved, InFlight, TypeOK, Idle
<1>1. CASE kind[r] = None /\ (FindLoginUser(r) \/ Sign(r) \/ Renew(r) \/ ResetPassword(r))
  BY <1>1 DEF FindLoginUser, Sign, Renew, ResetPassword, End
<1>2. ASSUME NEW jwt \in issued, kind[r] = None, CheckAccess(r, jwt) \/ CheckRefresh(r, jwt)
      PROVE  Unmoved(q)
  BY <1>2 DEF CheckAccess, CheckRefresh, End
<1>3. CASE ReadUser(r)
  BY <1>3 DEF ReadUser
<1>4. CASE FillCache(r) \/ CommitPassword(r) \/ Fail(r)
  BY <1>4 DEF FillCache, CommitPassword, Fail, End
<1>5. CASE SaveUser(r)
  <2>1. CASE End(r)
    BY <1>5, <2>1 DEF SaveUser, End
  <2>2. CASE Goto(r, "clear")
    BY <1>5, <2>2 DEF SaveUser, Goto
  <2> QED BY <1>5, <2>1, <2>2 DEF SaveUser
<1>6. CASE ClearCache(r)
  BY <1>6 DEF ClearCache, Goto
<1> QED BY <1>1, <1>2, <1>3, <1>4, <1>5, <1>6 DEF Unnoticed

LEMMA UnnoticedStep ==
  ASSUME WaitInv, UNCHANGED browserVars, \A q \in Call : kind[q] # None => Unmoved(q)
  PROVE  WaitInv'
<1> USE DEF browserVars
<1>1. Unanswered' \subseteq Unanswered
  BY DEF Unanswered, Unmoved
<1>2. Waiting'
  <2>1. \A a \in answers' : kind'[a.call] # None /\ call'[a.call].pc = "ended" /\ AnswerOK(a)'
    BY DEF WaitInv, Waiting, BrowserTypeOK, Answer, AnswerOK, Unmoved
  <2>2. \A r \in Call : kind'[r] = "logout" => call'[r].pc = "ended"
    BY BrowserAssumption DEF WaitInv, Waiting, Unmoved, Kind
  <2>3. \A r \in Call : kind'[r] = "refresh" /\ call'[r].pc = "renew" =>
          \A d \in jar' : d.jwt.password = call'[r].jwt.password
    BY BrowserAssumption DEF WaitInv, Waiting, Unmoved, Kind
  <2> QED BY <1>1, <2>1, <2>2, <2>3 DEF WaitInv, Waiting
<1>3. LogoutEndsAccess'
  <2> SUFFICES ASSUME LoggedOut'
               PROVE  \A c \in jar : c.name # "access_token"
    BY DEF LogoutEndsAccess
  <2>1. Unanswered = {}
    <3> SUFFICES ASSUME NEW q \in Unanswered
                 PROVE  FALSE
      OBVIOUS
    <3>1. q \in Call /\ q = asked /\ kind[q] = "logout"
      BY DEF WaitInv, Waiting, Unanswered, LoggedOut
    <3>2. \E a \in answers : a.call = q
      BY <3>1 DEF WaitInv, Waiting, Unanswered, InFlight
    <3>3. q \in Unanswered'
      BY <3>1, <3>2, BrowserAssumption DEF Unanswered, Kind
    <3> QED BY <3>3 DEF LoggedOut
  <2> QED BY <2>1 DEF LoggedOut, WaitInv, LogoutEndsAccess
<1>4. BrowserTypeOK' /\ OneSession' /\ \A c \in jar' : RightPath(c)'
  BY DEF WaitInv, BrowserTypeOK, OneSession, RightPath
<1> QED BY <1>2, <1>3, <1>4 DEF WaitInv

\* What the jar is when a request is made: nothing is under way, and other
\* calls are not the browser's.
LEMMA AskStep ==
  ASSUME TypeOK, WaitInv, Tabs = 1, IsFiniteSet(Call), UNCHANGED answers,
         NEW r \in Call, NEW k \in {"login", "remember", "refresh"}, Asks(r, k),
         \A q \in Call : q # r => call'[q] = call[q],
         k = "refresh" /\ call'[r].pc = "renew" => \E c \in jar : call'[r].jwt = c.jwt,
         BrowserTypeOK'
  PROVE  WaitInv'
<1>1. Unanswered = {} /\ answers = {} /\ answers' = {}
  BY AsksAlone, AloneNoAnswers DEF WaitInv
<1>2. kind' = [kind EXCEPT ![r] = k] /\ asked' = r /\ jar' = jar
  BY DEF Asks
<1>3. \A q \in Call : kind'[q] = IF q = r THEN k ELSE kind[q]
  BY <1>2 DEF WaitInv, BrowserTypeOK
<1>4. \A q \in Unanswered' : q = r
  <2> SUFFICES ASSUME NEW q \in Unanswered', q # r
               PROVE  FALSE
    OBVIOUS
  <2>1. q \in Unanswered
    BY <1>1, <1>3 DEF Unanswered, InFlight
  <2> QED BY <1>1, <2>1
<1>5. Waiting'
  <2>1. \A q \in Call : kind'[q] = "logout" => call'[q].pc = "ended"
    BY <1>3 DEF WaitInv, Waiting
  <2>2. \A q \in Call : kind'[q] = "refresh" /\ call'[q].pc = "renew" =>
          \A d \in jar' : d.jwt.password = call'[q].jwt.password
    <3> SUFFICES ASSUME NEW q \in Call, kind'[q] = "refresh", call'[q].pc = "renew", NEW d \in jar
                 PROVE  d.jwt.password = call'[q].jwt.password
      BY <1>2
    <3>1. CASE q = r
      BY <1>3, <3>1 DEF WaitInv, OneSession
    <3>2. CASE q # r
      BY <1>3, <3>2 DEF WaitInv, Waiting
    <3> QED BY <3>1, <3>2
  <2> QED BY <1>1, <1>2, <1>4, <2>1, <2>2 DEF Waiting
<1>6. LogoutEndsAccess'
  BY <1>2, <1>3 DEF LogoutEndsAccess, LoggedOut
<1> QED BY <1>2, <1>5, <1>6 DEF WaitInv, OneSession, RightPath

\* An answer is given to the only request, when no other is under way.
LEMMA AnswerStep ==
  ASSUME TypeOK, WaitInv, NEW r \in Unanswered, call[r].pc # "ended", End(r),
         UNCHANGED <<jar, kind, asked>>,
         NEW a, answers' = answers \cup {a}, a.call = r, AnswerOK(a),
         kind[r] # "logout", BrowserTypeOK'
  PROVE  WaitInv'
<1>1. asked = r /\ r \in Call /\ kind[r] # None
  BY DEF WaitInv, Waiting, Unanswered
<1>2. answers = {}
  <2> SUFFICES ASSUME NEW b \in answers
               PROVE  FALSE
    OBVIOUS
  <2>1. b.call \in Unanswered /\ call[b.call].pc = "ended"
    BY DEF WaitInv, BrowserTypeOK, Answer, Waiting, Unanswered
  <2>2. b.call = r
    BY <1>1, <2>1 DEF WaitInv, Waiting
  <2> QED BY <2>1, <2>2
<1>3. call'[r].pc = "ended" /\ \A q \in Call : q # r => call'[q] = call[q]
  BY <1>1 DEF End, TypeOK, Idle
<1>4. \A q \in Unanswered' : q = r
  <2> SUFFICES ASSUME NEW q \in Unanswered', q # r
               PROVE  FALSE
    OBVIOUS
  <2>1. q \in Unanswered
    BY <1>2, <1>3 DEF Unanswered, InFlight
  <2> QED BY <1>1, <2>1 DEF WaitInv, Waiting
<1>5. Waiting'
  <2>1. \A b \in answers' : kind'[b.call] # None /\ call'[b.call].pc = "ended" /\ AnswerOK(b)'
    BY <1>1, <1>2, <1>3 DEF AnswerOK
  <2>2. \A q \in Call : kind'[q] = "logout" => call'[q].pc = "ended"
    BY <1>3 DEF WaitInv, Waiting
  <2>3. \A q \in Call : kind'[q] = "refresh" /\ call'[q].pc = "renew" =>
          \A d \in jar' : d.jwt.password = call'[q].jwt.password
    BY <1>3 DEF WaitInv, Waiting
  <2> QED BY <1>1, <1>2, <1>4, <2>1, <2>2, <2>3 DEF Waiting
<1>6. LogoutEndsAccess'
  BY <1>1 DEF LogoutEndsAccess, LoggedOut
<1> QED BY <1>5, <1>6 DEF WaitInv, OneSession, RightPath

LEMMA AnswerLoginStep ==
  ASSUME TypeOK, WaitInv, NEW r \in Call, AnswerLogin(r), BrowserTypeOK'
  PROVE  WaitInv'
<1>1. r \in Unanswered /\ call[r].pc = "sign"
  BY BrowserAssumption DEF AnswerLogin, Sign, Unanswered, InFlight, Kind
<1> DEFINE a == [call |-> r, sets |-> LoginCookies(r), clears |-> {}]
<1>2. AnswerOK(a)
  <2>1. \A c \in a.sets : RightPath(c)
    BY DEF LoginCookies, NewCookie, RightPath
  <2>2. \A c, d \in a.sets : c.jwt.password = d.jwt.password /\ (c.name = d.name => c = d)
    BY DEF LoginCookies, NewCookie, NewJwt
  <2>3. \A name \in Name : \E c \in a.sets : c.name = name
    BY DEF LoginCookies, NewCookie, Name
  <2> QED BY <2>1, <2>2, <2>3 DEF AnswerLogin, AnswerOK
<1> QED BY <1>1, <1>2, AnswerStep DEF AnswerLogin, Answers, Sign

LEMMA AnswerRefreshStep ==
  ASSUME TypeOK, WaitInv, NEW r \in Call, AnswerRefresh(r), BrowserTypeOK'
  PROVE  WaitInv'
<1>1. r \in Unanswered /\ call[r].pc = "renew"
  BY BrowserAssumption DEF AnswerRefresh, Renew, Unanswered, InFlight, Kind
<1> DEFINE a == [call |-> r, sets |-> {RefreshCookie(r)}, clears |-> {}]
<1>2. AnswerOK(a)
  <2>1. \A d \in jar : d.jwt.password = RefreshCookie(r).jwt.password
    BY <1>1 DEF AnswerRefresh, WaitInv, Waiting, RefreshCookie, NewCookie, NewJwt
  <2>2. RefreshCookie(r).name = "access_token" /\ RefreshCookie(r).path = "/"
    BY DEF RefreshCookie, NewCookie
  <2>3. a.sets = {RefreshCookie(r)}
    OBVIOUS
  <2> QED BY <2>1, <2>2, <2>3 DEF AnswerRefresh, AnswerOK
<1> QED BY <1>1, <1>2, AnswerStep DEF AnswerRefresh, Answers, Renew

LEMMA LogoutStep ==
  ASSUME TypeOK, WaitInv, Tabs = 1, IsFiniteSet(Call), NEW r \in Call, Logout(r), BrowserTypeOK'
  PROVE  WaitInv'
<1>1. Unanswered = {} /\ answers = {}
  BY AsksAlone, AloneNoAnswers DEF WaitInv, Logout
<1> DEFINE a == [call |-> r, sets |-> {}, clears |-> Cleared]
<1>2. kind' = [kind EXCEPT ![r] = "logout"] /\ asked' = r /\ jar' = jar /\ answers' = {a}
  BY <1>1 DEF Logout, Asks, Answers
<1>3. \A q \in Call : kind'[q] = IF q = r THEN "logout" ELSE kind[q]
  BY <1>2 DEF WaitInv, BrowserTypeOK
<1>4. call'[r].pc = "ended" /\ \A q \in Call : q # r => call'[q] = call[q]
  BY DEF Logout, End, TypeOK, Idle
<1>5. \A q \in Unanswered' : q = r
  <2> SUFFICES ASSUME NEW q \in Unanswered', q # r
               PROVE  FALSE
    OBVIOUS
  <2>1. q \in Unanswered
    BY <1>2, <1>3, <1>4 DEF Unanswered, InFlight
  <2> QED BY <1>1, <2>1
<1>6. r \in Unanswered'
  BY <1>2, <1>3, BrowserAssumption DEF Unanswered, Kind
<1>7. Waiting'
  <2>1. \A b \in answers' : kind'[b.call] # None /\ call'[b.call].pc = "ended" /\ AnswerOK(b)'
    BY <1>2, <1>3, <1>4, BrowserAssumption DEF AnswerOK, Kind
  <2>2. \A q \in Call : kind'[q] = "logout" => call'[q].pc = "ended"
    BY <1>3, <1>4 DEF WaitInv, Waiting
  <2>3. \A q \in Call : kind'[q] = "refresh" /\ call'[q].pc = "renew" =>
          \A d \in jar' : d.jwt.password = call'[q].jwt.password
    BY <1>2, <1>3, <1>4 DEF WaitInv, Waiting
  <2> QED BY <1>2, <1>5, <2>1, <2>2, <2>3 DEF Waiting
<1>8. LogoutEndsAccess'
  BY <1>6 DEF LogoutEndsAccess, LoggedOut
<1> QED BY <1>2, <1>7, <1>8 DEF WaitInv, OneSession, RightPath

\* When the only answer has arrived or is lost, nothing is unanswered.
LEMMA AnswerLeaves ==
  ASSUME WaitInv, NEW a \in answers, answers' = answers \ {a}, UNCHANGED <<vars, kind>>
  PROVE  asked = a.call /\ a.call \in Call /\ answers' = {} /\ Unanswered' = {}
<1>1. a.call \in Unanswered /\ call[a.call].pc = "ended"
  BY DEF WaitInv, BrowserTypeOK, Answer, Waiting, Unanswered
<1>2. answers' = {}
  BY DEF WaitInv, Waiting
<1>3. Unanswered' = {}
  <2> SUFFICES ASSUME NEW q \in Unanswered'
               PROVE  FALSE
    OBVIOUS
  <2>1. q \in Call /\ q \in InFlight /\ q \in Unanswered
    BY <1>2 DEF Unanswered, InFlight, vars
  <2>2. q = a.call
    BY <1>1, <2>1 DEF WaitInv, Waiting
  <2> QED BY <1>1, <2>1, <2>2 DEF InFlight
<1> QED BY <1>1, <1>2, <1>3 DEF WaitInv, Waiting, Unanswered

\* What an answer leaves in the jar is one session, without an access token
\* if it is logout's.
LEMMA JarAfterAnswer ==
  ASSUME WaitInv, NEW a \in answers, ApplyAnswer(a)
  PROVE  /\ \A c \in jar' : RightPath(c)
         /\ \A c, d \in jar' : c.jwt.password = d.jwt.password /\ (c.name = d.name => c = d)
         /\ kind[a.call] = "logout" => \A c \in jar' : c.name # "access_token"
<1>1. AnswerOK(a) /\ kind[a.call] \in Kind /\ jar \subseteq Cookie /\ a.sets \subseteq Cookie
  BY DEF WaitInv, BrowserTypeOK, Answer, Waiting
<1>2. \A c \in jar : RightPath(c) /\ c.name \in Name
  BY <1>1 DEF WaitInv, Cookie
<1>3. jar' = {c \in jar : /\ \A d \in a.sets : <<c.name, c.path>> # <<d.name, d.path>>
                          /\ <<c.name, c.path>> \notin a.clears} \cup a.sets
  BY DEF ApplyAnswer
<1>4. CASE kind[a.call] \in {"login", "remember"}
  <2>1. \A c \in a.sets : RightPath(c)
    BY <1>1, <1>4 DEF AnswerOK
  <2>2. \A name \in Name : \E c \in a.sets : c.name = name
    BY <1>1, <1>4 DEF AnswerOK
  <2>3. \A c \in jar : \E d \in a.sets : <<c.name, c.path>> = <<d.name, d.path>>
    <3> SUFFICES ASSUME NEW c \in jar
                 PROVE  \E d \in a.sets : <<c.name, c.path>> = <<d.name, d.path>>
      OBVIOUS
    <3>1. PICK d \in a.sets : d.name = c.name
      BY <1>2, <2>2
    <3> QED BY <1>2, <2>1, <3>1 DEF RightPath, Name
  <2>4. jar' = a.sets
    BY <1>3, <2>3
  <2> QED BY <1>1, <1>4, <2>1, <2>4 DEF AnswerOK
<1>5. CASE kind[a.call] = "refresh"
  <2>1. PICK c : /\ a.sets = {c}
                 /\ c.name = "access_token" /\ c.path = "/"
                 /\ \A d \in jar : d.jwt.password = c.jwt.password
    BY <1>1, <1>5 DEF AnswerOK
  <2>2. \A d \in jar' : d = c \/ (d \in jar /\ d.name # "access_token")
    BY <1>2, <1>3, <2>1 DEF RightPath
  <2> QED BY <1>2, <1>5, <2>1, <2>2 DEF RightPath, WaitInv, OneSession
<1>6. CASE kind[a.call] = "logout"
  <2>1. a.sets = {} /\ a.clears = Cleared
    BY <1>1, <1>6 DEF AnswerOK
  <2>2. \A c \in jar' : c \in jar /\ c.name # "access_token"
    BY <1>2, <1>3, <2>1 DEF Cleared, RightPath
  <2> QED BY <1>2, <2>2 DEF WaitInv, OneSession
<1> QED BY <1>1, <1>4, <1>5, <1>6 DEF Kind

LEMMA ApplyAnswerStep ==
  ASSUME TypeOK, WaitInv, NEW a \in answers, ApplyAnswer(a), BrowserTypeOK'
  PROVE  WaitInv'
<1>1. asked = a.call /\ a.call \in Call /\ answers' = {} /\ Unanswered' = {}
  BY AnswerLeaves DEF ApplyAnswer
<1>2. asked' = asked /\ kind' = kind /\ call' = call
  BY DEF ApplyAnswer, vars
<1>3. Waiting'
  <2>1. \A q \in Call : kind[q] = "refresh" /\ call[q].pc = "renew" => FALSE
    <3> SUFFICES ASSUME NEW q \in Call, kind[q] = "refresh", call[q].pc = "renew"
                 PROVE  FALSE
      OBVIOUS
    <3>1. q \in Unanswered'
      BY <1>2, BrowserAssumption DEF Unanswered, InFlight, Kind
    <3> QED BY <1>1, <3>1
  <2> QED BY <1>1, <1>2, <2>1 DEF WaitInv, Waiting
<1>4. (\A c \in jar' : RightPath(c)') /\ OneSession' /\ LogoutEndsAccess'
  BY <1>1, <1>2, JarAfterAnswer DEF OneSession, RightPath, LogoutEndsAccess, LoggedOut
<1> QED BY <1>3, <1>4 DEF WaitInv

LEMMA LoseAnswerStep ==
  ASSUME TypeOK, WaitInv, NEW a \in answers, LoseAnswer(a), BrowserTypeOK'
  PROVE  WaitInv'
<1>1. asked = a.call /\ a.call \in Call /\ answers' = {} /\ Unanswered' = {}
  BY AnswerLeaves DEF LoseAnswer
<1>2. asked' = None /\ kind' = kind /\ call' = call /\ jar' = jar
  BY <1>1 DEF LoseAnswer, vars
<1>3. Waiting'
  BY <1>1, <1>2 DEF WaitInv, Waiting
<1> QED BY <1>2, <1>3 DEF WaitInv, OneSession, RightPath, LogoutEndsAccess, LoggedOut

LEMMA WindowStep ==
  ASSUME TypeOK, WaitInv, (\E c \in jar : DropCookie(c)) \/ Close, BrowserTypeOK'
  PROVE  WaitInv'
<1>1. jar' \subseteq jar /\ call' = call
  BY DEF DropCookie, Close, vars
<1>2. (\A c \in jar' : RightPath(c)') /\ OneSession'
  BY <1>1 DEF WaitInv, OneSession, RightPath
<1>3. CASE \E c \in jar : DropCookie(c)
  <2>1. kind' = kind /\ answers' = answers /\ asked' = asked
    BY <1>3 DEF DropCookie
  <2>2. Unanswered' = Unanswered
    BY <1>1, <2>1 DEF Unanswered, InFlight
  <2>3. \A a \in answers : AnswerOK(a) => AnswerOK(a)'
    BY <1>1, <2>1 DEF AnswerOK
  <2>4. Waiting'
    BY <1>1, <2>1, <2>2, <2>3 DEF WaitInv, Waiting
  <2> QED BY <1>1, <1>2, <2>1, <2>2, <2>4 DEF WaitInv, LogoutEndsAccess, LoggedOut
<1>4. CASE Close
  <2>1. kind' = [r \in Call |-> None] /\ answers' = {} /\ asked' = None
    BY <1>4 DEF Close
  <2>2. Waiting'
    BY <2>1, BrowserAssumption DEF Waiting, Unanswered, Kind
  <2> QED BY <1>2, <2>1, <2>2 DEF WaitInv, LogoutEndsAccess, LoggedOut
<1> QED BY <1>3, <1>4

LEMMA WaitInvStep ==
  ASSUME Tabs = 1, IsFiniteSet(Call),
         TypeOK, WaitInv, BrowserTypeOK', [BrowserNext]_allVars
  PROVE  WaitInv'
<1>1. ASSUME NEW r \in Call, NEW k \in Kind, Login(r, k)
      PROVE  WaitInv'
  <2>1. \A q \in Call : q # r => call'[q] = call[q]
    BY <1>1 DEF Login, FindLoginUser, End, TypeOK
  <2> QED BY <1>1, <2>1, AskStep DEF Login
<1>2. ASSUME NEW r \in Call, Refresh(r)
      PROVE  WaitInv'
  <2>1. PICK c \in jar : CheckRefresh(r, c.jwt)
    BY <1>2 DEF Refresh
  <2>2. \A q \in Call : q # r => call'[q] = call[q]
    BY <2>1 DEF CheckRefresh, End, TypeOK
  <2>3. call'[r].pc = "renew" => call'[r].jwt = c.jwt
    <3>1. CASE ValidForRefresh(c.jwt)
      BY <2>1, <3>1 DEF CheckRefresh, TypeOK, Idle
    <3>2. CASE ~ValidForRefresh(c.jwt)
      BY <2>1, <3>2 DEF CheckRefresh, End, TypeOK, Idle
    <3> QED BY <3>1, <3>2
  <2> QED BY <1>2, <2>2, <2>3, AskStep DEF Refresh
<1>3. ASSUME NEW r \in Call, AnswerLogin(r) \/ AnswerRefresh(r)
      PROVE  WaitInv'
  BY <1>3, AnswerLoginStep, AnswerRefreshStep
<1>4. ASSUME NEW r \in Call, Logout(r)
      PROVE  WaitInv'
  BY <1>4, LogoutStep
<1>5. ASSUME NEW r \in Call, Unnoticed(r)
      PROVE  WaitInv'
  BY <1>5, OthersUnmoved, UnnoticedStep DEF WaitInv, Unnoticed
<1>6. ASSUME NEW a \in answers, ApplyAnswer(a) \/ LoseAnswer(a)
      PROVE  WaitInv'
  BY <1>6, ApplyAnswerStep, LoseAnswerStep
<1>7. ASSUME (\E c \in jar : DropCookie(c)) \/ Close
      PROVE  WaitInv'
  BY <1>7, WindowStep
<1>8. ASSUME ((Tick \/ ExpireCache) /\ UNCHANGED browserVars) \/ UNCHANGED allVars
      PROVE  WaitInv'
  <2>1. UNCHANGED browserVars /\ call' = call
    BY <1>8 DEF Tick, ExpireCache, allVars, browserVars
  <2>2. \A q \in Call : Unmoved(q)
    BY <2>1 DEF Unmoved, InFlight
  <2> QED BY <2>1, <2>2, UnnoticedStep
<1> QED BY <1>1, <1>2, <1>3, <1>4, <1>5, <1>6, <1>7, <1>8 DEF BrowserNext

\* A browser that waits for its answers always has one session, however many
\* other requests overlap with its own.
THEOREM WaitingInvariance ==
  ASSUME Tabs = 1, IsFiniteSet(Call)
  PROVE  BrowserSpec => []WaitInv
<1>1. BrowserInit => WaitInv
  <2> SUFFICES ASSUME BrowserInit
               PROVE  WaitInv
    OBVIOUS
  <2>1. kind = [r \in Call |-> None] /\ answers = {} /\ asked = None /\ jar = {}
    BY DEF BrowserInit
  <2>2. Waiting
    BY <2>1, BrowserAssumption DEF Waiting, Unanswered, Kind
  <2> QED BY <2>1, <2>2 DEF WaitInv, BrowserTypeOK, OneSession, LogoutEndsAccess, LoggedOut
<1>2. TypeOK /\ WaitInv /\ BrowserTypeOK' /\ [BrowserNext]_allVars => WaitInv'
  BY WaitInvStep
<1> QED BY <1>1, <1>2, SessionsUndisturbed, SessionsTypeCorrect, BrowserTypeCorrect, PTL
        DEF BrowserSpec

\* login, refresh: a browser that waits for its answers has of each token one
\* cookie at most, and both from one chain.
THEOREM OneSessionPerBrowser ==
  ASSUME Tabs = 1, IsFiniteSet(Call)
  PROVE  BrowserSpec => []OneSession
<1>1. WaitInv => OneSession
  BY DEF WaitInv
<1> QED BY <1>1, WaitingInvariance, PTL

\* logout: a browser that waits for its answers keeps no access token.
THEOREM AccessEnds ==
  ASSUME Tabs = 1, IsFiniteSet(Call)
  PROVE  BrowserSpec => []LogoutEndsAccess
<1>1. WaitInv => LogoutEndsAccess
  BY DEF WaitInv
<1> QED BY <1>1, WaitingInvariance, PTL
=============================================================================
