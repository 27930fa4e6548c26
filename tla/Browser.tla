-------------------------------- MODULE Browser --------------------------------
(***************************************************************************)
(* Sessions with the cookies in which AuthController hands the tokens to a *)
(* browser: login sets two, refresh one, logout is to clear them.          *)
(*                                                                         *)
(* A browser keeps cookies by name and path, drops those without maxAge    *)
(* when it is closed, and applies an answer when it arrives, if it does.   *)
(* The other devices of the user hold their tokens themselves and do what  *)
(* they do in Sessions.                                                    *)
(***************************************************************************)
EXTENDS Sessions

CONSTANT Tabs  \* bound: requests of the browser that are not answered yet

VARIABLES
  jar,      \* the cookies of the browser
  kind,     \* call -> what the browser asks for, None for another device
  answers,  \* answers under way: the cookies each sets and clears
  asked     \* history: the last request whose answer was not lost, or None

browserVars == <<jar, kind, answers, asked>>
allVars == <<now, user, stamps, iatCache, issued, served, call, jar, kind, answers, asked>>

Name == {"access_token", "refresh_token"}
Path == {"/", "/auth/refresh", "/api/auth/refresh"}

\* kept is: it has a maxAge, and outlives the browser's window.
Cookie == [name: Name, path: Path, jwt: Jwt, kept: BOOLEAN]

Kind == {"login", "remember", "refresh", "logout"}

ASSUME BrowserAssumption == Tabs \in Nat /\ None \notin Kind

\* clears holds the <<name, path>> of cookies set with maxAge 0.
Answer == [call: Call, sets: SUBSET Cookie, clears: SUBSET (Name \X Path)]

Unanswered ==
  {r \in Call : kind[r] # None /\ (r \in InFlight \/ \E a \in answers : a.call = r)}

Asks(r, k) ==
  /\ kind[r] = None
  /\ Cardinality(Unanswered) < Tabs
  /\ kind' = [kind EXCEPT ![r] = k]
  /\ asked' = r
  /\ UNCHANGED jar

Answers(r, sets, clears) ==
  answers' = answers \cup {[call |-> r, sets |-> sets, clears |-> clears]}

NewCookie(name, path, jwt, kept) ==
  [name |-> name, path |-> path, jwt |-> jwt, kept |-> kept]

-----------------------------------------------------------------------------
(* AuthController *)

Login(r, k) ==
  /\ k \in {"login", "remember"}
  /\ FindLoginUser(r)
  /\ Asks(r, k)
  /\ UNCHANGED answers

LoginCookies(r) ==
  {NewCookie("access_token", "/", NewJwt("access", call[r].password), kind[r] = "remember"),
   NewCookie("refresh_token", "/auth/refresh", NewJwt("refresh", call[r].password),
             kind[r] = "remember")}

AnswerLogin(r) ==
  /\ kind[r] \in {"login", "remember"}
  /\ Sign(r)
  /\ Answers(r, LoginCookies(r), {})
  /\ UNCHANGED <<jar, kind, asked>>

\* The browser sends the cookie whose path is that of the request.
Refresh(r) ==
  /\ \E c \in jar : c.name = "refresh_token" /\ c.path = "/auth/refresh" /\ CheckRefresh(r, c.jwt)
  /\ Asks(r, "refresh")
  /\ UNCHANGED answers

\* Mutant: the path of the refresh token.
RefreshCookie_RefreshPath(r) ==
  NewCookie("access_token", "/auth/refresh", NewJwt("access", call[r].jwt.password), TRUE)

\* Always with a maxAge, even if login was not to be remembered.
RefreshCookie(r) ==
  NewCookie("access_token", "/", NewJwt("access", call[r].jwt.password), TRUE)

AnswerRefresh(r) ==
  /\ kind[r] = "refresh"
  /\ Renew(r)
  /\ Answers(r, {RefreshCookie(r)}, {})
  /\ UNCHANGED <<jar, kind, asked>>

\* Mutant: both cookies are cleared under the other path.
Cleared_OtherPath ==
  {<<"access_token", "/api/auth/refresh">>, <<"refresh_token", "/api/auth/refresh">>}

\* The paths for which logout clears the cookies.
Cleared == {<<"access_token", "/">>, <<"refresh_token", "/api/auth/refresh">>}

\* logout needs no token, awaits nothing and changes nothing on the server.
Logout(r) ==
  /\ Arrives(r)
  /\ End(r)
  /\ Asks(r, "logout")
  /\ Answers(r, {}, Cleared)
  /\ UNCHANGED <<now, user, stamps, iatCache, issued, served>>

-----------------------------------------------------------------------------
(* The browser *)

\* A cookie replaces the one of its name and path.
ApplyAnswer(a) ==
  /\ a \in answers
  /\ answers' = answers \ {a}
  /\ jar' = {c \in jar : /\ \A d \in a.sets : <<c.name, c.path>> # <<d.name, d.path>>
                         /\ <<c.name, c.path>> \notin a.clears} \cup a.sets
  /\ UNCHANGED <<vars, kind, asked>>

LoseAnswer(a) ==
  /\ a \in answers
  /\ answers' = answers \ {a}
  /\ asked' = IF asked = a.call THEN None ELSE asked
  /\ UNCHANGED <<vars, jar, kind>>

\* The window is closed; what is still answered finds nobody.
Close ==
  /\ jar # {}
  /\ jar' = {c \in jar : c.kept}
  /\ kind' = [r \in Call |-> None]
  /\ answers' = {}
  /\ asked' = None
  /\ UNCHANGED vars

\* maxAge is over.
DropCookie(c) ==
  /\ c \in jar /\ c.kept
  /\ jar' = jar \ {c}
  /\ UNCHANGED <<vars, kind, answers, asked>>

-----------------------------------------------------------------------------

BrowserInit ==
  /\ Init
  /\ jar = {}
  /\ kind = [r \in Call |-> None]
  /\ answers = {}
  /\ asked = None

\* A step of Sessions that gives the browser no cookie.
Unnoticed(r) ==
  /\ \/ kind[r] = None /\ (FindLoginUser(r) \/ Sign(r) \/ Renew(r) \/ ResetPassword(r))
     \/ \E jwt \in issued : kind[r] = None /\ (CheckAccess(r, jwt) \/ CheckRefresh(r, jwt))
     \/ ReadUser(r) \/ FillCache(r)
     \/ SaveUser(r) \/ ClearCache(r) \/ CommitPassword(r)
     \/ Fail(r)
  /\ UNCHANGED browserVars

BrowserNext ==
  \/ \E r \in Call :
       \/ \E k \in Kind : Login(r, k)
       \/ AnswerLogin(r)
       \/ Refresh(r) \/ AnswerRefresh(r)
       \/ Logout(r)
       \/ Unnoticed(r)
  \/ \E a \in answers : ApplyAnswer(a) \/ LoseAnswer(a)
  \/ \E c \in jar : DropCookie(c)
  \/ Close
  \/ (Tick \/ ExpireCache) /\ UNCHANGED browserVars

BrowserSpec == BrowserInit /\ [][BrowserNext]_allVars

-----------------------------------------------------------------------------
(* Properties *)

\* The cookies and the answers are well typed.
BrowserTypeOK ==
  /\ jar \subseteq Cookie
  /\ kind \in [Call -> Kind \cup {None}]
  /\ answers \subseteq Answer
  /\ asked \in Call \cup {None}

\* A browser that waits for its answers has one session: of each token one
\* cookie, and both from one chain, whatever other devices do to the password.
OneSession ==
  \A c, d \in jar :
    /\ c.jwt.password = d.jwt.password
    /\ c.name = d.name => c = d

\* The last request was a logout, and its answer has arrived.
LoggedOut ==
  asked # None /\ kind[asked] = "logout" /\ Unanswered = {}

\* A browser that waits for its answers and has logged out has no cookie that
\* JwtAccessTokenStrategy would look at.
LogoutEndsAccess ==
  LoggedOut => \A c \in jar : c.name # "access_token"

\* logout removes the access token and the refresh token.
LogoutEndsSession ==
  LoggedOut => jar = {}
=============================================================================
