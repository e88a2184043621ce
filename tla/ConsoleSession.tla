---------------------------- MODULE ConsoleSession ----------------------------
(***************************************************************************)
(* The administrator's browser as a client of DeviceSessions: two cookies  *)
(* that hold a token pair, and tabs that load pages and submit forms.      *)
(*                                                                         *)
(* A request whose access cookie is still good changes nothing here and is *)
(* left out; the others refresh on the way (current_admin), with the very  *)
(* steps of DeviceSessions.  Pages carry the new cookies, the redirects    *)
(* that answer forms do not; a form answered with a page counts as a page. *)
(* Here User is the administrator's account; /setup signs in like /login.  *)
(***************************************************************************)
EXTENDS DeviceSessions

VARIABLES
    jar,      \* the browser's cookies
    aged,     \* pairs whose access token has expired
    tab,      \* tab[r]: what the browser waits for in request r
    signed,   \* history: whether the browser signed in, and not out since
    causes    \* history: what happened to the browser since it signed in

consoleVars == <<jar, aged, tab, signed, causes>>
allVars == <<vars, consoleVars>>

Cookies == [access: Token \cup {NoToken}, refresh: Token \cup {NoToken}]
NoCookies == [access |-> NoToken, refresh |-> NoToken]
Closed == [kind |-> "none", answered |-> FALSE, cookies |-> NoCookies]

ConsoleTypeOK ==
    /\ jar \in Cookies
    /\ aged \subseteq Token
    /\ tab \in [Request -> [kind: {"none", "page", "form", "login"}, answered: BOOLEAN,
                            cookies: Cookies]]
    /\ signed \in BOOLEAN
    /\ causes \subseteq {"overlap", "lost", "form"}

-----------------------------------------------------------------------------

\* set_session_cookies, on the response the handler returns or on another one.
SessionCookies_AccessOnly(t) == [access |-> t]
SessionCookies_RefreshKept(t) == [access |-> t, refresh |-> jar.refresh]
SessionCookies(t) == [access |-> t, refresh |-> t]

\* Only pages rendered by the handler copy the cookies set on the way.
Carried(kind, t) == IF kind = "form" THEN NoCookies ELSE SessionCookies(t)

AtRest == \A r \in Request : tab[r] = Closed /\ At(r, "idle")
Note(c) == causes' = causes \cup c

\* The browser asks: the access cookie is missing or expired, the refresh
\* cookie is there.
Send(r, kind) ==
    /\ tab[r] = Closed
    /\ jar.refresh # NoToken
    /\ jar.access = NoToken \/ jar.access \in aged
    /\ Present(r, jar.refresh) \/ \E d \in Device : PresentReused(r, jar.refresh, d)
    /\ tab' = [tab EXCEPT ![r].kind = kind]
    /\ Note(IF AtRest THEN {} ELSE {"overlap"})
    /\ UNCHANGED <<jar, aged, signed>>

\* POST /login.
SignIn(r, u) ==
    /\ tab[r] = Closed
    /\ Login(r, u)
    /\ tab' = [tab EXCEPT ![r].kind = "login"]
    /\ causes' = IF AtRest THEN {} ELSE causes \cup {"overlap"}
    /\ UNCHANGED <<jar, aged, signed>>

\* The server goes on without an answer: the lookups, the late commits, and
\* the revocation for reuse.
Work(r) ==
    /\ \/ RefreshReuse(r) \/ RefreshFind(r) \/ RefreshNotFound(r)
       \/ RefreshCommit(r) \/ LoginCommit(r)
    /\ UNCHANGED consoleVars

\* The answer leaves with a new pair.
Reply(r) ==
    /\ RefreshUser(r) \/ LoginFlush(r)
    /\ tab' = [tab EXCEPT ![r].answered = TRUE, ![r].cookies = Carried(tab[r].kind, req'[r].new)]
    /\ Note(IF tab[r].kind = "form" THEN {"form"} ELSE {})
    /\ UNCHANGED <<jar, aged, signed>>

\* Or it sends the browser to /login, which leaves the cookies alone.
Deny(r) ==
    /\ Answer(r)
    /\ tab' = [tab EXCEPT ![r].answered = TRUE]
    /\ UNCHANGED <<jar, aged, signed, causes>>

\* The browser takes the answer, and the cookies in it.
Receive(r) ==
    /\ tab[r].answered
    /\ jar' = IF tab[r].cookies = NoCookies THEN jar ELSE tab[r].cookies
    /\ signed' = (signed \/ tab[r].kind = "login")
    /\ tab' = [tab EXCEPT ![r] = Closed]
    /\ UNCHANGED vars /\ UNCHANGED <<aged, causes>>

\* The answer is lost, or the tab closed before it arrived.
Lose(r) ==
    /\ tab[r] # Closed
    /\ tab' = [tab EXCEPT ![r] = Closed]
    /\ Note({"lost"})
    /\ \/ Rollback(r)
       \/ tab[r].answered /\ UNCHANGED vars
    /\ UNCHANGED <<jar, aged, signed>>

\* The worker dies after the answer left and before the commit.
CommitLost(r) ==
    /\ tab[r] = Closed \/ tab[r].answered
    /\ Rollback(r)
    /\ Note({"lost"})
    /\ UNCHANGED <<jar, aged, tab, signed>>

\* POST /logout deletes the cookies and does nothing else.
SignOut ==
    /\ jar' = NoCookies
    /\ signed' = FALSE
    /\ Note(IF AtRest THEN {} ELSE {"overlap"})
    /\ UNCHANGED vars /\ UNCHANGED <<aged, tab>>

\* Fifteen minutes pass.
Age(t) ==
    /\ issued[t] # NoPair
    /\ t \notin aged
    /\ aged' = aged \cup {t}
    /\ UNCHANGED vars /\ UNCHANGED <<jar, tab, signed, causes>>

ConsoleInit ==
    /\ Init
    /\ jar = NoCookies
    /\ aged = {}
    /\ tab = [r \in Request |-> Closed]
    /\ signed = FALSE
    /\ causes = {}

ConsoleNext ==
    \/ \E r \in Request :
          \/ \E kind \in {"page", "form"} : Send(r, kind)
          \/ \E u \in User : SignIn(r, u)
          \/ Work(r) \/ Reply(r) \/ Deny(r) \/ Receive(r) \/ Lose(r) \/ CommitLost(r)
    \/ SignOut
    \/ \E t \in Token : Age(t)

ConsoleSpec == ConsoleInit /\ [][ConsoleNext]_allVars

-----------------------------------------------------------------------------
(* Properties.                                                             *)

\* What the cookies say of the session: signed in, both name the current pair
\* of a device that is not revoked; signed out, there are none.
CookiesMatch ==
    IF signed
    THEN /\ jar.access = jar.refresh
         /\ jar.refresh \in LiveTokens(devices)
    ELSE jar = NoCookies

\* An administrator who loads one page after the other stays signed in through
\* any number of refreshes, and stays signed out after signing out, unless
\* requests overlapped, an answer was lost, or a form had to refresh.
PagesKeepSession == AtRest /\ causes = {} => CookiesMatch

-----------------------------------------------------------------------------
(* What the documents say and the code does not do.                        *)

\* current_admin: "Resolve the logged-in admin from cookies, refreshing tokens
\* if needed."  Submitting a form one by one ought to keep the session as well.
FormsKeepSession == AtRest /\ causes \subseteq {"form"} => CookiesMatch
=============================================================================
