------------------------- MODULE ConsoleSessionProofs -------------------------
(***************************************************************************)
(* The console of ConsoleSession only ever does what DeviceSessions lets a *)
(* client do, so what is proved of the device table holds for it as well.  *)
(***************************************************************************)
EXTENDS ConsoleSession, DeviceSessionsProofs

TabType == [kind: {"none", "page", "form", "login"}, answered: BOOLEAN, cookies: Cookies]

\* Every step of the console is a step of the server, or leaves the server's
\* tables alone: the handlers reach auth_service and nothing else.
LEMMA ConsoleStep == ConsoleTypeOK /\ [ConsoleNext]_allVars => [Next]_vars
<1> SUFFICES ASSUME ConsoleTypeOK, ConsoleNext PROVE [Next]_vars
  BY DEF allVars
<1>1. ASSUME NEW r \in Request, NEW kind \in {"page", "form"}, Send(r, kind)
      PROVE  Arrive(r)
  <2>1. jar.refresh \in Token
    BY <1>1 DEF Send, ConsoleTypeOK, Cookies
  <2>. QED  BY <1>1, <2>1 DEF Send, Arrive
<1>2. ASSUME NEW r \in Request, NEW u \in User, SignIn(r, u)
      PROVE  Arrive(r)
  BY <1>2 DEF SignIn, Arrive
<1>3. ASSUME NEW r \in Request, Work(r) \/ Reply(r) \/ Deny(r)
      PROVE  Proceed(r)
  BY <1>3 DEF Work, Reply, Deny, Proceed
<1>4. ASSUME NEW r \in Request, Receive(r) \/ Lose(r) \/ CommitLost(r)
      PROVE  Rollback(r) \/ UNCHANGED vars
  BY <1>4 DEF Receive, Lose, CommitLost
<1>5. ASSUME SignOut \/ \E t \in Token : Age(t)
      PROVE  UNCHANGED vars
  BY <1>5 DEF SignOut, Age
<1>. QED  BY <1>1, <1>2, <1>3, <1>4, <1>5 DEF ConsoleNext, Next

\* A new pair of cookies is well typed, whichever answer brings it.
LEMMA CarriedType ==
  ASSUME TypeOK', NEW r \in Request, NEW kind
  PROVE  Carried(kind, req'[r].new) \in Cookies
<1>1. req'[r].new \in Token \cup {NoToken}
  BY DEF TypeOK
<1>. QED  BY <1>1 DEF Carried, SessionCookies, NoCookies, Cookies

\* What the browser waits for is replaced by something well typed.
LEMMA TabTypes ==
  ASSUME ConsoleTypeOK, NEW r \in Request, NEW new \in TabType
  PROVE  [tab EXCEPT ![r] = new] \in [Request -> TabType]
  BY DEF ConsoleTypeOK, TabType

\* The browser's state keeps its types through every step.
LEMMA ConsoleTypeStep ==
  ConsoleTypeOK /\ TypeOK' /\ [ConsoleNext]_allVars => ConsoleTypeOK'
<1> SUFFICES ASSUME ConsoleTypeOK, TypeOK', [ConsoleNext]_allVars PROVE ConsoleTypeOK'
  OBVIOUS
<1>0. Closed \in TabType /\ NoCookies \in Cookies
  BY DEF Closed, TabType, NoCookies, Cookies
<1>t. ASSUME NEW r \in Request PROVE tab[r] \in TabType
  BY <1>t DEF ConsoleTypeOK, TabType
<1>1. ASSUME NEW r \in Request, NEW kind \in {"page", "form"}, Send(r, kind)
      PROVE  ConsoleTypeOK'
  BY <1>1 DEF Send, Note, ConsoleTypeOK
<1>2. ASSUME NEW r \in Request, NEW u \in User, SignIn(r, u)
      PROVE  ConsoleTypeOK'
  BY <1>2 DEF SignIn, ConsoleTypeOK
<1>3. ASSUME NEW r \in Request, Work(r)
      PROVE  ConsoleTypeOK'
  BY <1>3 DEF Work, consoleVars, ConsoleTypeOK
<1>4. ASSUME NEW r \in Request, Reply(r)
      PROVE  ConsoleTypeOK'
  BY <1>4, CarriedType DEF Reply, Note, ConsoleTypeOK
<1>5. ASSUME NEW r \in Request, Deny(r)
      PROVE  ConsoleTypeOK'
  BY <1>5 DEF Deny, ConsoleTypeOK
<1>6. ASSUME NEW r \in Request, Receive(r)
      PROVE  ConsoleTypeOK'
  BY <1>6, <1>0, <1>t, TabTypes DEF Receive, ConsoleTypeOK, TabType
<1>7. ASSUME NEW r \in Request, Lose(r)
      PROVE  ConsoleTypeOK'
  BY <1>7, <1>0, TabTypes DEF Lose, Note, ConsoleTypeOK, TabType
<1>8. ASSUME NEW r \in Request, CommitLost(r)
      PROVE  ConsoleTypeOK'
  BY <1>8 DEF CommitLost, Note, ConsoleTypeOK
<1>9. CASE SignOut
  BY <1>9, <1>0 DEF SignOut, Note, ConsoleTypeOK
<1>10. ASSUME NEW t \in Token, Age(t)
      PROVE  ConsoleTypeOK'
  BY <1>10 DEF Age, ConsoleTypeOK
<1>11. CASE UNCHANGED allVars
  BY <1>11 DEF allVars, consoleVars, ConsoleTypeOK
<1>. QED
  BY <1>1, <1>2, <1>3, <1>4, <1>5, <1>6, <1>7, <1>8, <1>9, <1>10, <1>11 DEF ConsoleNext

\* The browser starts without cookies and without requests.
LEMMA ConsoleInitTypes == ConsoleInit => ConsoleTypeOK /\ SessionInv
<1> SUFFICES ASSUME ConsoleInit PROVE ConsoleTypeOK /\ SessionInv
  OBVIOUS
<1>1. SessionInv
  BY InvInit DEF ConsoleInit
<1>2. ConsoleTypeOK
  BY DEF ConsoleInit, ConsoleTypeOK, NoCookies, Closed, Cookies
<1>. QED  BY <1>1, <1>2

\* The cookies, the answers on their way and the history stay well typed, and
\* the device table keeps the invariant of DeviceSessions: console handlers add
\* no way to break it.
THEOREM ConsoleInvariant == ConsoleSpec => [](ConsoleTypeOK /\ SessionInv)
<1>1. ConsoleTypeOK /\ SessionInv /\ [ConsoleNext]_allVars => (ConsoleTypeOK /\ SessionInv)'
  <2> SUFFICES ASSUME ConsoleTypeOK, SessionInv, [ConsoleNext]_allVars
               PROVE  (ConsoleTypeOK /\ SessionInv)'
    OBVIOUS
  <2>1. SessionInv'
    BY ConsoleStep, InvStep
  <2>2. TypeOK'
    BY <2>1 DEF SessionInv
  <2>. QED  BY <2>1, <2>2, ConsoleTypeStep
<1>. QED  BY ConsoleInitTypes, <1>1, PTL DEF ConsoleSpec

\* The part of it that is about the browser.
THEOREM ConsoleTypeCorrect == ConsoleSpec => []ConsoleTypeOK
  BY ConsoleInvariant, PTL

\* The console is a client of the session service: with its browser and pages
\* in front, the server behaves as DeviceSessions says (current_admin and
\* login_submit call refresh and login, and change no session otherwise).
THEOREM ConsoleImplementsSessions == ConsoleSpec => Spec
<1>1. ConsoleInit => Init
  BY DEF ConsoleInit
<1>. QED  BY <1>1, ConsoleInvariant, ConsoleStep, PTL DEF ConsoleSpec, Spec

-----------------------------------------------------------------------------
(* A browser used one request at a time stays signed in.                   *)

Resting(r) == tab[r] = Closed /\ At(r, "idle")
OthersRest(r) == \A q \in Request \ {r} : Resting(q)

\* A signed-in browser waits for request r.
Asked(r) == tab[r].kind \in {"page", "form"} /\ ~tab[r].answered /\ signed

\* The pair t is in the answer to r, or has reached the browser already.
Delivered(r, t) ==
    \/ /\ tab[r].answered
       /\ tab[r].cookies = SessionCookies(t)
       /\ signed \/ tab[r].kind = "login"
    \/ tab[r] = Closed /\ jar = SessionCookies(t) /\ signed

\* The device of r still has the token that r presented.
Holds(r) ==
    /\ req[r].dev \in Device
    /\ req[r].tok # NoToken
    /\ LiveToken(devices, req[r].dev) = req[r].tok

\* How far the only request under way has come.
Progress(r) ==
    \/ At(r, "login_flush") /\ tab[r].kind = "login" /\ ~tab[r].answered
    \/ At(r, "login_commit") /\ Delivered(r, req[r].new)
    \/ At(r, "refresh_find") /\ Asked(r) /\ req[r].tok \in LiveTokens(devices)
    \/ At(r, "refresh_user") /\ Asked(r) /\ Holds(r)
    \/ At(r, "refresh_commit") /\ Delivered(r, req[r].new) /\ Holds(r)
    \/ /\ At(r, "idle") /\ tab[r] # Closed
       /\ \E t \in LiveTokens(devices) : Delivered(r, t)

\* The browser rests with cookies that match, or waits for one request, which
\* holds or has delivered the pair that will be current.
Undisturbed ==
    \/ AtRest /\ CookiesMatch
    \/ \E r \in Request : OthersRest(r) /\ Progress(r)
JarInv == causes = {} => Undisturbed

\* A request under way does not rest, and it is the only one.
LEMMA OnlyOne ==
  ASSUME NEW r \in Request, OthersRest(r), Progress(r), NEW q \in Request, ~Resting(q)
  PROVE  q = r
  BY DEF OthersRest

\* A request under way does not rest.
LEMMA Busy ==
  ASSUME NEW r \in Request, Progress(r)
  PROVE  ~Resting(r) /\ ~AtRest
  BY DEF Progress, Resting, AtRest, At

\* A step that is not the first of a request belongs to the one under way.
LEMMA Continues ==
  ASSUME Undisturbed, NEW r \in Request, ~Resting(r)
  PROVE  OthersRest(r) /\ Progress(r)
  BY OnlyOne DEF Undisturbed, AtRest, Resting

\* When everything rests, every other request does.
LEMMA RestAll ==
  ASSUME AtRest, NEW r \in Request PROVE OthersRest(r)
  BY DEF AtRest, OthersRest, Resting

\* The other requests rest on when r takes a step.
LEMMA OthersRestOn ==
  ASSUME NEW r \in Request, OthersRest(r),
         \A q \in Request \ {r} : tab'[q] = tab[q] /\ req'[q] = req[q]
  PROVE  OthersRest(r)'
  BY DEF OthersRest, Resting, At, Closed, NoCookies

\* All rest when the others do and r has come to its end.
LEMMA AllRest ==
  ASSUME NEW r \in Request, OthersRest(r)', Resting(r)'
  PROVE  AtRest'
  BY DEF OthersRest, Resting, AtRest

\* A step puts r, and no other request, elsewhere.
LEMMA PutOnly ==
  ASSUME TypeOK, NEW r \in Request, NEW rec, Put(r, rec)
  PROVE  req'[r] = rec /\ \A q \in Request \ {r} : req'[q] = req[q]
  BY DEF TypeOK, Put

\* What the browser waits for in r changes, and in no other request.
LEMMA TabOnly ==
  ASSUME ConsoleTypeOK, NEW r \in Request, NEW new, tab' = [tab EXCEPT ![r] = new]
  PROVE  tab'[r] = new /\ \A q \in Request \ {r} : tab'[q] = tab[q]
  BY DEF ConsoleTypeOK

\* A live token is the current token of a device, and of none the previous one.
LEMMA LiveNotPrevious ==
  ASSUME SessionInv, NEW t \in LiveTokens(devices), NEW d \in Device, Active(d)
  PROVE  devices[d].previous_refresh_jti # t
<1>1. t # NoToken /\ t \notin spent
  BY DEF LiveTokens, SessionInv, HistoryInv
<1>. QED  BY <1>1 DEF SessionInv, RowInv, Rows, Active

\* Some device has each live token.
LEMMA LiveIsActive ==
  ASSUME SessionInv, NEW t \in LiveTokens(devices)
  PROVE  \E d \in Device : Active(d) /\ devices[d].refresh_jti = t
<1>1. PICK d \in Device : LiveToken(devices, d) = t /\ t # NoToken
  BY DEF LiveTokens
<1>. QED  BY <1>1 DEF LiveToken, Active

\* The first request finds matching cookies: no reuse is detected, and the
\* token it presents is live.
LEMMA SendKeeps ==
  ASSUME ConsoleTypeOK, SessionInv, AtRest, CookiesMatch,
         NEW r \in Request, NEW kind \in {"page", "form"}, Send(r, kind)
  PROVE  Undisturbed'
<1>1. signed /\ jar.refresh \in LiveTokens(devices)
  BY DEF CookiesMatch, Send, NoCookies
<1>2. Present(r, jar.refresh)
  BY <1>1, LiveNotPrevious DEF Send, PresentReused
<1>3. TypeOK
  BY DEF SessionInv
<1>4. /\ req'[r].pc = "refresh_find" /\ req'[r].tok = jar.refresh
      /\ \A q \in Request \ {r} : req'[q] = req[q]
      /\ UNCHANGED devices
  <2> DEFINE rec == [Idle EXCEPT !.pc = "refresh_find", !.tok = jar.refresh,
                                 !.late = WasSpent(jar.refresh)]
  <2>1. Put(r, rec) /\ UNCHANGED devices
    BY <1>2 DEF Present
  <2>2. rec.pc = "refresh_find" /\ rec.tok = jar.refresh
    BY DEF Idle
  <2> HIDE DEF rec
  <2>. QED  BY <1>3, <2>1, <2>2, PutOnly
<1>5. tab'[r].kind = kind /\ tab'[r].answered = tab[r].answered
  BY DEF Send, ConsoleTypeOK
<1>6. \A q \in Request \ {r} : tab'[q] = tab[q]
  BY DEF Send, ConsoleTypeOK
<1>7. ~tab[r].answered
  BY DEF Send, Closed
<1>8. OthersRest(r)'
  BY <1>4, <1>6, RestAll, OthersRestOn
<1>9. Progress(r)'
  BY <1>1, <1>4, <1>5, <1>7 DEF Send, Progress, Asked, At, LiveTokens, LiveToken
<1>. QED  BY <1>8, <1>9 DEF Undisturbed

\* POST /login on a browser at rest.
LEMMA SignInKeeps ==
  ASSUME ConsoleTypeOK, SessionInv, AtRest,
         NEW r \in Request, NEW u \in User, SignIn(r, u)
  PROVE  Undisturbed'
<1>1. TypeOK
  BY DEF SessionInv
<1>2. /\ req'[r].pc = "login_flush"
      /\ \A q \in Request \ {r} : req'[q] = req[q]
  <2> DEFINE rec == [Idle EXCEPT !.pc = "login_flush", !.user = u]
  <2>1. Put(r, rec)
    BY DEF SignIn, Login
  <2>2. rec.pc = "login_flush"
    BY DEF Idle
  <2> HIDE DEF rec
  <2>. QED  BY <1>1, <2>1, <2>2, PutOnly
<1>3. tab'[r].kind = "login" /\ tab'[r].answered = tab[r].answered
  BY DEF SignIn, ConsoleTypeOK
<1>4. \A q \in Request \ {r} : tab'[q] = tab[q]
  BY DEF SignIn, ConsoleTypeOK
<1>5. ~tab[r].answered
  BY DEF SignIn, Closed
<1>6. OthersRest(r)'
  BY <1>2, <1>4, RestAll, OthersRestOn
<1>7. Progress(r)'
  BY <1>2, <1>3, <1>5 DEF Progress, At
<1>. QED  BY <1>6, <1>7 DEF Undisturbed

\* A committed pair that was delivered ends the request in order: the browser
\* rests with it, or its answer is still on the way.
LEMMA Settled ==
  ASSUME NEW r \in Request, OthersRest(r)', At(r, "idle")',
         NEW t \in LiveTokens(devices'), Delivered(r, t)'
  PROVE  Undisturbed'
<1>1. CASE tab'[r] # Closed
  <2>1. Progress(r)'
    BY <1>1 DEF Progress, LiveTokens, LiveToken, Closed, NoCookies
  <2>. QED  BY <2>1 DEF Undisturbed
<1>2. CASE tab'[r] = Closed
  <2>1. ~tab'[r].answered
    BY <1>2 DEF Closed
  <2>2. jar' = SessionCookies(t)' /\ signed'
    BY <2>1 DEF Delivered
  <2>3. CookiesMatch'
    BY <2>2 DEF CookiesMatch, SessionCookies, LiveTokens, LiveToken
  <2>4. AtRest'
    BY <1>2, AllRest DEF Resting, Closed, NoCookies
  <2>. QED  BY <2>3, <2>4 DEF Undisturbed
<1>. QED  BY <1>1, <1>2

\* Delivery does not depend on what the server does next.
LEMMA DeliveredStays ==
  ASSUME NEW r \in Request, NEW t, Delivered(r, t), UNCHANGED consoleVars
  PROVE  Delivered(r, t)'
  BY DEF Delivered, consoleVars, SessionCookies, Closed, NoCookies

\* The rotation commits: the delivered pair becomes current.
LEMMA RefreshCommitKeeps ==
  ASSUME SessionInv, NEW r \in Request, OthersRest(r), Progress(r),
         RefreshCommit(r), UNCHANGED consoleVars
  PROVE  Undisturbed'
<1>a. CommitOK(r) /\ At(r, "refresh_commit") /\ TypeOK
  BY DEF SessionInv, PendingInv, RefreshCommit
<1>b. PICK t \in Token : t = req[r].new
  BY <1>a DEF CommitOK, Committing
<1>c. PICK d \in Device : d = req[r].dev
  BY <1>a DEF CommitOK, Committing
<1>1. TypeOK /\ t # NoToken
  BY <1>a, SentinelAssumption
<1>2. Delivered(r, t) /\ Holds(r)
  BY <1>a, <1>b DEF Progress, At
<1>3. d \in Rows /\ ~devices[d].revoked_at
  BY <1>2, <1>c DEF Holds, LiveToken, Rows
<1>4. devices' = [devices EXCEPT ![d] = Rotate(@, req[r].tok, t)]
  BY <1>3, <1>b, <1>c DEF RefreshCommit, Write
<1>5. devices[d] \in Row
  BY <1>1, <1>3 DEF TypeOK, Rows
<1>6. devices'[d] = Rotate(devices[d], req[r].tok, t)
  BY <1>1, <1>3, <1>4 DEF TypeOK
<1>d. req[r].tok \in Token
  <2>1. req[r].tok = LiveToken(devices, d) /\ req[r].tok # NoToken
    BY <1>2, <1>c DEF Holds
  <2>. QED  BY <2>1, <1>3, <1>5 DEF LiveToken, Row
<1>7. devices'[d].refresh_jti = t /\ ~devices'[d].revoked_at /\ devices'[d] \in Row
  BY <1>d, <1>3, <1>5, <1>6 DEF Rotate, Row
<1>8. LiveToken(devices', d) = t
  BY <1>7, SentinelAssumption DEF LiveToken
<1>9. t \in LiveTokens(devices')
  BY <1>1, <1>3, <1>8 DEF LiveTokens
<1>10. req'[r] = Idle /\ \A q \in Request \ {r} : req'[q] = req[q]
  BY <1>1, PutOnly DEF RefreshCommit, End
<1>11. OthersRest(r)'
  BY <1>10, OthersRestOn DEF consoleVars
<1>12. At(r, "idle")'
  BY <1>10 DEF At, Idle
<1>13. Delivered(r, t)'
  BY <1>2, DeliveredStays
<1>. QED  BY <1>9, <1>11, <1>12, <1>13, Settled

\* The login commits: the delivered pair is current from now on.
LEMMA LoginCommitKeeps ==
  ASSUME SessionInv, NEW r \in Request, OthersRest(r), Progress(r),
         LoginCommit(r), UNCHANGED consoleVars
  PROVE  Undisturbed'
<1>a. CommitOK(r) /\ At(r, "login_commit") /\ TypeOK
  BY DEF SessionInv, PendingInv, LoginCommit
<1>b. PICK t \in Token : t = req[r].new
  BY <1>a DEF CommitOK, Committing
<1>c. PICK d \in Device : d = req[r].dev
  BY <1>a DEF CommitOK, Committing
<1>1. TypeOK /\ t # NoToken /\ req[r].user \in User
  BY <1>a, SentinelAssumption DEF CommitOK
<1>2. Delivered(r, t)
  BY <1>a, <1>b DEF Progress, At
<1>3. devices' = [devices EXCEPT ![d] = NewRow(req[r].user, t)]
  BY <1>b, <1>c DEF LoginCommit, Write
<1>4. devices'[d] = NewRow(req[r].user, t)
  BY <1>1, <1>3 DEF TypeOK
<1>5. devices'[d].refresh_jti = t /\ ~devices'[d].revoked_at /\ devices'[d] \in Row
  BY <1>1, <1>4 DEF NewRow, Row
<1>6. LiveToken(devices', d) = t
  BY <1>5, SentinelAssumption DEF LiveToken
<1>7. t \in LiveTokens(devices')
  BY <1>1, <1>6 DEF LiveTokens
<1>8. req'[r] = Idle /\ \A q \in Request \ {r} : req'[q] = req[q]
  BY <1>1, PutOnly DEF LoginCommit, End
<1>9. OthersRest(r)'
  BY <1>8, OthersRestOn DEF consoleVars
<1>10. At(r, "idle")'
  BY <1>8 DEF At, Idle
<1>11. Delivered(r, t)'
  BY <1>2, DeliveredStays
<1>. QED  BY <1>7, <1>9, <1>10, <1>11, Settled

\* The lookup finds the device of the live token; refusal and reuse detection
\* are not for this request.
LEMMA WorkKeeps ==
  ASSUME ConsoleTypeOK, SessionInv, NEW r \in Request, OthersRest(r), Progress(r), Work(r)
  PROVE  Undisturbed'
<1>1. TypeOK /\ UNCHANGED consoleVars
  BY DEF SessionInv, Work
<1>2. CASE RefreshReuse(r)
  BY <1>2 DEF RefreshReuse, Progress, At
<1>3. CASE RefreshFind(r)
  <2>1. PICK d \in Device :
           /\ Active(d) /\ devices[d].refresh_jti = req[r].tok
           /\ Put(r, [req[r] EXCEPT !.pc = "refresh_user", !.dev = d,
                                    !.user = devices[d].user_id])
           /\ UNCHANGED devices
    BY <1>3 DEF RefreshFind
  <2> DEFINE rec == [req[r] EXCEPT !.pc = "refresh_user", !.dev = d,
                                   !.user = devices[d].user_id]
  <2>2. Put(r, rec)
    BY <2>1
  <2>3. rec.pc = "refresh_user" /\ rec.dev = d /\ rec.tok = req[r].tok
    BY <1>1 DEF TypeOK
  <2> HIDE DEF rec
  <2>4. req'[r] = rec /\ \A q \in Request \ {r} : req'[q] = req[q]
    BY <1>1, <2>2, PutOnly
  <2>5. Asked(r) /\ req[r].tok \in LiveTokens(devices)
    BY <1>3 DEF RefreshFind, Progress, At
  <2>6. req[r].tok # NoToken /\ LiveToken(devices, d) = req[r].tok
    BY <2>1, <2>5 DEF LiveTokens, LiveToken, Active
  <2>7. Holds(r)'
    BY <2>1, <2>3, <2>4, <2>6 DEF Holds, LiveToken
  <2>8. Asked(r)'
    BY <1>1, <2>5 DEF Asked, consoleVars
  <2>9. OthersRest(r)'
    BY <1>1, <2>4, OthersRestOn DEF consoleVars
  <2>10. Progress(r)'
    BY <2>3, <2>4, <2>7, <2>8 DEF Progress, At
  <2>. QED  BY <2>9, <2>10 DEF Undisturbed
<1>4. CASE RefreshNotFound(r)
  <2>1. req[r].tok \in LiveTokens(devices)
    BY <1>4 DEF RefreshNotFound, Progress, At
  <2>. QED  BY <1>4, <2>1, LiveIsActive DEF RefreshNotFound
<1>5. CASE RefreshCommit(r)
  BY <1>1, <1>5, RefreshCommitKeeps
<1>6. CASE LoginCommit(r)
  BY <1>1, <1>6, LoginCommitKeeps
<1>. QED  BY <1>2, <1>3, <1>4, <1>5, <1>6 DEF Work

\* A page or a login answers with the pair just minted; a form that had to
\* refresh is on record.
LEMMA ReplyKeeps ==
  ASSUME ConsoleTypeOK, SessionInv, NEW r \in Request, OthersRest(r), Progress(r),
         Reply(r), causes' = {}
  PROVE  Undisturbed'
<1>1. TypeOK /\ tab[r].kind # "form"
  BY DEF SessionInv, Reply, Note
<1>2. PICK t \in Token : /\ Put(r, [req[r] EXCEPT !.pc = "refresh_commit", !.new = t])
                             /\ At(r, "refresh_user")
                         \/ \E d \in FreshDevices :
                               /\ Put(r, [req[r] EXCEPT !.pc = "login_commit",
                                                        !.dev = d, !.new = t])
                               /\ At(r, "login_flush")
  BY DEF Reply, RefreshUser, LoginFlush, FreshTokens
<1>3. /\ req'[r].new = t
      /\ \/ /\ At(r, "refresh_user") /\ req'[r].pc = "refresh_commit"
            /\ req'[r].dev = req[r].dev /\ req'[r].tok = req[r].tok
         \/ At(r, "login_flush") /\ req'[r].pc = "login_commit"
      /\ \A q \in Request \ {r} : req'[q] = req[q]
  BY <1>1, <1>2 DEF TypeOK, Put
<1>4. UNCHANGED <<devices, jar, signed>>
  BY DEF Reply, RefreshUser, LoginFlush
<1>5. Carried(tab[r].kind, req'[r].new) = SessionCookies(t)
  BY <1>1, <1>3 DEF Carried
<1>6. /\ tab'[r].answered /\ tab'[r].kind = tab[r].kind
      /\ tab'[r].cookies = SessionCookies(t)
      /\ \A q \in Request \ {r} : tab'[q] = tab[q]
  BY <1>5 DEF Reply, ConsoleTypeOK
<1>7. OthersRest(r)'
  BY <1>3, <1>6, OthersRestOn
<1>8. signed \/ tab[r].kind = "login"
  BY <1>3 DEF Progress, At, Asked
<1>9. Delivered(r, req[r].new)'
  BY <1>3, <1>4, <1>6, <1>8 DEF Delivered, SessionCookies
<1>10. At(r, "refresh_user") => Holds(r)'
  BY <1>3, <1>4 DEF Progress, At, Holds, LiveToken
<1>11. Progress(r)'
  BY <1>3, <1>9, <1>10 DEF Progress, At
<1>. QED  BY <1>7, <1>11 DEF Undisturbed

\* The browser takes the pair; the request may still have to commit.
LEMMA ReceiveKeeps ==
  ASSUME ConsoleTypeOK, SessionInv, NEW r \in Request, OthersRest(r), Progress(r), Receive(r)
  PROVE  Undisturbed'
<1>1. /\ UNCHANGED <<devices, req>>
      /\ tab[r].answered
  BY DEF Receive, vars
<1>2. tab'[r] = Closed /\ \A q \in Request \ {r} : tab'[q] = tab[q]
  BY TabOnly DEF Receive
<1>3. OthersRest(r)'
  BY <1>1, <1>2, OthersRestOn
<1>4. ASSUME NEW t, t # NoToken, Delivered(r, t)
      PROVE  Delivered(r, t)'
  <2>1. tab[r].cookies = SessionCookies(t) /\ (signed \/ tab[r].kind = "login")
    BY <1>1, <1>4 DEF Delivered, Closed
  <2>2. tab[r].cookies # NoCookies
    BY <1>4, <2>1 DEF SessionCookies, NoCookies
  <2>3. jar' = SessionCookies(t) /\ signed'
    BY <2>1, <2>2 DEF Receive
  <2>. QED  BY <1>2, <2>3 DEF Delivered, SessionCookies, Closed, NoCookies
<1>5. CASE Committing(r)
  <2>1. PICK t \in Token : t = req[r].new
    BY <1>5 DEF SessionInv, PendingInv, CommitOK
  <2>2. t # NoToken
    BY SentinelAssumption
  <2>3. Delivered(r, t) /\ (At(r, "refresh_commit") => Holds(r))
    BY <1>5, <2>1 DEF Progress, Committing, At
  <2>4. Delivered(r, t)'
    BY <1>4, <2>2, <2>3
  <2>5. Delivered(r, req[r].new)'
    BY <1>1, <2>1, <2>4
  <2>6. Holds(r) => Holds(r)'
    BY <1>1 DEF Holds, LiveToken
  <2>7. Progress(r)'
    BY <1>1, <1>5, <2>3, <2>5, <2>6 DEF Progress, Committing, At
  <2>. QED  BY <1>3, <2>7 DEF Undisturbed
<1>6. CASE ~Committing(r)
  <2>1. At(r, "idle") /\ \E t \in LiveTokens(devices) : Delivered(r, t)
    BY <1>1, <1>6 DEF Progress, Committing, Asked
  <2>2. PICK t \in LiveTokens(devices) : Delivered(r, t)
    BY <2>1
  <2>3. t # NoToken
    BY DEF LiveTokens
  <2>4. Delivered(r, t)' /\ At(r, "idle")' /\ t \in LiveTokens(devices')
    BY <1>1, <1>4, <2>1, <2>2, <2>3 DEF At
  <2>. QED  BY <1>3, <2>4, Settled
<1>. QED  BY <1>5, <1>6

\* Time passes, and nothing the invariant reads changes.
LEMMA SameKeeps ==
  ASSUME Undisturbed, UNCHANGED <<devices, req, jar, tab, signed>>
  PROVE  Undisturbed'
  BY DEF Undisturbed, OthersRest, Progress, Resting, AtRest, CookiesMatch, Asked, Holds,
         Delivered, At, LiveToken, LiveTokens, SessionCookies, Closed, NoCookies

\* Every step keeps the browser in order, unless it goes on record.
LEMMA JarStep ==
  ASSUME ConsoleTypeOK, SessionInv, JarInv, [ConsoleNext]_allVars
  PROVE  JarInv'
<1> SUFFICES ASSUME causes' = {} PROVE Undisturbed'
  BY DEF JarInv
<1>0. ASSUME causes = {} PROVE Undisturbed
  BY <1>0 DEF JarInv
<1>1. ASSUME NEW r \in Request, NEW kind \in {"page", "form"}, Send(r, kind)
      PROVE  Undisturbed'
  <2>1. AtRest /\ causes = {}
    BY <1>1 DEF Send, Note
  <2>2. CookiesMatch
    BY <1>0, <2>1, Busy DEF Undisturbed
  <2>. QED  BY <1>1, <2>1, <2>2, SendKeeps
<1>2. ASSUME NEW r \in Request, NEW u \in User, SignIn(r, u)
      PROVE  Undisturbed'
  <2>1. AtRest
    BY <1>2 DEF SignIn
  <2>. QED  BY <1>2, <2>1, SignInKeeps
<1>3. ASSUME NEW r \in Request, Work(r)
      PROVE  Undisturbed'
  <2>1. causes = {} /\ ~Resting(r)
    BY <1>3 DEF Work, consoleVars, RefreshReuse, RefreshFind, RefreshNotFound,
                RefreshCommit, LoginCommit, Resting, At
  <2>. QED  BY <1>0, <1>3, <2>1, Continues, WorkKeeps
<1>4. ASSUME NEW r \in Request, Reply(r)
      PROVE  Undisturbed'
  <2>1. causes = {} /\ ~Resting(r)
    BY <1>4 DEF Reply, Note, RefreshUser, LoginFlush, Resting, At
  <2>. QED  BY <1>0, <1>4, <2>1, Continues, ReplyKeeps
<1>5. ASSUME NEW r \in Request, Deny(r)
      PROVE  Undisturbed'
  <2>1. causes = {} /\ ~Resting(r) /\ At(r, "refused")
    BY <1>5 DEF Deny, Answer, Resting, At
  <2>2. Progress(r)
    BY <1>0, <2>1, Continues
  <2>. QED  BY <2>1, <2>2 DEF Progress, At
<1>6. ASSUME NEW r \in Request, Receive(r)
      PROVE  Undisturbed'
  <2>1. causes = {} /\ ~Resting(r)
    BY <1>6 DEF Receive, Resting, Closed
  <2>. QED  BY <1>0, <1>6, <2>1, Continues, ReceiveKeeps
<1>7. ASSUME NEW r \in Request, Lose(r) \/ CommitLost(r)
      PROVE  FALSE
  BY <1>7 DEF Lose, CommitLost, Note
<1>8. CASE SignOut
  <2>1. AtRest
    BY <1>8 DEF SignOut, Note
  <2>2. AtRest'
    BY <1>8, <2>1 DEF SignOut, vars, AtRest, At, Closed, NoCookies
  <2>3. CookiesMatch'
    BY <1>8 DEF SignOut, CookiesMatch, NoCookies
  <2>. QED  BY <2>2, <2>3 DEF Undisturbed
<1>9. ASSUME NEW t \in Token, Age(t)
      PROVE  Undisturbed'
  BY <1>0, <1>9, SameKeeps DEF Age, vars
<1>10. CASE UNCHANGED allVars
  BY <1>0, <1>10, SameKeeps DEF allVars, vars, consoleVars
<1>. QED
  BY <1>1, <1>2, <1>3, <1>4, <1>5, <1>6, <1>7, <1>8, <1>9, <1>10 DEF ConsoleNext

\* An administrator who loads one page after the other stays signed in, through
\* every expiry of the access token and with the reply leaving before the
\* commit; once signed out the cookies are gone (current_admin, login_submit,
\* logout of the console).
THEOREM PagesStaySignedIn == ConsoleSpec => []PagesKeepSession
<1>1. ConsoleInit => JarInv
  BY DEF ConsoleInit, Init, JarInv, Undisturbed, AtRest, At, Idle, CookiesMatch
<1>2. ConsoleTypeOK /\ SessionInv /\ JarInv /\ [ConsoleNext]_allVars => JarInv'
  BY JarStep
<1>3. JarInv => PagesKeepSession
  BY Busy DEF JarInv, Undisturbed, PagesKeepSession
<1>. QED  BY <1>1, <1>2, <1>3, ConsoleInvariant, PTL DEF ConsoleSpec
=============================================================================
