---------------------------- MODULE DeviceSessions ----------------------------
(***************************************************************************)
(* Device sessions: the rows of the table "devices", the token pairs       *)
(* signed for them, and the requests that read and write them (login,      *)
(* refresh, logout, an administrator's revocation and account deletion).   *)
(*                                                                         *)
(* Two worker processes interleave requests at every await.  A request     *)
(* reads rows in its own READ COMMITTED transaction, works on what it read *)
(* and writes at the commit, which get_session runs after the reply left.  *)
(* An update writes the assigned columns only and the last commit wins.    *)
(*                                                                         *)
(* A refresh token is its jti: the stored SHA-256 is one to one with it,   *)
(* and a Token value names the pair minted together, refresh and access.   *)
(* Expiry of a token is a refused presentation and is left out.  User      *)
(* holds the accounts other than the acting administrator's.               *)
(***************************************************************************)
EXTENDS Naturals, FiniteSets

CONSTANTS User, Device, Token, Request, NoUser, NoDevice, NoToken, NoRow, NoPair

Row == [user_id: User, refresh_jti: Token,
        previous_refresh_jti: Token \cup {NoToken}, revoked_at: BOOLEAN]
\* sub and did are claims; "of" remembers the device a pair was minted for.
Pair == [sub: User, did: Device \cup {NoDevice}, of: Device]

ASSUME SentinelAssumption ==
    /\ NoUser \notin User
    /\ NoDevice \notin Device
    /\ NoToken \notin Token
    /\ NoRow \notin Row
    /\ NoPair \notin Pair

VARIABLES
    users,     \* rows of "users", by id
    devices,   \* rows of "devices", by id
    issued,    \* issued[t]: the signed pair named t, NoPair before it is minted
    req,       \* req[r]: what the worker running request r knows
    spent,     \* history: tokens that were current on an unrevoked row, and stopped
    closed     \* history: devices that had an unrevoked row, and lost it

vars == <<users, devices, issued, req, spent, closed>>

Steps == {"idle", "login_flush", "login_commit",
          "refresh_reuse", "refresh_find", "refresh_user", "refresh_commit", "refused",
          "logout_device", "logout_commit", "revoke_commit", "delete_commit"}

\* "late": the presented credential was already withdrawn when it arrived.
Idle == [pc |-> "idle", tok |-> NoToken, user |-> NoUser, dev |-> NoDevice,
         new |-> NoToken, rows |-> {}, late |-> FALSE]

TypeOK ==
    /\ users \subseteq User
    /\ devices \in [Device -> Row \cup {NoRow}]
    /\ issued \in [Token -> Pair \cup {NoPair}]
    /\ req \in [Request -> [pc: Steps, tok: Token \cup {NoToken},
                            user: User \cup {NoUser}, dev: Device \cup {NoDevice},
                            new: Token \cup {NoToken}, rows: SUBSET Device,
                            late: BOOLEAN]]
    /\ spent \subseteq Token
    /\ closed \subseteq Device

-----------------------------------------------------------------------------
(* Rows and tokens.                                                        *)

Rows == {d \in Device : devices[d] # NoRow}

\* The current token of a device in table tab, NoToken if gone or revoked.
LiveToken(tab, d) ==
    IF tab[d] # NoRow /\ ~tab[d].revoked_at THEN tab[d].refresh_jti ELSE NoToken

LiveTokens(tab) == {LiveToken(tab, d) : d \in Device} \ {NoToken}
LiveDevices(tab) == {d \in Device : LiveToken(tab, d) # NoToken}

\* Commit the table tab; the histories record what it withdrew.
Write(tab) ==
    /\ devices' = tab
    /\ spent' = spent \cup (LiveTokens(devices) \ LiveTokens(tab))
    /\ closed' = closed \cup (LiveDevices(devices) \ LiveDevices(tab))

WasSpent(t) == t \in spent
WasClosed(d) == d \in closed

FreshTokens == {t \in Token : issued[t] = NoPair}
FreshDevices == {d \in Device : \A t \in Token \ FreshTokens : issued[t].of # d}

\* The row a login inserts.
NewRow_PreviousIsCurrent(u, t) == [user_id |-> u, refresh_jti |-> t,
                                   previous_refresh_jti |-> t, revoked_at |-> FALSE]
NewRow(u, t) == [user_id |-> u, refresh_jti |-> t,
                 previous_refresh_jti |-> NoToken, revoked_at |-> FALSE]

\* Only the columns the handler assigned are written over the row found then.
Rotate_SwappedOrder(row, tok, new) ==
    [row EXCEPT !.refresh_jti = new, !.previous_refresh_jti = new]
Rotate_RowReadEarlier(row, tok, new) ==
    [row EXCEPT !.refresh_jti = new, !.previous_refresh_jti = tok, !.revoked_at = FALSE]
Rotate(row, tok, new) ==
    [row EXCEPT !.refresh_jti = new, !.previous_refresh_jti = tok]

Revoke(row) == [row EXCEPT !.revoked_at = TRUE]

RevokeRows(S) ==
    [d \in Device |-> IF d \in S \cap Rows THEN Revoke(devices[d]) ELSE devices[d]]

\* The tests a handler makes on the row it read.
Active_RevocationIgnored(d) == devices[d] # NoRow
Active(d) == devices[d] # NoRow /\ ~devices[d].revoked_at

At(r, step) == req[r].pc = step
Put(r, rec) == req' = [req EXCEPT ![r] = rec]
Goto(r, step) == Put(r, [req[r] EXCEPT !.pc = step])
End(r) == Put(r, Idle)

\* Bounds of the instance: a request that may mint starts only while an unused
\* token (and device id) is left for it and for those already under way.
Logins == {r \in Request : At(r, "login_flush")}
Minting == Logins \cup {r \in Request : At(r, "refresh_find") \/ At(r, "refresh_user")}
TokenLeft == Cardinality(FreshTokens) > Cardinality(Minting)
DeviceLeft == Cardinality(FreshDevices) > Cardinality(Logins)

-----------------------------------------------------------------------------
(* POST /auth/login: the user is read and the password verified, then the  *)
(* device row is inserted.                                                 *)

Login(r, u) ==
    /\ At(r, "idle")
    /\ u \in users
    /\ TokenLeft /\ DeviceLeft
    /\ Put(r, [Idle EXCEPT !.pc = "login_flush", !.user = u])
    /\ UNCHANGED <<users, devices, issued, spent, closed>>

\* The insert locks the user row against deletion; the pair is minted, signed
\* and replied although the row is not committed.
LoginFlush(r) ==
    /\ At(r, "login_flush")
    /\ req[r].user \in users
    /\ \E d \in FreshDevices, t \in FreshTokens :
         /\ issued' = [issued EXCEPT ![t] = [sub |-> req[r].user, did |-> d, of |-> d]]
         /\ Put(r, [req[r] EXCEPT !.pc = "login_commit", !.dev = d, !.new = t])
    /\ UNCHANGED <<users, devices, spent, closed>>

\* The account went away in between: the foreign key refuses the insert.
LoginOrphan(r) ==
    /\ At(r, "login_flush")
    /\ req[r].user \notin users
    /\ End(r)
    /\ UNCHANGED <<users, devices, issued, spent, closed>>

LoginCommit(r) ==
    /\ At(r, "login_commit")
    /\ Write([devices EXCEPT ![req[r].dev] = NewRow(req[r].user, req[r].new)])
    /\ End(r)
    /\ UNCHANGED <<users, issued>>

-----------------------------------------------------------------------------
(* POST /auth/refresh.                                                     *)

\* The first query finds t as the previous token of an unrevoked device.
PresentReused(r, t, d) ==
    /\ At(r, "idle")
    /\ issued[t] # NoPair
    /\ Active(d)
    /\ devices[d].previous_refresh_jti = t
    /\ Put(r, [Idle EXCEPT !.pc = "refresh_reuse", !.tok = t, !.dev = d,
                             !.late = WasSpent(t)])
    /\ UNCHANGED <<users, devices, issued, spent, closed>>

\* It does not: go on with the lookup of the current token.
Present(r, t) ==
    /\ At(r, "idle")
    /\ issued[t] # NoPair
    /\ TokenLeft
    /\ ~ \E d \in Device : Active(d) /\ devices[d].previous_refresh_jti = t
    /\ Put(r, [Idle EXCEPT !.pc = "refresh_find", !.tok = t, !.late = WasSpent(t)])
    /\ UNCHANGED <<users, devices, issued, spent, closed>>

\* The revocation is committed before the 401; the row may be gone by then.
RefreshReuse(r) ==
    /\ At(r, "refresh_reuse")
    /\ Write(RevokeRows({req[r].dev}))
    /\ IF req[r].dev \in Rows THEN Goto(r, "refused") ELSE End(r)
    /\ UNCHANGED <<users, issued>>

RefreshFind(r) ==
    /\ At(r, "refresh_find")
    /\ \E d \in Device :
         /\ Active(d)
         /\ devices[d].refresh_jti = req[r].tok
         /\ Put(r, [req[r] EXCEPT !.pc = "refresh_user", !.dev = d,
                                  !.user = devices[d].user_id])
    /\ UNCHANGED <<users, devices, issued, spent, closed>>

RefreshNotFound(r) ==
    /\ At(r, "refresh_find")
    /\ ~ \E d \in Device : Active(d) /\ devices[d].refresh_jti = req[r].tok
    /\ Goto(r, "refused")
    /\ UNCHANGED <<users, devices, issued, spent, closed>>

\* The new pair is replied before the commit; its access token names no device.
RefreshUser(r) ==
    /\ At(r, "refresh_user")
    /\ req[r].user \in users
    /\ \E t \in FreshTokens :
         /\ issued' = [issued EXCEPT ![t] =
                         [sub |-> req[r].user, did |-> NoDevice, of |-> req[r].dev]]
         /\ Put(r, [req[r] EXCEPT !.pc = "refresh_commit", !.new = t])
    /\ UNCHANGED <<users, devices, spent, closed>>

RefreshNoUser(r) ==
    /\ At(r, "refresh_user")
    /\ req[r].user \notin users
    /\ Goto(r, "refused")
    /\ UNCHANGED <<users, devices, issued, spent, closed>>

RefreshCommit(r) ==
    /\ At(r, "refresh_commit")
    /\ LET d == req[r].dev IN
       Write(IF d \in Rows
             THEN [devices EXCEPT ![d] = Rotate(@, req[r].tok, req[r].new)]
             ELSE devices)
    /\ End(r)
    /\ UNCHANGED <<users, issued>>

\* The 401 leaves and the transaction is rolled back.
Answer_TriesAgain(r) ==
    /\ At(r, "refused")
    /\ Goto(r, "refresh_find")
    /\ UNCHANGED <<users, devices, issued, spent, closed>>

Answer(r) ==
    /\ At(r, "refused")
    /\ End(r)
    /\ UNCHANGED <<users, devices, issued, spent, closed>>

-----------------------------------------------------------------------------
(* POST /auth/logout, and the authentication every endpoint starts with.   *)

\* get_current_user reads the user; a token bound to no device needs no more.
Logout(r, t) ==
    /\ At(r, "idle")
    /\ issued[t] # NoPair
    /\ issued[t].sub \in users
    /\ LET did == issued[t].did IN
       Put(r, [Idle EXCEPT !.pc = IF did = NoDevice THEN "logout_commit"
                                                      ELSE "logout_device",
                             !.tok = t, !.user = issued[t].sub, !.dev = did,
                             !.late = WasClosed(did)])
    /\ UNCHANGED <<users, devices, issued, spent, closed>>

\* logout_device selects the device once more and leaves one that is revoked by now
\* as it is; to revoke it again is the same.
LogoutDevice(r) ==
    /\ At(r, "logout_device")
    /\ IF Active(req[r].dev) THEN Goto(r, "logout_commit") ELSE End(r)
    /\ UNCHANGED <<users, devices, issued, spent, closed>>

LogoutCommit(r) ==
    /\ At(r, "logout_commit")
    /\ Write(RevokeRows({req[r].dev}))
    /\ End(r)
    /\ UNCHANGED <<users, issued>>

-----------------------------------------------------------------------------
(* The administrator: revoke a user's devices, delete a user.              *)

RevokeDevices(r, u) ==
    /\ At(r, "idle")
    /\ Put(r, [Idle EXCEPT !.pc = "revoke_commit",
                             !.rows = {d \in Device : Active(d) /\ devices[d].user_id = u}])
    /\ UNCHANGED <<users, devices, issued, spent, closed>>

RevokeCommit(r) ==
    /\ At(r, "revoke_commit")
    /\ Write(RevokeRows(req[r].rows))
    /\ End(r)
    /\ UNCHANGED <<users, issued>>

DeleteUser(r, u) ==
    /\ At(r, "idle")
    /\ u \in users
    /\ Put(r, [Idle EXCEPT !.pc = "delete_commit", !.user = u])
    /\ UNCHANGED <<users, devices, issued, spent, closed>>

\* The DELETE waits for inserts that lock the user row, then cascades.
DeleteCommit(r) ==
    /\ At(r, "delete_commit")
    /\ ~ \E q \in Request : At(q, "login_commit") /\ req[q].user = req[r].user
    /\ users' = users \ {req[r].user}
    /\ Write([d \in Device |-> IF d \in Rows /\ devices[d].user_id = req[r].user
                               THEN NoRow ELSE devices[d]])
    /\ End(r)
    /\ UNCHANGED issued

-----------------------------------------------------------------------------

\* A worker is killed or its connection lost: nothing uncommitted survives.
Rollback(r) ==
    /\ ~At(r, "idle")
    /\ End(r)
    /\ UNCHANGED <<users, devices, issued, spent, closed>>

Arrive(r) ==
    \/ \E u \in User : Login(r, u) \/ RevokeDevices(r, u) \/ DeleteUser(r, u)
    \/ \E t \in Token : Present(r, t) \/ Logout(r, t)
    \/ \E t \in Token, d \in Device : PresentReused(r, t, d)

Proceed(r) ==
    \/ LoginFlush(r) \/ LoginOrphan(r) \/ LoginCommit(r)
    \/ RefreshReuse(r) \/ RefreshFind(r) \/ RefreshNotFound(r)
    \/ RefreshUser(r) \/ RefreshNoUser(r) \/ RefreshCommit(r) \/ Answer(r)
    \/ LogoutDevice(r) \/ LogoutCommit(r)
    \/ RevokeCommit(r) \/ DeleteCommit(r)

Init ==
    /\ users = User
    /\ devices = [d \in Device |-> NoRow]
    /\ issued = [t \in Token |-> NoPair]
    /\ req = [r \in Request |-> Idle]
    /\ spent = {}
    /\ closed = {}

Next == \E r \in Request : Arrive(r) \/ Proceed(r) \/ Rollback(r)

Spec == Init /\ [][Next]_vars

\* An event loop runs its ready tasks and the database answers; nothing forces
\* requests to arrive or workers to die.
FairSpec == Spec /\ \A r \in Request : WF_vars(Proceed(r))

-----------------------------------------------------------------------------
(* Properties.                                                             *)

\* refresh finds its device with scalar_one_or_none, once by the previous and
\* once by the current token.  However commits of concurrent rotations
\* interleave, no token ever names two rows, or a row as both its current and
\* its previous one: neither query raises, and the newest token of a device is
\* never mistaken for a reused one.
TokenNamesOneDevice ==
    \A d, e \in Rows :
        /\ devices[d].refresh_jti # devices[e].previous_refresh_jti
        /\ d # e => devices[d].refresh_jti # devices[e].refresh_jti
        /\ d # e /\ devices[d].previous_refresh_jti # NoToken =>
             devices[d].previous_refresh_jti # devices[e].previous_refresh_jti

\* Reuse detection revokes a device only for a token that had been withdrawn
\* before it was presented, although it matches a column that a concurrent
\* rotation is about to overwrite.
OnlySpentTokensRevoke ==
    \A r \in Request : At(r, "refresh_reuse") => req[r].late

\* A refresh token rotated away or revoked before it was presented is never
\* exchanged, and an access token bound to a device closed before it was
\* presented is never served, whatever the checks interleave with.
DeadCredentialNeverServed ==
    \A r \in Request : At(r, "refresh_commit") \/ At(r, "logout_commit") => ~req[r].late

\* The device table keeps the promise of SessionContract: one live token per
\* session, spent tokens and closed sessions never come back.  A rotation that
\* commits over a revocation does not reopen the device.
Contract == INSTANCE SessionContract
    WITH live <- [d \in Device |-> LiveToken(devices, d)]
ImplementsContract == Contract!Spec

\* Every request ends, also the deletion that waits for logins of its user and
\* the updates whose row is gone.
EveryRequestEnds ==
    \A r \in Request : ~At(r, "idle") ~> At(r, "idle")

\* What makes the above hold step after step: the tokens in a row were minted
\* for its device and its previous token is spent; what a request is about to
\* commit is on no row, was never withdrawn and is nobody else's; a request
\* that rotates holds a token that was live when it read the row.
Minted(t, d) == issued[t] # NoPair /\ issued[t].of = d

RowInv ==
    \A d \in Rows : LET row == devices[d] IN
        /\ Minted(row.refresh_jti, d)
        /\ row.previous_refresh_jti # row.refresh_jti
        /\ row.previous_refresh_jti # NoToken =>
             Minted(row.previous_refresh_jti, d) /\ row.previous_refresh_jti \in spent

HistoryInv ==
    /\ LiveTokens(devices) \cap spent = {}
    /\ LiveDevices(devices) \cap closed = {}
    /\ spent \cap FreshTokens = {}
    /\ closed \cap FreshDevices = {}

Committing(r) == At(r, "login_commit") \/ At(r, "refresh_commit")

CommitOK(r) ==
    /\ Committing(r) =>
         /\ req[r].new \in Token \ spent
         /\ req[r].dev \in Device
         /\ Minted(req[r].new, req[r].dev)
         /\ \A d \in Rows : devices[d].refresh_jti # req[r].new
    /\ At(r, "login_commit") =>
         /\ req[r].user \in User
         /\ req[r].dev \notin Rows \cup closed

Distinct(r, q) ==
    /\ Committing(r) /\ Committing(q) => req[r].new # req[q].new
    /\ At(r, "login_commit") /\ At(q, "login_commit") => req[r].dev # req[q].dev

PendingInv ==
    /\ \A r \in Request : CommitOK(r)
    /\ \A r, q \in Request : r # q => Distinct(r, q)

RequestOK(r) ==
    /\ At(r, "login_flush") => req[r].user \in User
    /\ At(r, "refresh_reuse") => req[r].dev \in Device /\ req[r].late
    /\ At(r, "refresh_find") /\ req[r].late => req[r].tok \in spent
    /\ At(r, "refresh_user") \/ At(r, "refresh_commit") =>
         /\ req[r].tok \in spent \cup LiveTokens(devices)
         /\ req[r].user \in User
         /\ req[r].dev \in Device
         /\ Minted(req[r].tok, req[r].dev)
         /\ ~req[r].late
    /\ At(r, "logout_device") => req[r].dev \in Device
    /\ At(r, "logout_device") /\ req[r].late => req[r].dev \in closed
    /\ At(r, "logout_commit") => ~req[r].late

RequestInv == \A r \in Request : RequestOK(r)

SessionInv == TypeOK /\ RowInv /\ HistoryInv /\ PendingInv /\ RequestInv

-----------------------------------------------------------------------------
(* What the documents say and the code does not do.                        *)

\* SECURITY.md: "Logout revokes the current device."
LogoutRevokesDevice ==
    [][\A r \in Request : LogoutCommit(r) =>
          LET d == issued[req[r].tok].of IN LiveToken(devices', d) = NoToken]_vars
=============================================================================
