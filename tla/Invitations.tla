------------------------------ MODULE Invitations ------------------------------
(***************************************************************************)
(* Invitations: the rows of the table "invitations", the accounts redeeming*)
(* them creates or re-pairs, and the requests of two workers on them.      *)
(*                                                                         *)
(* A redemption reads the invitation, creates or looks up the account,     *)
(* flushes (insert of the device, then update of the invitation to the     *)
(* values computed from what was read), replies and then commits.  The     *)
(* statements take locks in PostgreSQL that are kept to the end: on rows   *)
(* of "invitations", one after the other, and on the row of the user, to   *)
(* delete it or, shared, to refer to it.  One request of a circle of waits *)
(* is aborted.  A code is its invitation: the lookup hash is one to one.   *)
(* A user is its username; a deleted name is not registered a second time, *)
(* a bound of the instances.  The administrator is not among User.         *)
(***************************************************************************)
EXTENDS Naturals, FiniteSets

CONSTANTS User, Member, Admin, Invite, Request, MaxUses, NoUser, NoInvite, NoRow

Row == [max_uses: 1..MaxUses, uses_count: Nat, expires_at: BOOLEAN,
        revoked_at: BOOLEAN, redeemed_by: User \cup {NoUser},
        target_user_id: User \cup {NoUser}]

ASSUME InvitationAssumption ==
    /\ Member \subseteq User
    /\ Admin \notin User
    /\ MaxUses \in Nat \ {0}
    /\ NoUser \notin User
    /\ Invite \subseteq Nat \* ids, in the order of UUIDv7
    /\ NoInvite \notin Invite
    /\ NoRow \notin Row

VARIABLES
    accounts,     \* accounts[u]: "absent", "present" or "deleted"
    invites,      \* rows of "invitations", by id
    codes,        \* invitations whose code was handed out (ids are not reused)
    past,         \* invitations whose expiry, if they have one, lies in the past
    req,          \* req[r]: what the worker running request r knows
    redemptions   \* history: redemptions[i] counts the committed ones

vars == <<accounts, invites, codes, past, req, redemptions>>

Steps == {"idle", "create_flush", "create_commit", "redeem_user", "redeem_flush",
          "redeem_count", "redeem_commit", "revoke_commit", "delete_commit", "clear_commit",
          "delete_user_flush", "delete_user_commit"}

\* "seen": the invitation as the request read it; "picks": rows it is going to lock,
\* "asks": the one it asks for now, "held": those it has locked.
Idle == [pc |-> "idle", inv |-> NoInvite, seen |-> NoRow, user |-> NoUser, picks |-> {},
         asks |-> NoInvite, held |-> {}]

TypeOK ==
    /\ accounts \in [User -> {"absent", "present", "deleted"}]
    /\ invites \in [Invite -> Row \cup {NoRow}]
    /\ codes \subseteq Invite
    /\ past \subseteq Invite
    /\ req \in [Request -> [pc: Steps, inv: Invite \cup {NoInvite},
                            seen: Row \cup {NoRow}, user: User \cup {NoUser},
                            picks: SUBSET Invite, asks: Invite \cup {NoInvite},
                            held: SUBSET Invite]]
    /\ redemptions \in [Invite -> Nat]

-----------------------------------------------------------------------------

Rows == {i \in Invite : invites[i] # NoRow}
Present == {u \in User : accounts[u] = "present"}

\* derive_status.
Revoked(row) == row.revoked_at
Expired(i, row) == row.expires_at /\ i \in past
UsedUp_OffByOne(row) == row.uses_count > row.max_uses
UsedUp(row) == row.uses_count >= row.max_uses
Active(i, row) == ~Revoked(row) /\ ~Expired(i, row) /\ ~UsedUp(row)
Clearable_Inactive(i, row) == ~Active(i, row)
Clearable(i, row) == Revoked(row) \/ Expired(i, row)

NewInvite_Unchecked(n, exp, target) ==
    [max_uses |-> n - 1, uses_count |-> 0, expires_at |-> exp, revoked_at |-> FALSE,
     redeemed_by |-> NoUser, target_user_id |-> target]
NewInvite(n, exp, target) ==
    [max_uses |-> n, uses_count |-> 0, expires_at |-> exp, revoked_at |-> FALSE,
     redeemed_by |-> NoUser, target_user_id |-> target]

\* The redemption's UPDATE: three columns, computed from the row that was seen.
Redeemed_WholeRow(row, seen, u) == [seen EXCEPT !.uses_count = @ + 1, !.redeemed_by = u]
Redeemed(row, seen, u) ==
    [row EXCEPT !.uses_count = seen.uses_count + 1, !.redeemed_by = u]

At(r, step) == req[r].pc = step
Put(r, rec) == req' = [req EXCEPT ![r] = rec]
Goto(r, step) == Put(r, [req[r] EXCEPT !.pc = step])
End(r) == Put(r, Idle)
NoData == UNCHANGED <<accounts, invites, codes, past, redemptions>>

\* A flushed redemption, or re-pair code, refers to the row of its user; a deletion
\* has locked it; a sign-up has inserted it, and the unique index on usernames
\* makes another insert of the name wait.
Refers(q, u) ==
    req[q].user = u /\ req[q].pc \in {"create_commit", "redeem_count", "redeem_commit"}
Deletes(q, u) == req[q].user = u /\ At(q, "delete_user_commit")
Claims(q, u) ==
    /\ req[q].user = u /\ req[q].pc \in {"redeem_flush", "redeem_count", "redeem_commit"}
    /\ accounts[u] # "present"

WaitsFor(r, q) ==
    /\ q # r
    /\ \/ req[r].asks \in req[q].held
       \/ At(r, "delete_user_flush") /\ (Refers(q, req[r].user) \/ Deletes(q, req[r].user))
       \/ req[r].pc \in {"create_flush", "redeem_flush"} /\ Deletes(q, req[r].user)
       \/ /\ At(r, "redeem_user") /\ req[r].seen.target_user_id = NoUser
          /\ Claims(q, req[r].user)

Waits(r) == \E q \in Request : WaitsFor(r, q)

\* r waits for itself by way of others.
InCircle(r) ==
    \A S \in SUBSET Request :
        (\A p \in S \cup {r}, q \in Request : WaitsFor(p, q) => q \in S) => r \in S

\* Rows are locked one by one: a list that is deleted in the order of the ids, the
\* rows of a cascade in an order nobody specified.
FirstOf(rec, rows) ==
    IF rows = {} THEN {NoInvite}
    ELSE IF rec.pc = "clear_commit" THEN {i \in rows : \A j \in rows : i <= j}
    ELSE rows
Lock(r, rec, rows) == \E i \in FirstOf(rec, rows) : Put(r, [rec EXCEPT !.picks = rows, !.asks = i])

-----------------------------------------------------------------------------
(* Administration.                                                         *)

\* POST /invites, or /users/{id}/repair with a target that was looked up.
CreateInvite(r, i, n, exp, target) ==
    /\ At(r, "idle")
    /\ i \notin codes
    /\ target # NoUser => target \in Present /\ n = 1 /\ ~exp
    /\ codes' = codes \cup {i}
    /\ Put(r, [Idle EXCEPT !.pc = "create_flush", !.inv = i, !.user = target,
                           !.seen = NewInvite(n, exp, target)])
    /\ UNCHANGED <<accounts, invites, past, redemptions>>

\* The INSERT fails when the target has gone; else the code is shown.
CreateFlush(r) ==
    /\ At(r, "create_flush")
    /\ ~Waits(r)
    /\ IF req[r].user \in Present \cup {NoUser} THEN Goto(r, "create_commit") ELSE End(r)
    /\ NoData

CreateCommit(r) ==
    /\ At(r, "create_commit")
    /\ invites' = [invites EXCEPT ![req[r].inv] = req[r].seen]
    /\ End(r)
    /\ UNCHANGED <<accounts, codes, past, redemptions>>

\* The next row a request updates or deletes; one that has gone changes nothing.
LockRow(r) ==
    /\ req[r].picks # {}
    /\ ~Waits(r)
    /\ LET i == req[r].asks IN
       Lock(r, [req[r] EXCEPT !.held = IF i \in Rows THEN @ \cup {i} ELSE @],
            req[r].picks \ {i})
    /\ NoData

Locked(r, step) == At(r, step) /\ req[r].picks = {}

\* revoke_invite writes nothing when the row it read was already revoked.
RevokeInvite(r, i) ==
    /\ At(r, "idle")
    /\ i \in Rows
    /\ ~Revoked(invites[i])
    /\ Lock(r, [Idle EXCEPT !.pc = "revoke_commit"], {i})
    /\ NoData

RevokeCommit(r) ==
    /\ Locked(r, "revoke_commit")
    /\ invites' = [i \in Invite |-> IF i \in req[r].held
                                     THEN [invites[i] EXCEPT !.revoked_at = TRUE] ELSE invites[i]]
    /\ End(r)
    /\ UNCHANGED <<accounts, codes, past, redemptions>>

DeleteInvite(r, i) ==
    /\ At(r, "idle")
    /\ i \in Rows
    /\ Lock(r, [Idle EXCEPT !.pc = "delete_commit"], {i})
    /\ NoData

\* clear_inactive_invites decides on the rows it listed.
ClearInactive(r) ==
    /\ At(r, "idle")
    /\ Lock(r, [Idle EXCEPT !.pc = "clear_commit"], {i \in Rows : Clearable(i, invites[i])})
    /\ NoData

DeleteCommit(r) ==
    /\ Locked(r, "delete_commit") \/ Locked(r, "clear_commit")
    /\ invites' = [i \in Invite |-> IF i \in req[r].held THEN NoRow ELSE invites[i]]
    /\ End(r)
    /\ UNCHANGED <<accounts, codes, past, redemptions>>

\* Deleting a user deletes its re-pair codes and clears redeemed_by.
DeleteUser(r, u) ==
    /\ At(r, "idle")
    /\ u \in Present
    /\ Put(r, [Idle EXCEPT !.pc = "delete_user_flush", !.user = u])
    /\ NoData

Forget_NoCascade(row, u) == IF row.redeemed_by = u THEN [row EXCEPT !.redeemed_by = NoUser] ELSE row
Forget(row, u) ==
    IF row.target_user_id = u THEN NoRow
    ELSE IF row.redeemed_by = u THEN [row EXCEPT !.redeemed_by = NoUser] ELSE row

\* The row of the user first, then those its foreign keys lead to.
DeleteUserFlush(r) ==
    /\ At(r, "delete_user_flush")
    /\ ~Waits(r)
    /\ LET u == req[r].user IN
       IF u \in Present
       THEN Lock(r, [req[r] EXCEPT !.pc = "delete_user_commit"],
                 {i \in Rows : u \in {invites[i].target_user_id, invites[i].redeemed_by}})
       ELSE End(r)
    /\ NoData

DeleteUserCommit(r) ==
    /\ Locked(r, "delete_user_commit")
    /\ accounts' = [accounts EXCEPT ![req[r].user] = "deleted"]
    /\ invites' = [i \in Invite |-> IF i \in req[r].held THEN Forget(invites[i], req[r].user)
                                     ELSE invites[i]]
    /\ End(r)
    /\ UNCHANGED <<codes, past, redemptions>>

-----------------------------------------------------------------------------
(* POST /invites/redeem.                                                   *)

\* The code is looked up; anything but an active invitation is refused at once.
Redeem(r, i, u) ==
    /\ At(r, "idle")
    /\ i \in Rows
    /\ Active(i, invites[i])
    /\ LET target == invites[i].target_user_id IN
       Put(r, [Idle EXCEPT !.pc = "redeem_user", !.inv = i, !.seen = invites[i],
                           !.user = IF target = NoUser THEN u ELSE target])
    /\ accounts[u] # "deleted"
    /\ NoData

\* A re-pair code names its user; the others insert one, if the name is free.
RedeemUser_LookupOnly(r) ==
    /\ At(r, "redeem_user")
    /\ IF accounts[req[r].user] = IF req[r].seen.target_user_id = NoUser THEN "absent" ELSE "present"
       THEN Goto(r, "redeem_flush") ELSE End(r)
    /\ NoData

RedeemUser(r) ==
    /\ At(r, "redeem_user")
    /\ ~Waits(r)
    /\ IF accounts[req[r].user] = IF req[r].seen.target_user_id = NoUser THEN "absent" ELSE "present"
       THEN Goto(r, "redeem_flush") ELSE End(r)
    /\ NoData

\* The device is inserted, if its user is still there.
RedeemFlush(r) ==
    /\ At(r, "redeem_flush")
    /\ ~Waits(r)
    /\ IF req[r].seen.target_user_id # NoUser => req[r].user \in Present
       THEN Put(r, [req[r] EXCEPT !.pc = "redeem_count", !.asks = req[r].inv])
       ELSE End(r)
    /\ NoData

\* The invitation is updated; a row that vanished fails the flush and rolls back
\* everything, the new account included.
RedeemCount_AtOnce(r) ==
    /\ At(r, "redeem_count")
    /\ ~Waits(r)
    /\ req[r].inv \in Rows
    /\ invites' = [invites EXCEPT ![req[r].inv].uses_count = req[r].seen.uses_count + 1]
    /\ Put(r, [req[r] EXCEPT !.pc = "redeem_commit", !.asks = NoInvite, !.held = {req[r].inv}])
    /\ UNCHANGED <<accounts, codes, past, redemptions>>

RedeemCount(r) ==
    /\ At(r, "redeem_count")
    /\ ~Waits(r)
    /\ IF req[r].inv \in Rows
       THEN Put(r, [req[r] EXCEPT !.pc = "redeem_commit", !.asks = NoInvite, !.held = {req[r].inv}])
       ELSE End(r)
    /\ NoData

RedeemCommit(r) ==
    /\ At(r, "redeem_commit")
    /\ LET i == req[r].inv IN
       /\ invites' = [invites EXCEPT ![i] = Redeemed(@, req[r].seen, req[r].user)]
       /\ redemptions' = [redemptions EXCEPT ![i] = @ + 1]
    /\ accounts' = [accounts EXCEPT ![req[r].user] = "present"]
    /\ End(r)
    /\ UNCHANGED <<codes, past>>

-----------------------------------------------------------------------------

\* An expiry passes.
Expire(i) ==
    /\ i \in codes \ past
    /\ past' = past \cup {i}
    /\ UNCHANGED <<accounts, invites, codes, req, redemptions>>

Deadlock_Retries(r) ==
    /\ InCircle(r)
    /\ Lock(r, [req[r] EXCEPT !.held = {}], req[r].picks \cup req[r].held)
    /\ NoData

\* PostgreSQL aborts a request it finds in a circle of waits; nothing tries again.
Deadlock(r) == InCircle(r) /\ End(r) /\ NoData

\* A worker dies or a connection is lost.
Rollback(r) == ~At(r, "idle") /\ End(r) /\ NoData

Arrive(r) ==
    \/ ClearInactive(r)
    \/ \E i \in Invite : RevokeInvite(r, i) \/ DeleteInvite(r, i)
    \/ \E i \in Invite, u \in User : Redeem(r, i, u)
    \/ \E u \in User : DeleteUser(r, u)
    \/ \E i \in Invite, n \in 1..MaxUses, exp \in BOOLEAN, target \in Member \cup {NoUser} :
          CreateInvite(r, i, n, exp, target)

Proceed(r) ==
    \/ CreateFlush(r) \/ CreateCommit(r) \/ LockRow(r) \/ RevokeCommit(r) \/ DeleteCommit(r)
    \/ DeleteUserFlush(r) \/ DeleteUserCommit(r)
    \/ RedeemUser(r) \/ RedeemFlush(r) \/ RedeemCount(r) \/ RedeemCommit(r)
    \/ Deadlock(r)

Init ==
    /\ accounts = [u \in User |-> IF u \in Member THEN "present" ELSE "absent"]
    /\ invites = [i \in Invite |-> NoRow]
    /\ codes = {}
    /\ past = {}
    /\ req = [r \in Request |-> Idle]
    /\ redemptions = [i \in Invite |-> 0]

Next ==
    \/ \E r \in Request : Arrive(r) \/ Proceed(r) \/ Rollback(r)
    \/ \E i \in Invite : Expire(i)

Spec == Init /\ [][Next]_vars

\* Ready tasks run, and the database grants a lock to a waiter for which it is
\* released again and again: a stream of redemptions that all roll back could
\* otherwise keep the next one waiting.
FairSpec == Spec /\ \A r \in Request : SF_vars(Proceed(r))

-----------------------------------------------------------------------------
(* The users of Accounts.                                                  *)

\* A sign-up, or a deletion, as Accounts sees it; re-pairing is none of its business.
UserRequest(q) ==
    LET signsUp == req[q].seen # NoRow /\ req[q].seen.target_user_id = NoUser
        rec(step) == [pc |-> step, user |-> req[q].user, role |-> "user"]
    IN
    IF At(q, "redeem_user") /\ signsUp THEN rec("insert")
    ELSE IF req[q].pc \in {"redeem_flush", "redeem_count", "redeem_commit"} /\ signsUp
         THEN rec("create_commit")
    ELSE IF req[q].pc \in {"delete_user_flush", "delete_user_commit"} THEN rec("delete_commit")
    ELSE [pc |-> "idle", user |-> NoUser, role |-> "user"]

Role(u) ==
    IF u = Admin THEN "admin" ELSE IF accounts[u] = "present" THEN "user" ELSE accounts[u]

Users == INSTANCE Accounts WITH
    User <- User \cup {Admin},
    accounts <- [u \in User \cup {Admin} |-> Role(u)],
    req <- [q \in Request |-> UserRequest(q)],
    raced <- FALSE,
    crossed <- FALSE

-----------------------------------------------------------------------------
(* Properties.                                                             *)

\* However stale the counter a redemption read, what it writes never exceeds
\* the limit, so "uses/max" shown to the administrator is never more than full.
CountWithinLimit == \A i \in Rows : invites[i].uses_count <= invites[i].max_uses

\* A redemption that failed, or crashed, after it had touched the invitation
\* costs no use: the counter never exceeds the committed redemptions, and an
\* invitation redeemed at least once says so.
FailuresCostNoUse ==
    \A i \in Rows :
        /\ invites[i].uses_count <= redemptions[i]
        /\ redemptions[i] > 0 => invites[i].uses_count > 0

\* clear_inactive_invites: "Delete all revoked/expired invites (keeps active +
\* redeemed)", although the deletes run on a list read earlier.
ClearTakesOnlyDead ==
    [][\A r \in Request : DeleteCommit(r) /\ At(r, "clear_commit") =>
          \A i \in Rows : invites'[i] = NoRow =>
              Revoked(invites[i]) \/ Expired(i, invites[i])]_vars

\* A redemption in flight writes three columns back over a row that may have
\* been revoked meanwhile: the revocation is never undone.
RevocationSurvives ==
    [][\A i \in Rows : invites[i].revoked_at /\ invites'[i] # NoRow =>
          invites'[i].revoked_at]_vars

\* Every account an invitation refers to exists, whatever redemptions, re-pair
\* codes and account deletions overlap.
ReferencesExist ==
    \A i \in Rows : {invites[i].redeemed_by, invites[i].target_user_id} \ {NoUser} \subseteq Present

\* Redemptions and cascades create and delete users as Accounts does: a name that
\* is being signed up with is taken for all others, no redemption brings a deleted
\* user back, and re-pairing creates nobody.
ImplementsAccounts == [][Users!Next]_(Users!vars)

\* Requests end, also those that wait for rows, for a user or for a username, and
\* those that wait for each other: an account deletion whose cascade meets the rows
\* clear_inactive_invites is deleting.
EveryRequestEnds == \A r \in Request : ~At(r, "idle") ~> At(r, "idle")

-----------------------------------------------------------------------------
(* What the documents say and the code does not do.                        *)

\* SECURITY.md: "single-use"; test_single_use_code_cannot_be_redeemed_twice.
SingleUse == \A i \in Rows : redemptions[i] <= invites[i].max_uses
=============================================================================
