-------------------------------- MODULE Accounts --------------------------------
(***************************************************************************)
(* Accounts: the first-run setup, members who join with an invitation, and *)
(* the deletion of users by administrators.                                *)
(*                                                                         *)
(* Three rules guard the table "users", and each of them reads first and   *)
(* writes later: setup is refused once any user exists, a username is      *)
(* taken once, and the last administrator cannot be deleted.  Only the     *)
(* second one is also a constraint of the database.                        *)
(*                                                                         *)
(* A user is its username; a deleted name is not registered a second time, *)
(* a bound of the instances.  No operation changes a role.                 *)
(***************************************************************************)
CONSTANTS User, Request, NoUser

VARIABLES
    accounts,  \* accounts[u]: "absent", "admin", "user" or "deleted"
    req,       \* req[r]: what the worker running request r knows
    raced,     \* history: two setups were under way at once
    crossed    \* history: two deletions of administrators had both counted the others

vars == <<accounts, req, raced, crossed>>

Roles == {"admin", "user"}

\* "user": the username to insert or the user to delete; "role": its role.
Idle == [pc |-> "idle", user |-> NoUser, role |-> "user"]

TypeOK ==
    /\ accounts \in [User -> Roles \cup {"absent", "deleted"}]
    /\ req \in [Request -> [pc: {"idle", "insert", "create_commit", "count", "delete_commit"},
                            user: User \cup {NoUser}, role: Roles]]
    /\ raced \in BOOLEAN
    /\ crossed \in BOOLEAN

-----------------------------------------------------------------------------

Present == {u \in User : accounts[u] \in Roles}
Admins == {u \in User : accounts[u] = "admin"}
SetUp == \E u \in User : accounts[u] # "absent"

AnyUserExists == Present # {}

At(r, step) == req[r].pc = step
Put(r, step, u, role) == req' = [req EXCEPT ![r] = [pc |-> step, user |-> u, role |-> role]]
Goto(r, step) == req' = [req EXCEPT ![r].pc = step]
End(r) == req' = [req EXCEPT ![r] = Idle]

Creating(q) == At(q, "insert") \/ At(q, "create_commit")
SettingUp(q) == Creating(q) /\ req[q].role = "admin"
\* A deletion of an administrator that has passed its count.
Counted(q) == At(q, "delete_commit") /\ req[q].role = "admin"

\* An uncommitted insert of username u: the unique index makes others wait.
Claimed(u) == \E q \in Request : At(q, "create_commit") /\ req[q].user = u

-----------------------------------------------------------------------------

\* POST /setup, by the API or the console.
Setup(r, u) ==
    /\ At(r, "idle")
    /\ ~AnyUserExists
    /\ Put(r, "insert", u, "admin")
    /\ raced' = (raced \/ \E q \in Request : SettingUp(q))
    /\ UNCHANGED <<accounts, crossed>>

\* POST /invites/redeem with a code an administrator once made.
Join(r, u) ==
    /\ At(r, "idle")
    /\ SetUp
    /\ Put(r, "insert", u, "user")
    /\ UNCHANGED <<accounts, raced, crossed>>

\* create_user: a name found by the lookup is a 409, one found by the unique
\* index only is a failed flush.
Insert(r) ==
    /\ At(r, "insert")
    /\ ~Claimed(req[r].user)
    /\ IF accounts[req[r].user] = "absent" THEN Goto(r, "create_commit") ELSE End(r)
    /\ UNCHANGED <<accounts, raced, crossed>>

CreateCommit(r) ==
    /\ At(r, "create_commit")
    /\ accounts' = [accounts EXCEPT ![req[r].user] = req[r].role]
    /\ End(r)
    /\ UNCHANGED <<raced, crossed>>

\* delete_user by administrator a: an administrator has the others counted.
DeleteUser(r, a, u) ==
    /\ At(r, "idle")
    /\ a \in Admins
    /\ u \in Present \ {a}
    /\ Put(r, IF u \in Admins THEN "count" ELSE "delete_commit", u, accounts[u])
    /\ UNCHANGED <<accounts, raced, crossed>>

OthersThan(u) == Admins \ {u}

CountOthers(r) ==
    /\ At(r, "count")
    /\ IF OthersThan(req[r].user) # {}
       THEN /\ Goto(r, "delete_commit")
            /\ crossed' = (crossed \/ \E q \in Request : Counted(q))
       ELSE End(r) /\ UNCHANGED crossed
    /\ UNCHANGED <<accounts, raced>>

\* The DELETE is flushed by the commit; a row that is gone is only warned about.
DeleteCommit(r) ==
    /\ At(r, "delete_commit")
    /\ accounts' = [accounts EXCEPT ![req[r].user] = "deleted"]
    /\ End(r)
    /\ UNCHANGED <<raced, crossed>>

\* A worker dies or its connection breaks before the commit.
Rollback(r) ==
    /\ ~At(r, "idle")
    /\ End(r)
    /\ UNCHANGED <<accounts, raced, crossed>>

Arrive(r) ==
    \/ \E u \in User : Setup(r, u) \/ Join(r, u)
    \/ \E a, u \in User : DeleteUser(r, a, u)

Proceed(r) == Insert(r) \/ CreateCommit(r) \/ CountOthers(r) \/ DeleteCommit(r)

Init ==
    /\ accounts = [u \in User |-> "absent"]
    /\ req = [r \in Request |-> Idle]
    /\ raced = FALSE
    /\ crossed = FALSE

Next == \E r \in Request : Arrive(r) \/ Proceed(r) \/ Rollback(r)

Spec == Init /\ [][Next]_vars

-----------------------------------------------------------------------------
(* Properties.                                                             *)

\* The first-run lock: although setup looks for users in one statement and
\* commits its own much later, with members joining meanwhile, there is never a
\* second administrator unless two setups overlapped.
OneAdministrator == ~raced => \A u, v \in Admins : u = v

\* The last administrator: however deletions, setups and joins interleave, an
\* instance that was set up keeps one, unless two administrators were deleted by
\* overlapping requests that had counted each other.
LastAdminProtected == ~crossed /\ SetUp => Admins # {}

-----------------------------------------------------------------------------
(* What a comment says and the code does not do.                           *)

\* users_admin.py: "Don't allow deleting the last remaining admin."
AdminRemains == SetUp => Admins # {}
=============================================================================
