----------------------------- MODULE AccountsProofs -----------------------------
(***************************************************************************)
(* Proofs about Accounts, for any number of users and overlapping requests.*)
(***************************************************************************)
EXTENDS Accounts, TLAPS

-----------------------------------------------------------------------------
(* The inductive invariant.                                                *)

\* A request under way names a user, and members join only what was set up.  A
\* name about to be committed is free, and one request only is about to commit
\* it; a user about to be deleted existed, with the role the request has read.
RequestInv ==
    /\ \A q \in Request : ~At(q, "idle") => req[q].user \in User
    /\ \A q \in Request : At(q, "create_commit") => accounts[req[q].user] = "absent"
    /\ \A p, q \in Request :
          At(p, "create_commit") /\ At(q, "create_commit") /\ req[p].user = req[q].user => p = q
    /\ \A q \in Request : Creating(q) /\ req[q].role = "user" => SetUp
    /\ \A q \in Request : At(q, "count") => req[q].role = "admin"
    /\ \A q \in Request :
          At(q, "count") \/ At(q, "delete_commit") =>
              accounts[req[q].user] \in {req[q].role, "deleted"}

\* While no two setups have overlapped, one that is under way is the only one
\* and there is no administrator yet.
SetupInv ==
    ~raced => \A q \in Request : SettingUp(q) =>
                 /\ Admins = {}
                 /\ \A p \in Request : SettingUp(p) => p = q

\* While no two deletions have counted each other, one that has counted is the
\* only one, and an administrator other than its target is there.
DeletionInv ==
    ~crossed => \A q \in Request : Counted(q) =>
                   /\ OthersThan(req[q].user) # {}
                   /\ \A p \in Request : Counted(p) => p = q

AccountInv ==
    /\ TypeOK
    /\ RequestInv
    /\ SetupInv
    /\ DeletionInv
    /\ OneAdministrator
    /\ LastAdminProtected

-----------------------------------------------------------------------------

\* Before the first setup nothing is under way and nobody is there.
LEMMA AccountInvInit == Init => AccountInv
<1> SUFFICES ASSUME Init PROVE AccountInv
  OBVIOUS
<1> USE DEF Init, At, Idle
<1>1. TypeOK
  BY DEF TypeOK, Roles
<1>2. \A q \in Request : req[q].pc = "idle"
  OBVIOUS
<1>3. RequestInv
  BY <1>2 DEF RequestInv, Creating
<1>4. SetupInv /\ DeletionInv
  BY <1>2 DEF SetupInv, DeletionInv, SettingUp, Creating, Counted
<1>5. OneAdministrator /\ LastAdminProtected
  BY DEF OneAdministrator, LastAdminProtected, Admins, SetUp
<1> QED BY <1>1, <1>3, <1>4, <1>5 DEF AccountInv

\* A setup that begins: nobody is there, so nothing but another setup can be in
\* its way, and that is remembered.
LEMMA SetupKeeps ==
    ASSUME AccountInv, NEW r \in Request, NEW u \in User, Setup(r, u)
    PROVE  AccountInv'
<1> USE DEF At, Idle
<1>1. /\ req[r].pc = "idle" /\ Admins = {} /\ Admins' = {} /\ accounts' = accounts
      /\ req' = [req EXCEPT ![r] = [pc |-> "insert", user |-> u, role |-> "admin"]]
      /\ crossed' = crossed
  BY DEF Setup, AnyUserExists, Present, Admins, Roles, Put
<1>2. /\ req'[r] = [pc |-> "insert", user |-> u, role |-> "admin"]
      /\ \A q \in Request \ {r} : req'[q] = req[q]
  BY <1>1 DEF AccountInv, TypeOK
<1>3. TypeOK'
  BY <1>1 DEF AccountInv, TypeOK, Setup, Roles
<1>4. RequestInv'
  BY <1>1, <1>2 DEF AccountInv, RequestInv, Creating, SetUp
<1>5. SetupInv'
  <2> SUFFICES ASSUME ~raced' PROVE \A q \in Request : (SettingUp(q))' => q = r
    BY <1>1 DEF SetupInv
  <2>1. \A q \in Request : ~SettingUp(q)
    BY DEF Setup
  <2> QED BY <1>2, <2>1 DEF SettingUp, Creating
<1>6. DeletionInv'
  BY <1>1, <1>2 DEF AccountInv, DeletionInv, Counted, OthersThan, Admins
<1>7. OneAdministrator' /\ LastAdminProtected'
  BY <1>1 DEF AccountInv, OneAdministrator, LastAdminProtected, SetUp, Admins
<1> QED BY <1>3, <1>4, <1>5, <1>6, <1>7 DEF AccountInv

\* A member who joins changes nothing yet.
LEMMA JoinKeeps ==
    ASSUME AccountInv, NEW r \in Request, NEW u \in User, Join(r, u)
    PROVE  AccountInv'
<1> USE DEF At, Idle
<1>1. /\ req[r].pc = "idle" /\ accounts' = accounts /\ raced' = raced /\ crossed' = crossed
      /\ req' = [req EXCEPT ![r] = [pc |-> "insert", user |-> u, role |-> "user"]]
  BY DEF Join, Put
<1>2. /\ req'[r] = [pc |-> "insert", user |-> u, role |-> "user"]
      /\ \A q \in Request \ {r} : req'[q] = req[q]
  BY <1>1 DEF AccountInv, TypeOK
<1>3. TypeOK'
  BY <1>1 DEF AccountInv, TypeOK, Roles
<1>4. RequestInv'
  BY <1>1, <1>2 DEF AccountInv, RequestInv, Creating, SetUp, Join
<1>5. SetupInv'
  BY <1>1, <1>2 DEF AccountInv, SetupInv, SettingUp, Creating, Admins
<1>6. DeletionInv'
  BY <1>1, <1>2 DEF AccountInv, DeletionInv, Counted, OthersThan, Admins
<1>7. OneAdministrator' /\ LastAdminProtected'
  BY <1>1 DEF AccountInv, OneAdministrator, LastAdminProtected, SetUp, Admins
<1> QED BY <1>3, <1>4, <1>5, <1>6, <1>7 DEF AccountInv

\* A request that ends without writing leaves less to worry about.
LEMMA EndKeeps ==
    ASSUME AccountInv, NEW r \in Request, End(r), UNCHANGED <<accounts, raced, crossed>>
    PROVE  AccountInv'
<1> USE DEF At, Idle
<1>1. req' = [req EXCEPT ![r] = [pc |-> "idle", user |-> NoUser, role |-> "user"]]
  BY DEF End
<1>2. /\ req'[r] = [pc |-> "idle", user |-> NoUser, role |-> "user"]
      /\ \A q \in Request \ {r} : req'[q] = req[q]
  BY <1>1 DEF AccountInv, TypeOK
<1>3. TypeOK'
  BY <1>1 DEF AccountInv, TypeOK, Roles
<1>4. RequestInv'
  BY <1>2 DEF AccountInv, RequestInv, Creating, SetUp
<1>5. SetupInv'
  BY <1>2 DEF AccountInv, SetupInv, SettingUp, Creating, Admins
<1>6. DeletionInv'
  BY <1>2 DEF AccountInv, DeletionInv, Counted, OthersThan, Admins
<1>7. OneAdministrator' /\ LastAdminProtected'
  BY DEF AccountInv, OneAdministrator, LastAdminProtected, SetUp, Admins
<1> QED BY <1>3, <1>4, <1>5, <1>6, <1>7 DEF AccountInv

\* The insert that is flushed: the name was free and nobody else claims it.
LEMMA InsertKeeps ==
    ASSUME AccountInv, NEW r \in Request, Insert(r)
    PROVE  AccountInv'
<1> USE DEF At
<1> DEFINE u == req[r].user
<1>1. CASE accounts[u] # "absent"
  BY <1>1, EndKeeps DEF Insert
<1>2. CASE accounts[u] = "absent"
  <2>1. /\ req[r].pc = "insert" /\ ~Claimed(u)
        /\ req' = [req EXCEPT ![r].pc = "create_commit"]
        /\ UNCHANGED <<accounts, raced, crossed>>
    BY <1>2 DEF Insert, Goto
  <2>2. /\ req'[r].pc = "create_commit" /\ req'[r].user = u /\ req'[r].role = req[r].role
        /\ \A q \in Request \ {r} : req'[q] = req[q]
    BY <2>1 DEF AccountInv, TypeOK
  <2>3. TypeOK'
    BY <2>1 DEF AccountInv, TypeOK, Roles
  <2>4. RequestInv'
    BY <1>2, <2>1, <2>2 DEF AccountInv, RequestInv, Claimed, Creating, SetUp
  <2>5. \A q \in Request : (SettingUp(q))' = SettingUp(q)
    BY <2>1, <2>2 DEF SettingUp, Creating
  <2>6. SetupInv'
    BY <2>1, <2>5 DEF AccountInv, SetupInv, Admins
  <2>7. DeletionInv'
    BY <2>1, <2>2 DEF AccountInv, DeletionInv, Counted, OthersThan, Admins
  <2>8. OneAdministrator' /\ LastAdminProtected'
    BY <2>1 DEF AccountInv, OneAdministrator, LastAdminProtected, SetUp, Admins
  <2> QED BY <2>3, <2>4, <2>6, <2>7, <2>8 DEF AccountInv
<1> QED BY <1>1, <1>2

\* The commit of a new user, who replaces nobody: the first administrator when
\* it comes from the only setup, an account more when somebody joins.
LEMMA CreateKeeps ==
    ASSUME AccountInv, NEW r \in Request, CreateCommit(r)
    PROVE  AccountInv'
<1> USE DEF At, Idle
<1> DEFINE u == req[r].user
           role == req[r].role
<1>1. /\ req[r].pc = "create_commit" /\ raced' = raced /\ crossed' = crossed
      /\ accounts' = [accounts EXCEPT ![u] = role]
      /\ req' = [req EXCEPT ![r] = [pc |-> "idle", user |-> NoUser, role |-> "user"]]
  BY DEF CreateCommit, End
<1>2. u \in User /\ role \in Roles /\ accounts[u] = "absent"
  BY <1>1 DEF AccountInv, TypeOK, RequestInv
<1>3. /\ req'[r] = [pc |-> "idle", user |-> NoUser, role |-> "user"]
      /\ \A q \in Request \ {r} : req'[q] = req[q]
  BY <1>1 DEF AccountInv, TypeOK
<1>4. accounts'[u] = role /\ \A v \in User \ {u} : accounts'[v] = accounts[v]
  BY <1>1, <1>2 DEF AccountInv, TypeOK
<1>5. TypeOK'
  BY <1>1, <1>2 DEF AccountInv, TypeOK, Roles
<1>6. Admins \subseteq Admins' /\ Admins' \subseteq Admins \cup {u}
  BY <1>2, <1>4 DEF Admins
<1>7. role = "user" => Admins' = Admins
  BY <1>2, <1>4 DEF Admins
<1>8. RequestInv'
  <2>1. \A q \in Request : req'[q].pc # "idle" => q # r
    BY <1>3
  <2>2. \A q \in Request \ {r} : At(q, "create_commit") => req[q].user # u
    BY <1>1 DEF AccountInv, RequestInv
  <2>3. \A q \in Request \ {r} :
           At(q, "count") \/ At(q, "delete_commit") => req[q].user # u
    BY <1>2 DEF AccountInv, RequestInv, TypeOK, Roles
  <2>4. \A q \in Request \ {r} : req[q].pc # "idle" => req[q].user \in User
    BY DEF AccountInv, RequestInv
  <2>5. SetUp'
    BY <1>2, <1>4 DEF SetUp, Roles
  <2> QED BY <1>3, <1>4, <2>1, <2>2, <2>3, <2>4, <2>5 DEF AccountInv, RequestInv
<1>9. ~raced' => SetupInv' /\ OneAdministrator'
  <2> SUFFICES ASSUME ~raced PROVE SetupInv' /\ OneAdministrator'
    BY <1>1
  <2>1. CASE role = "user"
    BY <1>1, <1>3, <1>7, <2>1 DEF AccountInv, SetupInv, SettingUp, Creating, OneAdministrator
  <2>2. CASE role = "admin"
    <3>1. Admins = {} /\ \A p \in Request \ {r} : ~SettingUp(p)
      BY <1>1, <2>2 DEF AccountInv, SetupInv, SettingUp, Creating
    <3>2. \A p \in Request : ~SettingUp(p)'
      BY <1>3, <3>1 DEF SettingUp, Creating
    <3> QED BY <1>6, <3>1, <3>2 DEF SetupInv, OneAdministrator
  <2> QED BY <1>2, <2>1, <2>2 DEF Roles
<1>10. SetupInv' /\ OneAdministrator'
  BY <1>9 DEF SetupInv, OneAdministrator
<1>11. DeletionInv'
  <2>1. \A q \in Request : (Counted(q))' => q # r /\ Counted(q) /\ req'[q] = req[q]
    BY <1>3 DEF Counted
  <2>2. \A v \in User : OthersThan(v) \subseteq (OthersThan(v))'
    BY <1>6 DEF OthersThan
  <2>3. \A q \in Request : Counted(q) => req[q].user \in User
    BY DEF Counted, AccountInv, RequestInv
  <2> SUFFICES ASSUME ~crossed, NEW q \in Request, (Counted(q))'
               PROVE  /\ (OthersThan(req[q].user))' # {}
                      /\ \A p \in Request : (Counted(p))' => p = q
    BY <1>1 DEF DeletionInv
  <2>4. OthersThan(req[q].user) # {} /\ \A p \in Request : Counted(p) => p = q
    BY <2>1 DEF AccountInv, DeletionInv
  <2>5. (OthersThan(req[q].user))' # {}
    BY <1>6, <2>1, <2>4 DEF OthersThan
  <2> QED BY <2>1, <2>4, <2>5
<1>12. LastAdminProtected'
  <2> SUFFICES ASSUME ~crossed PROVE Admins' # {}
    BY <1>1 DEF LastAdminProtected
  <2>1. CASE role = "admin"
    BY <1>2, <1>4, <2>1 DEF Admins
  <2>2. CASE role = "user"
    <3>1. SetUp
      BY <1>1, <2>2 DEF AccountInv, RequestInv, Creating
    <3> QED BY <1>1, <1>6, <3>1 DEF AccountInv, LastAdminProtected
  <2> QED BY <1>2, <2>1, <2>2 DEF Roles
<1> QED BY <1>5, <1>8, <1>10, <1>11, <1>12 DEF AccountInv

\* A deletion that is accepted has read the role of a user who is there.
LEMMA DeleteUserKeeps ==
    ASSUME AccountInv, NEW r \in Request, NEW a \in User, NEW u \in User, DeleteUser(r, a, u)
    PROVE  AccountInv'
<1> USE DEF At, Idle
<1> DEFINE step == IF u \in Admins THEN "count" ELSE "delete_commit"
<1>1. /\ req[r].pc = "idle" /\ accounts[u] \in Roles
      /\ req' = [req EXCEPT ![r] = [pc |-> step, user |-> u, role |-> accounts[u]]]
      /\ UNCHANGED <<accounts, raced, crossed>>
  BY DEF DeleteUser, Present, Put
<1>2. /\ req'[r] = [pc |-> step, user |-> u, role |-> accounts[u]]
      /\ \A q \in Request \ {r} : req'[q] = req[q]
  BY <1>1 DEF AccountInv, TypeOK
<1>3. /\ step \in {"count", "delete_commit"}
      /\ step = "count" <=> accounts[u] = "admin"
  BY DEF Admins
<1>4. TypeOK'
  BY <1>1, <1>3 DEF AccountInv, TypeOK
<1>5. RequestInv'
  <2>1. accounts'[u] = accounts[u] /\ accounts' = accounts
    BY <1>1
  <2> QED BY <1>1, <1>2, <1>3, <2>1 DEF AccountInv, RequestInv, Creating, SetUp
<1>6. \A q \in Request : /\ (SettingUp(q))' => SettingUp(q)
                         /\ (Counted(q))' => Counted(q) /\ req'[q] = req[q]
  BY <1>2, <1>3 DEF SettingUp, Creating, Counted
<1>7. SetupInv'
  BY <1>1, <1>6 DEF AccountInv, SetupInv, Admins
<1>8. DeletionInv'
  BY <1>1, <1>6 DEF AccountInv, DeletionInv, OthersThan, Admins
<1>9. OneAdministrator' /\ LastAdminProtected'
  BY <1>1 DEF AccountInv, OneAdministrator, LastAdminProtected, SetUp, Admins
<1> QED BY <1>4, <1>5, <1>7, <1>8, <1>9 DEF AccountInv

\* A count that finds another administrator: unless another deletion has
\* counted too, that one stays until this deletion commits.
LEMMA CountKeeps ==
    ASSUME AccountInv, NEW r \in Request, CountOthers(r)
    PROVE  AccountInv'
<1> USE DEF At
<1> DEFINE u == req[r].user
<1>1. CASE OthersThan(u) = {}
  BY <1>1, EndKeeps DEF CountOthers
<1>2. CASE OthersThan(u) # {}
  <2>1. /\ req[r].pc = "count" /\ accounts' = accounts /\ raced' = raced
        /\ req' = [req EXCEPT ![r].pc = "delete_commit"]
        /\ crossed' = (crossed \/ \E q \in Request : Counted(q))
    BY <1>2 DEF CountOthers, Goto
  <2>2. /\ req'[r].pc = "delete_commit" /\ req'[r].user = u /\ req'[r].role = req[r].role
        /\ \A q \in Request \ {r} : req'[q] = req[q]
    BY <2>1 DEF AccountInv, TypeOK
  <2>3. TypeOK'
    BY <2>1 DEF AccountInv, TypeOK
  <2>4. RequestInv'
    BY <2>1, <2>2 DEF AccountInv, RequestInv, Creating, SetUp
  <2>5. \A q \in Request : (SettingUp(q))' = SettingUp(q)
    BY <2>1, <2>2 DEF SettingUp, Creating
  <2>6. SetupInv'
    BY <2>1, <2>5 DEF AccountInv, SetupInv, Admins
  <2>7. DeletionInv'
    <3> SUFFICES ASSUME ~crossed', NEW q \in Request, (Counted(q))'
                 PROVE  q = r /\ (OthersThan(req[q].user))' # {}
      BY DEF DeletionInv
    <3>1. q = r
      BY <2>1, <2>2 DEF Counted
    <3> QED BY <1>2, <2>1, <2>2, <3>1 DEF OthersThan, Admins
  <2>8. OneAdministrator' /\ LastAdminProtected'
    BY <2>1 DEF AccountInv, OneAdministrator, LastAdminProtected, SetUp, Admins
  <2> QED BY <2>3, <2>4, <2>6, <2>7, <2>8 DEF AccountInv
<1> QED BY <1>1, <1>2

\* The commit of a deletion: of an administrator, and then another one stays,
\* or of somebody who never was one.
LEMMA DeleteKeeps ==
    ASSUME AccountInv, NEW r \in Request, DeleteCommit(r)
    PROVE  AccountInv'
<1> USE DEF At, Idle
<1> DEFINE u == req[r].user
<1>1. /\ req[r].pc = "delete_commit" /\ raced' = raced /\ crossed' = crossed
      /\ accounts' = [accounts EXCEPT ![u] = "deleted"]
      /\ req' = [req EXCEPT ![r] = [pc |-> "idle", user |-> NoUser, role |-> "user"]]
  BY DEF DeleteCommit, End
<1>2. u \in User /\ accounts[u] \in {req[r].role, "deleted"} /\ req[r].role \in Roles
  BY <1>1 DEF AccountInv, TypeOK, RequestInv
<1>3. /\ req'[r] = [pc |-> "idle", user |-> NoUser, role |-> "user"]
      /\ \A q \in Request \ {r} : req'[q] = req[q]
  BY <1>1 DEF AccountInv, TypeOK
<1>4. accounts'[u] = "deleted" /\ \A v \in User \ {u} : accounts'[v] = accounts[v]
  BY <1>1, <1>2 DEF AccountInv, TypeOK
<1>5. TypeOK'
  BY <1>1, <1>2 DEF AccountInv, TypeOK, Roles
<1>6. Admins' = Admins \ {u} /\ SetUp /\ SetUp'
  BY <1>2, <1>4 DEF Admins, SetUp, Roles
<1>7. RequestInv'
  <2>1. \A q \in Request \ {r} : At(q, "create_commit") => req[q].user # u
    BY <1>2 DEF AccountInv, RequestInv, Roles
  <2>2. \A q \in Request : At(q, "create_commit") => req[q].user \in User
    BY DEF AccountInv, RequestInv
  <2>3. \A q \in Request : ~At(q, "idle") => accounts'[req[q].user] \in {accounts[req[q].user], "deleted"}
    BY <1>4 DEF AccountInv, RequestInv
  <2>4. \A q \in Request : At(q, "create_commit")' => q # r /\ accounts'[req'[q].user] = "absent"
    BY <1>3, <1>4, <2>1, <2>2 DEF AccountInv, RequestInv
  <2>5. \A q \in Request : (At(q, "count") \/ At(q, "delete_commit"))' =>
           accounts'[req'[q].user] \in {req'[q].role, "deleted"}
    BY <1>3, <2>3 DEF AccountInv, RequestInv
  <2> QED BY <1>3, <1>6, <2>4, <2>5 DEF AccountInv, RequestInv, Creating
<1>8. \A q \in Request : /\ (SettingUp(q))' => SettingUp(q)
                         /\ (Counted(q))' => q # r /\ Counted(q) /\ req'[q] = req[q]
  BY <1>3 DEF SettingUp, Creating, Counted
<1>9. SetupInv' /\ OneAdministrator'
  BY <1>1, <1>6, <1>8 DEF AccountInv, SetupInv, OneAdministrator
<1>10. ~crossed /\ u \in Admins => Counted(r) /\ OthersThan(u) # {}
  BY <1>1, <1>2 DEF AccountInv, DeletionInv, Counted, Admins
<1>11. DeletionInv'
  <2> SUFFICES ASSUME ~crossed, NEW q \in Request, (Counted(q))'
               PROVE  /\ (OthersThan(req[q].user))' # {}
                      /\ \A p \in Request : (Counted(p))' => p = q
    BY <1>1 DEF DeletionInv
  <2>1. q # r /\ Counted(q) /\ req'[q] = req[q]
    BY <1>8
  <2>2. OthersThan(req[q].user) # {} /\ \A p \in Request : Counted(p) => p = q
    BY <2>1 DEF AccountInv, DeletionInv
  <2>3. Admins' = Admins
    BY <1>6, <1>10, <2>1, <2>2
  <2> QED BY <1>8, <2>1, <2>2, <2>3 DEF OthersThan
<1>12. LastAdminProtected'
  BY <1>1, <1>6, <1>10 DEF AccountInv, LastAdminProtected, OthersThan
<1> QED BY <1>5, <1>7, <1>9, <1>11, <1>12 DEF AccountInv

\* Every step of the program keeps the invariant.
LEMMA AccountStep == AccountInv /\ [Next]_vars => AccountInv'
<1> SUFFICES ASSUME AccountInv, [Next]_vars PROVE AccountInv'
  OBVIOUS
<1>1. ASSUME NEW r \in Request, Arrive(r) PROVE AccountInv'
  BY <1>1, SetupKeeps, JoinKeeps, DeleteUserKeeps DEF Arrive
<1>2. ASSUME NEW r \in Request, Proceed(r) PROVE AccountInv'
  BY <1>2, InsertKeeps, CreateKeeps, CountKeeps, DeleteKeeps DEF Proceed
<1>3. ASSUME NEW r \in Request, Rollback(r) PROVE AccountInv'
  BY <1>3, EndKeeps DEF Rollback
<1>4. CASE UNCHANGED vars
  BY <1>4 DEF vars, AccountInv, TypeOK, RequestInv, SetupInv, DeletionInv, OneAdministrator,
              LastAdminProtected, At, SettingUp, Creating, Counted, Admins, SetUp, OthersThan
<1> QED BY <1>1, <1>2, <1>3, <1>4 DEF Next

-----------------------------------------------------------------------------
(* The theorems.                                                           *)

\* The invariant holds for any number of names and overlapping requests.
THEOREM AccountInvariant == Spec => []AccountInv
  BY AccountInvInit, AccountStep, PTL DEF Spec

\* Accounts and requests keep their types.
THEOREM AccountTypes == Spec => []TypeOK
<1>1. AccountInv => TypeOK
  BY DEF AccountInv
<1> QED BY <1>1, AccountInvariant, PTL

\* The first-run lock of setup: without overlapping setups there is at most one
\* administrator.
THEOREM SetupGivesOneAdministrator == Spec => []OneAdministrator
<1>1. AccountInv => OneAdministrator
  BY DEF AccountInv
<1> QED BY <1>1, AccountInvariant, PTL

\* delete_user never removes the last administrator, unless two administrators
\* are deleted by requests that have counted each other.
THEOREM AnAdministratorStays == Spec => []LastAdminProtected
<1>1. AccountInv => LastAdminProtected
  BY DEF AccountInv
<1> QED BY <1>1, AccountInvariant, PTL
=============================================================================
