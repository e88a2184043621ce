-------------------------- MODULE InvitationsUsersProofs --------------------------
(***************************************************************************)
(* Proof that redemptions and account deletions, as Invitations has them,  *)
(* create and delete users as Accounts does.                               *)
(***************************************************************************)
EXTENDS InvitationsProofs

-----------------------------------------------------------------------------
(* Who may create or delete a user.                                        *)

ForNewUser(a) == a.seen.target_user_id = NoUser
SignsUp(a) == a.pc \in {"redeem_flush", "redeem_count", "redeem_commit"} /\ ForNewUser(a)

\* A name that is inserted is not in use; a user that is re-paired or deleted is there.
NameOK(a) ==
    /\ SignsUp(a) => accounts[a.user] = "absent"
    /\ a.pc \in {"redeem_count", "redeem_commit"} /\ ~ForNewUser(a) => a.user \in Present
    /\ a.pc = "delete_user_commit" => a.user \in Present

\* A name is inserted once.
NameInv ==
    /\ \A q \in Request : NameOK(req[q])
    /\ \A p, q \in Request :
          p # q /\ SignsUp(req[p]) /\ SignsUp(req[q]) => req[p].user # req[q].user

\* What Accounts sees of a request.
View(a) ==
    IF a.pc = "redeem_user" /\ ForNewUser(a)
    THEN [pc |-> "insert", user |-> a.user, role |-> "user"]
    ELSE IF SignsUp(a) THEN [pc |-> "create_commit", user |-> a.user, role |-> "user"]
    ELSE IF a.pc \in {"delete_user_flush", "delete_user_commit"}
         THEN [pc |-> "delete_commit", user |-> a.user, role |-> "user"]
    ELSE [pc |-> "idle", user |-> NoUser, role |-> "user"]

NoView == [pc |-> "idle", user |-> NoUser, role |-> "user"]
Views == [q \in Request |-> UserRequest(q)]
AllUsers == [u \in User \cup {Admin} |-> Role(u)]

-----------------------------------------------------------------------------
(* What a step does to names.                                              *)

\* The other requests are as they were.
LEMMA Others ==
    ASSUME InvitationInv, NEW r \in Request, NEW a, Put(r, a)
    PROVE  req'[r] = a /\ \A q \in Request \ {r} : req'[q] = req[q]
  BY DEF InvitationInv, TypeOK, Put

\* An idle request has no name.
LEMMA IdleName == NameOK(Idle) /\ ~SignsUp(Idle) /\ View(Idle) = NoView
  BY DEF Idle, NameOK, SignsUp, View, NoView

\* While the accounts stay, it is enough to look at the new record.
LEMMA NamePut ==
    ASSUME InvitationInv, NameInv, NEW r \in Request, NEW a, Put(r, a), UNCHANGED accounts,
           NameOK(a),
           SignsUp(a) =>
               \A q \in Request \ {r} : SignsUp(req[q]) => req[q].user # a.user
    PROVE  NameInv'
<1>1. req'[r] = a /\ \A q \in Request \ {r} : req'[q] = req[q]
  BY Others
<1>2. ASSUME NEW q \in Request PROVE NameOK(req[q])'
  <2>1. NameOK(req'[q])
    BY <1>1 DEF NameInv
  <2> QED BY <2>1 DEF NameOK, SignsUp, ForNewUser, Present
<1>3. ASSUME NEW p \in Request, NEW q \in Request, p # q, SignsUp(req[p])', SignsUp(req[q])'
      PROVE  req'[p].user # req'[q].user
  <2>1. SignsUp(req'[p]) /\ SignsUp(req'[q])
    BY <1>3 DEF SignsUp, ForNewUser
  <2> QED BY <1>1, <1>3, <2>1 DEF NameInv
<1> QED BY <1>2, <1>3 DEF NameInv

\* A request that ends has no name any more.
LEMMA NameEnd ==
    ASSUME InvitationInv, NameInv, NEW r \in Request, End(r), UNCHANGED accounts
    PROVE  NameInv'
  BY NamePut, IdleName DEF End

\* A request ends and one user changes, whom no other request inserts, re-pairs or deletes.
LEMMA NameCommit ==
    ASSUME InvitationInv, NameInv, NEW r \in Request, End(r),
           NEW u \in User, \A v \in User \ {u} : accounts'[v] = accounts[v],
           \A q \in Request \ {r} : SignsUp(req[q]) => req[q].user # u,
           \/ accounts'[u] = "present"
           \/ \A q \in Request \ {r} : Referring(req[q]) \/ Deleting(req[q]) => req[q].user # u
    PROVE  NameInv'
<1>1. req'[r] = Idle /\ \A q \in Request \ {r} : req'[q] = req[q]
  BY Others DEF End
<1>2. ASSUME NEW q \in Request PROVE NameOK(req[q])'
  <2>1. CASE q = r
    BY <1>1, <2>1 DEF Idle, NameOK, SignsUp
  <2>2. CASE q # r
    <3>1. req'[q] = req[q] /\ NameOK(req[q]) /\ (SignsUp(req[q]) => req[q].user # u)
      BY <1>1, <2>2 DEF NameInv
    <3>2. SignsUp(req[q]) => req[q].user \in User
      BY DEF InvitationInv, RequestInv, RequestOK, RedeemOK, Redeeming, SignsUp
    <3>3. \A v \in Present : v # u \/ accounts'[u] = "present" => v \in Present'
      BY DEF Present
    <3> QED BY <2>2, <3>1, <3>2, <3>3 DEF NameOK, SignsUp, ForNewUser, Referring, Deleting
  <2> QED BY <2>1, <2>2
<1>3. ASSUME NEW p \in Request, NEW q \in Request, p # q, SignsUp(req[p])', SignsUp(req[q])'
      PROVE  req'[p].user # req'[q].user
  <2>1. SignsUp(req'[p]) /\ SignsUp(req'[q])
    BY <1>3 DEF SignsUp, ForNewUser
  <2>2. p # r /\ q # r
    BY <1>1, <2>1, IdleName
  <2> QED BY <1>1, <1>3, <2>1, <2>2 DEF NameInv
<1> QED BY <1>2, <1>3 DEF NameInv

-----------------------------------------------------------------------------
(* What a step does to the users of Accounts.                              *)

\* What Accounts sees of a request depends on its record only.
LEMMA ViewOf == ASSUME InvitationInv PROVE \A q \in Request : UserRequest(q) = View(req[q])
<1>1. \A q \in Request : Redeeming(req[q]) => req[q].seen # NoRow
  BY Sentinels DEF InvitationInv, RequestInv, RequestOK, RedeemOK
<1> QED BY <1>1 DEF UserRequest, View, SignsUp, ForNewUser, Redeeming, At

\* Nothing changes for Accounts but what it sees of one request.
LEMMA ViewPut ==
    ASSUME InvitationInv, InvitationInv', NEW r \in Request, NEW a, Put(r, a)
    PROVE  /\ Views' = [Views EXCEPT ![r] = View(a)]
           /\ Views \in [Request -> {UserRequest(q) : q \in Request}]
           /\ Views[r] = View(req[r])
<1>1. req'[r] = a /\ \A q \in Request \ {r} : req'[q] = req[q]
  BY Others
<1>2. \A q \in Request : UserRequest(q) = View(req[q])
  BY ViewOf
<1>3. \A q \in Request : UserRequest(q)' = View(req'[q])
  <2>1. \A q \in Request : Redeeming(req'[q]) => req'[q].seen # NoRow
    BY Sentinels DEF InvitationInv, RequestInv, RequestOK, RedeemOK, Redeeming
  <2> QED BY <2>1 DEF UserRequest, View, SignsUp, ForNewUser, Redeeming, At
<1> QED BY <1>1, <1>2, <1>3 DEF Views

\* Roles come from the accounts.
LEMMA SameRoles == UNCHANGED accounts => UNCHANGED AllUsers
  BY DEF AllUsers, Role

\* The administrator is the only one.
LEMMA RolesAre ==
    ASSUME InvitationInv
    PROVE  /\ AllUsers[Admin] = "admin"
           /\ \A u \in User : AllUsers[u] = IF accounts[u] = "present" THEN "user" ELSE accounts[u]
           /\ \A u \in User : AllUsers[u] \in {"absent", "user", "deleted"}
  BY InvitationAssumption DEF AllUsers, Role, InvitationInv, TypeOK

\* A step that shows Accounts nothing new.
LEMMA Unseen ==
    ASSUME InvitationInv, InvitationInv', NEW r \in Request, NEW a, Put(r, a),
           UNCHANGED accounts, View(a) = View(req[r])
    PROVE  UNCHANGED Users!vars
<1>1. Views' = Views
  BY ViewPut DEF Views
<1> QED BY <1>1, SameRoles DEF Users!vars, Views, AllUsers

\* A request that ends without writing is rolled back, as Accounts sees it.
LEMMA EndView ==
    ASSUME InvitationInv, InvitationInv', NEW r \in Request, End(r), UNCHANGED accounts
    PROVE  [Users!Next]_(Users!vars)
<1>1. Put(r, Idle) /\ View(Idle) = NoView
  BY IdleName DEF End
<1>2. CASE View(req[r]).pc = "idle"
  <2>1. View(req[r]) = NoView
    BY <1>2 DEF View, NoView
  <2> QED BY <1>1, <2>1, Unseen
<1>3. CASE View(req[r]).pc # "idle"
  <2>1. Views' = [Views EXCEPT ![r] = NoView] /\ Views[r].pc # "idle"
    BY <1>1, <1>3, ViewPut
  <2>2. Users!Rollback(r)
    BY <2>1, SameRoles DEF Users!Rollback, Users!At, Users!End, Users!Idle, NoView, Views, AllUsers
  <2> QED BY <2>2 DEF Users!Next
<1> QED BY <1>2, <1>3

-----------------------------------------------------------------------------
(* The steps that create or delete a user.                                 *)

\* A redemption begins: a sign-up is a member who joins.
LEMMA RedeemView ==
    ASSUME InvitationInv, InvitationInv', NameInv, NEW r \in Request, NEW i \in Invite,
           NEW u \in User, Redeem(r, i, u)
    PROVE  NameInv' /\ [Users!Next]_(Users!vars)
<1> DEFINE target == invites[i].target_user_id
           a == [Idle EXCEPT !.pc = "redeem_user", !.inv = i, !.seen = invites[i],
                             !.user = IF target = NoUser THEN u ELSE target]
<1>1. Put(r, a) /\ UNCHANGED accounts /\ req[r].pc = "idle"
  BY DEF Redeem, NoData, At
<1>2. a.pc = "redeem_user" /\ a.seen.target_user_id = target /\ (target = NoUser => a.user = u)
  BY DEF Idle
<1> HIDE DEF a
<1>3. NameInv'
  BY <1>1, <1>2, NamePut DEF NameOK, SignsUp
<1>4. View(req[r]) = NoView
  BY <1>1 DEF View, NoView, SignsUp
<1>5. CASE target # NoUser
  <2>1. View(a) = NoView
    BY <1>2, <1>5 DEF View, NoView, ForNewUser, SignsUp
  <2> QED BY <1>1, <1>3, <1>4, <2>1, Unseen
<1>6. CASE target = NoUser
  <2>1. View(a) = [pc |-> "insert", user |-> u, role |-> "user"]
    BY <1>2, <1>6 DEF View, ForNewUser
  <2>2. /\ Views' = [Views EXCEPT ![r] = [pc |-> "insert", user |-> u, role |-> "user"]]
        /\ Views[r].pc = "idle" /\ AllUsers[Admin] # "absent"
    BY <1>1, <1>4, <2>1, ViewPut, RolesAre DEF NoView
  <2>3. Users!Join(r, u)
    BY <1>1, <2>2, SameRoles
       DEF Users!Join, Users!At, Users!Put, Users!SetUp, Views, AllUsers
  <2> QED BY <1>3, <2>3 DEF Users!Next, Users!Arrive
<1> QED BY <1>5, <1>6

\* A name is inserted that nobody has and nobody is inserting.
LEMMA RedeemUserView ==
    ASSUME InvitationInv, InvitationInv', NameInv, NEW r \in Request, RedeemUser(r)
    PROVE  NameInv' /\ [Users!Next]_(Users!vars)
<1> DEFINE u == req[r].user
           a == [req[r] EXCEPT !.pc = "redeem_flush"]
<1>1. /\ UNCHANGED accounts /\ req[r].pc = "redeem_user" /\ ~Waits(r) /\ u \in User
      /\ req[r] \in RequestType
  BY DEF RedeemUser, NoData, At, InvitationInv, TypeOK, RequestType, RequestInv, RequestOK, RedeemOK, Redeeming
<1>2. CASE End(r)
  BY <1>1, <1>2, NameEnd, EndView
<1>3. CASE ~End(r)
  <2>1. /\ Put(r, a)
        /\ accounts[u] = IF ForNewUser(req[r]) THEN "absent" ELSE "present"
    BY <1>3 DEF RedeemUser, Goto, ForNewUser
  <2>2. a.pc = "redeem_flush" /\ a.user = u /\ a.seen = req[r].seen
    BY <1>1 DEF RequestType
  <2> HIDE DEF a
  <2>3. CASE ~ForNewUser(req[r])
    <3>1. NameOK(a) /\ ~SignsUp(a) /\ View(a) = NoView /\ View(req[r]) = NoView
      BY <1>1, <2>2, <2>3 DEF NameOK, SignsUp, View, NoView, ForNewUser
    <3> QED BY <1>1, <2>1, <3>1, NamePut, Unseen
  <2>4. CASE ForNewUser(req[r])
    <3>1. ASSUME NEW q \in Request \ {r}, SignsUp(req[q]) PROVE req[q].user # u
      <4>1. req[q].user = u => Claims(q, u)
        BY <1>1, <3>1 DEF NameInv, NameOK, Claims, SignsUp
      <4> QED BY <1>1, <2>4, <4>1 DEF Waits, WaitsFor, At, ForNewUser
    <3>2. /\ NameOK(a)
          /\ View(a) = [pc |-> "create_commit", user |-> u, role |-> "user"]
          /\ View(req[r]) = [pc |-> "insert", user |-> u, role |-> "user"]
      BY <1>1, <2>1, <2>2, <2>4 DEF NameOK, SignsUp, View, ForNewUser
    <3>3. NameInv'
      BY <1>1, <2>1, <2>2, <3>1, <3>2, NamePut
    <3>4. /\ Views' = [Views EXCEPT ![r] = View(a)] /\ Views[r] = View(req[r])
      BY <2>1, ViewPut
    <3>5. Views' = [Views EXCEPT ![r].pc = "create_commit"]
      <4>1. View(a) = [View(req[r]) EXCEPT !.pc = "create_commit"]
        BY <3>2
      <4> QED BY <3>4, <4>1
    <3>6. ASSUME NEW q \in Request, Views[q].pc = "create_commit" PROVE Views[q].user # u
      <4>1. q # r
        BY <3>2, <3>4, <3>6
      <4>2. Views[q] = View(req[q])
        BY ViewOf DEF Views
      <4>3. SignsUp(req[q]) /\ Views[q].user = req[q].user
        BY <3>6, <4>2 DEF View
      <4> QED BY <3>1, <4>1, <4>3
    <3>7. AllUsers[u] = "absent"
      BY <1>1, <2>1, <2>4, RolesAre
    <3>8. Users!Insert(r)
      BY <1>1, <3>2, <3>4, <3>5, <3>6, <3>7, SameRoles
         DEF Users!Insert, Users!At, Users!Claimed, Users!Goto, Views, AllUsers
    <3> QED BY <3>3, <3>8 DEF Users!Next, Users!Proceed
  <2> QED BY <2>3, <2>4
<1> QED BY <1>2, <1>3

\* A new user appears; one that is re-paired was there.
LEMMA RedeemCommitView ==
    ASSUME InvitationInv, InvitationInv', NameInv, NEW r \in Request, RedeemCommit(r)
    PROVE  NameInv' /\ [Users!Next]_(Users!vars)
<1> DEFINE u == req[r].user
<1>1. /\ accounts' = [accounts EXCEPT ![u] = "present"] /\ End(r) /\ Put(r, Idle)
      /\ req[r].pc = "redeem_commit" /\ u \in User
  BY DEF RedeemCommit, End, At, InvitationInv, RequestInv, RequestOK, RedeemOK, Redeeming
<1>2. CASE ~ForNewUser(req[r])
  <2>1. accounts[u] = "present"
    BY <1>1, <1>2 DEF NameInv, NameOK, Present
  <2>2. UNCHANGED accounts
    BY <1>1, <2>1 DEF InvitationInv, TypeOK
  <2> QED BY <1>1, <2>2, NameEnd, EndView
<1>3. CASE ForNewUser(req[r])
  <2>1. SignsUp(req[r])
    BY <1>1, <1>3 DEF SignsUp
  <2>2. NameInv'
    <3>1. \A q \in Request \ {r} : SignsUp(req[q]) => req[q].user # u
      BY <2>1 DEF NameInv
    <3>2. accounts'[u] = "present" /\ \A v \in User \ {u} : accounts'[v] = accounts[v]
      BY <1>1 DEF InvitationInv, TypeOK
    <3> QED BY <1>1, <3>1, <3>2, NameCommit
  <2>3. /\ Views' = [Views EXCEPT ![r] = NoView]
        /\ Views[r] = [pc |-> "create_commit", user |-> u, role |-> "user"]
    BY <1>1, <2>1, IdleName, ViewPut DEF View
  <2>4. AllUsers' = [AllUsers EXCEPT ![u] = "user"]
    <3>1. \A v \in User \cup {Admin} : Role(v)' = IF v = u THEN "user" ELSE Role(v)
      BY <1>1, InvitationAssumption DEF Role, InvitationInv, TypeOK
    <3> QED BY <3>1 DEF AllUsers
  <2>5. Views[r].pc = "create_commit" /\ Views[r].user = u /\ Views[r].role = "user"
    BY <2>3
  <2>6. Users!CreateCommit(r)
    BY <2>3, <2>4, <2>5 DEF Users!CreateCommit, Users!At, Users!End, Users!Idle, NoView, Views, AllUsers
  <2> QED BY <2>2, <2>6 DEF Users!Next, Users!Proceed
<1> QED BY <1>2, <1>3

\* An administrator deletes a member; there are no others to count.
LEMMA DeleteUserView ==
    ASSUME InvitationInv, InvitationInv', NameInv, NEW r \in Request, NEW u \in User,
           DeleteUser(r, u)
    PROVE  NameInv' /\ [Users!Next]_(Users!vars)
<1> DEFINE a == [Idle EXCEPT !.pc = "delete_user_flush", !.user = u]
<1>1. Put(r, a) /\ UNCHANGED accounts /\ req[r].pc = "idle" /\ accounts[u] = "present"
  BY DEF DeleteUser, NoData, At, Present
<1>2. a.pc = "delete_user_flush" /\ a.user = u
  BY DEF Idle
<1> HIDE DEF a
<1>3. NameInv'
  BY <1>1, <1>2, NamePut DEF NameOK, SignsUp
<1>4. View(req[r]) = NoView /\ View(a) = [pc |-> "delete_commit", user |-> u, role |-> "user"]
  BY <1>1, <1>2 DEF View, NoView, SignsUp
<1>5. /\ Views' = [Views EXCEPT ![r] = [pc |-> "delete_commit", user |-> u, role |-> "user"]]
      /\ Views[r].pc = "idle"
  BY <1>1, <1>4, ViewPut DEF NoView
<1>6. AllUsers[Admin] = "admin" /\ AllUsers[u] = "user" /\ u # Admin
  BY <1>1, RolesAre, InvitationAssumption
<1>7. Users!DeleteUser(r, Admin, u)
  BY <1>1, <1>5, <1>6, SameRoles
     DEF Users!DeleteUser, Users!At, Users!Admins, Users!Present, Users!Roles, Users!Put, Views,
         AllUsers
<1> QED BY <1>3, <1>7 DEF Users!Next, Users!Arrive

\* Nobody inserts or re-pairs the user that is deleted.
LEMMA DeleteUserCommitView ==
    ASSUME InvitationInv, InvitationInv', NameInv, NEW r \in Request, DeleteUserCommit(r)
    PROVE  NameInv' /\ [Users!Next]_(Users!vars)
<1> DEFINE u == req[r].user
<1>1. /\ accounts' = [accounts EXCEPT ![u] = "deleted"] /\ End(r) /\ Put(r, Idle)
      /\ req[r].pc = "delete_user_commit" /\ u \in User /\ accounts[u] = "present"
  BY DEF DeleteUserCommit, Locked, End, At, InvitationInv, RequestInv, RequestOK, DeleteOK,
         Deleting, NameInv, NameOK, Present
<1>2. NameInv'
  <2>1. ASSUME NEW q \in Request \ {r}
        PROVE  /\ SignsUp(req[q]) => req[q].user # u
               /\ Referring(req[q]) \/ Deleting(req[q]) => req[q].user # u
    BY <1>1 DEF NameInv, NameOK, InvitationInv, RequestInv, Apart, Deleting
  <2>2. \A v \in User \ {u} : accounts'[v] = accounts[v]
    BY <1>1 DEF InvitationInv, TypeOK
  <2> QED BY <1>1, <2>1, <2>2, NameCommit
<1>3. /\ Views' = [Views EXCEPT ![r] = NoView]
      /\ Views[r] = [pc |-> "delete_commit", user |-> u, role |-> "user"]
  BY <1>1, IdleName, ViewPut DEF View, SignsUp
<1>4. AllUsers' = [AllUsers EXCEPT ![u] = "deleted"]
  <2>1. \A v \in User \cup {Admin} : Role(v)' = IF v = u THEN "deleted" ELSE Role(v)
    BY <1>1, InvitationAssumption DEF Role, InvitationInv, TypeOK
  <2> QED BY <2>1 DEF AllUsers
<1>5. Views[r].pc = "delete_commit" /\ Views[r].user = u
  BY <1>3
<1>6. Users!DeleteCommit(r)
  BY <1>3, <1>4, <1>5 DEF Users!DeleteCommit, Users!At, Users!End, Users!Idle, NoView, Views, AllUsers
<1> QED BY <1>2, <1>6 DEF Users!Next, Users!Proceed

-----------------------------------------------------------------------------
(* The steps that do not.                                                  *)

\* The record of one request changes, and not what it inserts, re-pairs or deletes.
LEMMA QuietView ==
    ASSUME InvitationInv, InvitationInv', NameInv, NEW r \in Request, NEW a, Put(r, a),
           UNCHANGED accounts, NameOK(a), View(a) = View(req[r]),
           SignsUp(a) => SignsUp(req[r]) /\ a.user = req[r].user
    PROVE  NameInv' /\ [Users!Next]_(Users!vars)
<1>1. NameInv'
  BY NamePut DEF NameInv
<1> QED BY <1>1, Unseen

\* Nothing but creating, listing and locking rows of "invitations".
LEMMA AsideView ==
    ASSUME InvitationInv, InvitationInv', NameInv, NEW r \in Request, NEW a, Put(r, a),
           UNCHANGED accounts, View(req[r]) = NoView,
           a.pc \in {"create_flush", "create_commit", "revoke_commit", "delete_commit",
                     "clear_commit"}
    PROVE  NameInv' /\ [Users!Next]_(Users!vars)
<1>1. NameOK(a) /\ View(a) = NoView /\ ~SignsUp(a)
  BY DEF NameOK, View, NoView, SignsUp
<1> QED BY <1>1, QuietView

\* A request that arrives.
LEMMA ArriveView ==
    ASSUME InvitationInv, InvitationInv', NameInv, NEW r \in Request, Arrive(r)
    PROVE  NameInv' /\ [Users!Next]_(Users!vars)
<1>1. req[r].pc = "idle" => View(req[r]) = NoView
  BY DEF View, NoView, SignsUp
<1>2. CASE ClearInactive(r)
  <2>1. PICK S, j : Put(r, [[Idle EXCEPT !.pc = "clear_commit"] EXCEPT !.picks = S, !.asks = j])
    BY <1>2 DEF ClearInactive, Lock
  <2> DEFINE a == [[Idle EXCEPT !.pc = "clear_commit"] EXCEPT !.picks = S, !.asks = j]
  <2>2. a.pc = "clear_commit"
    BY DEF Idle
  <2> HIDE DEF a
  <2> QED BY <1>1, <1>2, <2>1, <2>2, AsideView DEF ClearInactive, At, NoData, a
<1>3. ASSUME NEW i \in Invite, RevokeInvite(r, i) \/ DeleteInvite(r, i)
      PROVE  NameInv' /\ [Users!Next]_(Users!vars)
  <2>1. PICK s \in {"revoke_commit", "delete_commit"} :
            \E S, j : Put(r, [[Idle EXCEPT !.pc = s] EXCEPT !.picks = S, !.asks = j])
    BY <1>3 DEF RevokeInvite, DeleteInvite, Lock
  <2> PICK S, j : Put(r, [[Idle EXCEPT !.pc = s] EXCEPT !.picks = S, !.asks = j])
    BY <2>1
  <2> DEFINE a == [[Idle EXCEPT !.pc = s] EXCEPT !.picks = S, !.asks = j]
  <2>2. a.pc = s
    BY DEF Idle
  <2> HIDE DEF a
  <2> QED BY <1>1, <1>3, <2>1, <2>2, AsideView DEF RevokeInvite, DeleteInvite, At, NoData, a
<1>4. ASSUME NEW i \in Invite, NEW n, NEW exp, NEW target, CreateInvite(r, i, n, exp, target)
      PROVE  NameInv' /\ [Users!Next]_(Users!vars)
  <2> DEFINE new == NewInvite(n, exp, target)
             a == [Idle EXCEPT !.pc = "create_flush", !.inv = i, !.user = target, !.seen = new]
  <2>1. Put(r, a)
    BY <1>4 DEF CreateInvite
  <2> HIDE DEF new
  <2>2. a.pc = "create_flush"
    BY DEF Idle
  <2> HIDE DEF a
  <2> QED BY <1>1, <1>4, <2>1, <2>2, AsideView DEF CreateInvite, At
<1> QED BY <1>2, <1>3, <1>4, RedeemView, DeleteUserView DEF Arrive

\* A row is locked: the request goes on with what it was doing.
LEMMA LockRowView ==
    ASSUME InvitationInv, InvitationInv', NameInv, NEW r \in Request, LockRow(r)
    PROVE  NameInv' /\ [Users!Next]_(Users!vars)
<1> DEFINE base(H) == [req[r] EXCEPT !.held = H]
<1>1. PICK H, S, j : Put(r, [base(H) EXCEPT !.picks = S, !.asks = j])
  BY DEF LockRow, Lock
<1> DEFINE a == [base(H) EXCEPT !.picks = S, !.asks = j]
<1>2. req[r] \in RequestType /\ UNCHANGED accounts
  BY DEF InvitationInv, TypeOK, RequestType, LockRow, NoData
<1>3. a.pc = req[r].pc /\ a.user = req[r].user /\ a.seen = req[r].seen
  BY <1>2 DEF RequestType
<1> HIDE DEF a
<1>4. NameOK(req[r])
  BY DEF NameInv
<1>5. NameOK(a) /\ View(a) = View(req[r]) /\ (SignsUp(a) => SignsUp(req[r]))
  BY <1>3, <1>4 DEF NameOK, View, SignsUp, ForNewUser
<1> QED BY <1>1, <1>2, <1>3, <1>5, QuietView DEF a

\* The device and the counter: the name is the same.
LEMMA RedeemingView ==
    ASSUME InvitationInv, InvitationInv', NameInv, NEW r \in Request,
           RedeemFlush(r) \/ RedeemCount(r)
    PROVE  NameInv' /\ [Users!Next]_(Users!vars)
<1>1. req[r] \in RequestType /\ UNCHANGED accounts /\ NameOK(req[r])
  BY DEF InvitationInv, TypeOK, RequestType, RedeemFlush, RedeemCount, NoData, NameInv
<1>2. CASE End(r)
  BY <1>1, <1>2, NameEnd, EndView
<1>3. CASE ~End(r) /\ RedeemFlush(r)
  <2> DEFINE a == [req[r] EXCEPT !.pc = "redeem_count", !.asks = req[r].inv]
  <2>1. /\ Put(r, a) /\ req[r].pc = "redeem_flush"
        /\ ~ForNewUser(req[r]) => req[r].user \in Present
    BY <1>3 DEF RedeemFlush, At, ForNewUser
  <2>2. a.pc = "redeem_count" /\ a.user = req[r].user /\ a.seen = req[r].seen
    BY <1>1 DEF RequestType
  <2> HIDE DEF a
  <2>3. NameOK(a) /\ View(a) = View(req[r]) /\ (SignsUp(a) => SignsUp(req[r]))
    BY <1>1, <2>1, <2>2 DEF NameOK, View, SignsUp, ForNewUser
  <2> QED BY <1>1, <2>1, <2>2, <2>3, QuietView
<1>4. CASE ~End(r) /\ RedeemCount(r)
  <2> DEFINE a == [req[r] EXCEPT !.pc = "redeem_commit", !.asks = NoInvite,
                                 !.held = {req[r].inv}]
  <2>1. Put(r, a) /\ req[r].pc = "redeem_count"
    BY <1>4 DEF RedeemCount, At
  <2>2. a.pc = "redeem_commit" /\ a.user = req[r].user /\ a.seen = req[r].seen
    BY <1>1 DEF RequestType
  <2> HIDE DEF a
  <2>3. NameOK(a) /\ View(a) = View(req[r]) /\ (SignsUp(a) => SignsUp(req[r]))
    BY <1>1, <2>1, <2>2 DEF NameOK, View, SignsUp, ForNewUser
  <2> QED BY <1>1, <2>1, <2>2, <2>3, QuietView
<1> QED BY <1>2, <1>3, <1>4

\* The user that is going to be deleted is there.
LEMMA DeleteUserFlushView ==
    ASSUME InvitationInv, InvitationInv', NameInv, NEW r \in Request, DeleteUserFlush(r)
    PROVE  NameInv' /\ [Users!Next]_(Users!vars)
<1>1. req[r] \in RequestType /\ UNCHANGED accounts /\ req[r].pc = "delete_user_flush"
  BY DEF InvitationInv, TypeOK, RequestType, DeleteUserFlush, NoData, At
<1>2. CASE End(r)
  BY <1>1, <1>2, NameEnd, EndView
<1>3. CASE ~End(r)
  <2> DEFINE base == [req[r] EXCEPT !.pc = "delete_user_commit"]
  <2>1. /\ \E S, j : Put(r, [base EXCEPT !.picks = S, !.asks = j])
        /\ req[r].user \in Present
    BY <1>3 DEF DeleteUserFlush, Lock
  <2>2. PICK S, j : Put(r, [base EXCEPT !.picks = S, !.asks = j])
    BY <2>1
  <2> DEFINE a == [base EXCEPT !.picks = S, !.asks = j]
  <2>3. a.pc = "delete_user_commit" /\ a.user = req[r].user
    BY <1>1 DEF RequestType
  <2> HIDE DEF a
  <2>4. NameOK(a) /\ View(a) = View(req[r]) /\ ~SignsUp(a)
    BY <1>1, <2>1, <2>3 DEF NameOK, View, SignsUp
  <2> QED BY <1>1, <2>2, <2>4, QuietView DEF a
<1> QED BY <1>2, <1>3

\* The new row of "invitations" is flushed.
LEMMA CreateFlushView ==
    ASSUME InvitationInv, InvitationInv', NameInv, NEW r \in Request, CreateFlush(r)
    PROVE  NameInv' /\ [Users!Next]_(Users!vars)
<1>1. /\ req[r] \in RequestType /\ UNCHANGED accounts /\ req[r].pc = "create_flush"
      /\ View(req[r]) = NoView
  BY DEF InvitationInv, TypeOK, RequestType, CreateFlush, NoData, At, View, NoView, SignsUp
<1>2. CASE End(r)
  BY <1>1, <1>2, NameEnd, EndView
<1>3. CASE ~End(r)
  <2> DEFINE a == [req[r] EXCEPT !.pc = "create_commit"]
  <2>1. Put(r, a)
    BY <1>3 DEF CreateFlush, Goto
  <2>2. a.pc = "create_commit"
    BY <1>1 DEF RequestType
  <2> HIDE DEF a
  <2> QED BY <1>1, <2>1, <2>2, AsideView
<1> QED BY <1>2, <1>3

-----------------------------------------------------------------------------

\* At first nobody has a name in hand.
LEMMA NameInit == Init => NameInv
  BY IdleName DEF Init, NameInv

\* Every step is a step of Accounts, or none that it sees.
LEMMA UsersStep ==
    InvitationInv /\ InvitationInv' /\ NameInv /\ [Next]_vars =>
        NameInv' /\ [Users!Next]_(Users!vars)
<1> SUFFICES ASSUME InvitationInv, InvitationInv', NameInv, [Next]_vars
             PROVE  NameInv' /\ [Users!Next]_(Users!vars)
  OBVIOUS
<1>1. ASSUME UNCHANGED <<accounts, req>>
      PROVE  NameInv' /\ [Users!Next]_(Users!vars)
  <2>1. NameInv'
    BY <1>1 DEF NameInv, NameOK, SignsUp, ForNewUser, Present
  <2>2. UNCHANGED Users!vars
    BY <1>1 DEF Users!vars, UserRequest, Role, At
  <2> QED BY <2>1, <2>2
<1>2. ASSUME NEW r \in Request, Rollback(r)
      PROVE  NameInv' /\ [Users!Next]_(Users!vars)
  BY <1>2, NameEnd, EndView DEF Rollback, NoData
<1>3. ASSUME NEW r \in Request, Proceed(r)
      PROVE  NameInv' /\ [Users!Next]_(Users!vars)
  <2>1. CASE CreateCommit(r) \/ RevokeCommit(r) \/ DeleteCommit(r) \/ Deadlock(r)
    BY <2>1, NameEnd, EndView DEF CreateCommit, RevokeCommit, DeleteCommit, Deadlock, NoData
  <2> QED BY <1>3, <2>1, CreateFlushView, LockRowView, DeleteUserFlushView, DeleteUserCommitView,
             RedeemUserView, RedeemingView, RedeemCommitView DEF Proceed
<1> QED BY <1>1, <1>2, <1>3, ArriveView DEF Next, Expire, vars

\* Redemptions, re-pairing and cascades create and delete users as Accounts does: a
\* name is inserted by one request at a time and only when nobody has it, re-pairing
\* creates nobody, and a user who is deleted does not come back.
THEOREM InvitationsImplementAccounts == Spec => ImplementsAccounts
<1>1. InvitationInv /\ InvitationInv' /\ NameInv /\ [Next]_vars => NameInv'
  BY UsersStep
<1>2. InvitationInv /\ InvitationInv' /\ NameInv /\ [Next]_vars => [Users!Next]_(Users!vars)
  BY UsersStep
<1> QED BY <1>1, <1>2, NameInit, InvitationInvariant, PTL DEF Spec, ImplementsAccounts
=============================================================================
