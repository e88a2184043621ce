---------------------------- MODULE InvitationsProofs ----------------------------
(***************************************************************************)
(* Proofs about Invitations, for any number of users, codes, uses and      *)
(* overlapping requests.                                                   *)
(***************************************************************************)
EXTENDS Invitations, TLAPS

-----------------------------------------------------------------------------
(* The inductive invariant.  It says of each request what holds of the rows*)
(* it knows, of any two requests what keeps them apart, and of the rows    *)
(* what the runs check.                                                    *)

RequestType == [pc: Steps, inv: Invite \cup {NoInvite}, seen: Row \cup {NoRow},
                user: User \cup {NoUser}, picks: SUBSET Invite, asks: Invite \cup {NoInvite},
                held: SUBSET Invite]

Creating(a) == a.pc \in {"create_flush", "create_commit"}
Redeeming(a) == a.pc \in {"redeem_user", "redeem_flush", "redeem_count", "redeem_commit"}
Clearing(a) == a.pc = "clear_commit"
Deleting(a) == a.pc = "delete_user_commit"
Referring(a) == a.pc \in {"create_commit", "redeem_count", "redeem_commit"}

\* Rows have a code; ids are not reused, so one without a code was never redeemed.
RowInv ==
    /\ \A i \in Rows : i \in codes
    /\ \A i \in Invite \ codes : redemptions[i] = 0
    /\ CountWithinLimit
    /\ FailuresCostNoUse
    /\ ReferencesExist

\* A row about to be committed is new.
CreateOK(a) == Creating(a) =>
    /\ a.inv \in codes \ Rows
    /\ redemptions[a.inv] = 0
    /\ a.seen \in Row
    /\ a.seen.uses_count = 0
    /\ a.seen.redeemed_by = NoUser
    /\ a.seen.target_user_id = a.user
    /\ a.pc = "create_commit" => a.user \in Present \cup {NoUser}

\* What a redemption has seen is old, but its limit still holds, and it is not
\* ahead of the redemptions; once flushed, its row is locked.
RedeemOK(a) == Redeeming(a) =>
    /\ a.inv \in codes
    /\ a.user \in User
    /\ a.seen \in Row
    /\ a.seen.uses_count < a.seen.max_uses
    /\ a.seen.uses_count <= redemptions[a.inv]
    /\ a.inv \in Rows => a.seen.max_uses = invites[a.inv].max_uses
    /\ a.picks = {}
    /\ a.pc = "redeem_count" => a.asks = a.inv
    /\ a.pc = "redeem_commit" => a.inv \in a.held

\* What was listed as revoked or expired still is.
ClearOK(a) == Clearing(a) =>
    /\ a.picks \cup a.held \subseteq codes
    /\ a.asks \in a.picks \cup {NoInvite}
    /\ \A i \in a.picks \cup a.held : i \in Rows => Clearable(i, invites[i])

\* The cascade knows every row that refers to the user.
DeleteOK(a) == Deleting(a) =>
    /\ a.user \in User
    /\ \A i \in Rows : a.user \in {invites[i].target_user_id, invites[i].redeemed_by} =>
                         i \in a.picks \cup a.held

RequestOK(a) == /\ a.held \subseteq Rows
                /\ CreateOK(a) /\ RedeemOK(a) /\ ClearOK(a) /\ DeleteOK(a)

\* Locks exclude each other; nobody else knows a row that is being created; and
\* nobody refers to a user who is being deleted.
Apart(a, b) ==
    /\ a.held \cap b.held = {}
    /\ Creating(a) => /\ Creating(b) \/ Redeeming(b) => b.inv # a.inv
                      /\ Clearing(b) => a.inv \notin b.picks
    /\ Deleting(a) /\ (Deleting(b) \/ Referring(b)) => b.user # a.user

RequestInv ==
    /\ \A q \in Request : RequestOK(req[q])
    /\ \A p, q \in Request : p # q => Apart(req[p], req[q])

InvitationInv == TypeOK /\ RowInv /\ RequestInv

-----------------------------------------------------------------------------
(* Rows and requests.                                                      *)

\* A new row is unused.
LEMMA NewInviteType ==
    ASSUME NEW n \in 1..MaxUses, NEW exp \in BOOLEAN, NEW target \in User \cup {NoUser}
    PROVE  /\ NewInvite(n, exp, target) \in Row
           /\ NewInvite(n, exp, target).uses_count = 0
           /\ NewInvite(n, exp, target).redeemed_by = NoUser
           /\ NewInvite(n, exp, target).target_user_id = target
  BY DEF NewInvite, Row

\* A redemption writes its counter and its user and nothing else.
LEMMA RedeemedType ==
    ASSUME NEW row \in Row, NEW seen \in Row, NEW u \in User
    PROVE  /\ Redeemed(row, seen, u) \in Row
           /\ Redeemed(row, seen, u).uses_count = seen.uses_count + 1
           /\ Redeemed(row, seen, u).redeemed_by = u
           /\ Redeemed(row, seen, u).max_uses = row.max_uses
           /\ Redeemed(row, seen, u).target_user_id = row.target_user_id
           /\ Redeemed(row, seen, u).revoked_at = row.revoked_at
           /\ Redeemed(row, seen, u).expires_at = row.expires_at
<1>1. seen.uses_count + 1 \in Nat
  BY DEF Row
<1> DEFINE n == seen.uses_count + 1
<1>2. n \in Nat /\ Redeemed(row, seen, u) = [row EXCEPT !.uses_count = n, !.redeemed_by = u]
  BY <1>1 DEF Redeemed
<1> HIDE DEF n
<1>3. /\ Redeemed(row, seen, u) \in Row
      /\ Redeemed(row, seen, u).uses_count = n
      /\ Redeemed(row, seen, u).redeemed_by = u
      /\ Redeemed(row, seen, u).max_uses = row.max_uses
      /\ Redeemed(row, seen, u).target_user_id = row.target_user_id
      /\ Redeemed(row, seen, u).revoked_at = row.revoked_at
      /\ Redeemed(row, seen, u).expires_at = row.expires_at
  BY <1>2 DEF Row
<1> QED BY <1>3 DEF n

\* The sentinels are not rows, invitations or users.
LEMMA Sentinels == NoRow \notin Row /\ NoInvite \notin Invite /\ NoUser \notin User
  BY InvitationAssumption

\* Where the rows are.
LEMMA RowTypes ==
    ASSUME TypeOK
    PROVE  /\ Rows \subseteq Invite
           /\ \A i \in Rows : invites[i] \in Row /\ invites[i] # NoRow
  BY Sentinels DEF TypeOK, Rows

\* The columns of a row.
LEMMA Columns ==
    ASSUME NEW row \in Row
    PROVE  /\ row.uses_count \in Nat /\ row.max_uses \in 1..MaxUses
           /\ row.redeemed_by \in User \cup {NoUser} /\ row.target_user_id \in User \cup {NoUser}
           /\ row.revoked_at \in BOOLEAN /\ row.expires_at \in BOOLEAN
  BY DEF Row

\* A request that is over claims nothing.
LEMMA IdleOK ==
    /\ Idle \in RequestType
    /\ RequestOK(Idle)
    /\ \A a \in RequestType : Apart(Idle, a) /\ Apart(a, Idle)
  BY DEF Idle, RequestType, Steps, RequestOK, CreateOK, RedeemOK, ClearOK, DeleteOK, Apart,
         Creating, Redeeming, Clearing, Deleting, Referring

\* What is asked for next is one of the rows that are left.
LEMMA AsksOne ==
    ASSUME NEW a \in RequestType, NEW S \in SUBSET Invite, NEW i \in FirstOf(a, S)
    PROVE  /\ i \in S \cup {NoInvite}
           /\ [a EXCEPT !.picks = S, !.asks = i] \in RequestType
  BY DEF FirstOf, RequestType

-----------------------------------------------------------------------------
(* Steps that change one request only.                                     *)

\* It is enough to look at the new record, alone and beside the others.
LEMMA PutKeeps ==
    ASSUME InvitationInv, NEW r \in Request, NEW a \in RequestType, Put(r, a), NoData,
           RequestOK(a),
           \A q \in Request \ {r} : Apart(a, req[q]) /\ Apart(req[q], a)
    PROVE  InvitationInv'
<1>1. /\ req' \in [Request -> RequestType] /\ req'[r] = a
      /\ \A q \in Request \ {r} : req'[q] = req[q]
  BY DEF InvitationInv, TypeOK, RequestType, Put
<1>2. UNCHANGED <<accounts, invites, codes, past, redemptions>>
  BY DEF NoData
<1>3. TypeOK'
  BY <1>1, <1>2 DEF InvitationInv, TypeOK, RequestType
<1>4. RowInv'
  BY <1>2 DEF InvitationInv, RowInv, CountWithinLimit, FailuresCostNoUse, ReferencesExist, Rows,
              Present
<1>5. ASSUME NEW q \in Request PROVE RequestOK(req[q])'
  <2>1. RequestOK(req'[q])
    BY <1>1 DEF InvitationInv, RequestInv
  <2> QED BY <1>2, <2>1 DEF RequestOK, CreateOK, RedeemOK, ClearOK, DeleteOK, Rows, Present,
                            Clearable, Revoked, Expired
<1>6. ASSUME NEW p \in Request, NEW q \in Request, p # q PROVE Apart(req[p], req[q])'
  <2>1. Apart(req'[p], req'[q])
    BY <1>1, <1>6 DEF InvitationInv, RequestInv
  <2> QED BY <2>1 DEF Apart, Creating, Redeeming, Clearing, Deleting, Referring
<1> QED BY <1>3, <1>4, <1>5, <1>6 DEF InvitationInv, RequestInv

\* A request that ends without writing.
LEMMA EndKeeps ==
    ASSUME InvitationInv, NEW r \in Request, End(r), NoData
    PROVE  InvitationInv'
<1>1. \A q \in Request : req[q] \in RequestType
  BY DEF InvitationInv, TypeOK, RequestType
<1> QED BY <1>1, IdleOK, PutKeeps DEF End

\* A request that begins to revoke or delete one row, or to delete a user.
LEMMA QuietKeeps ==
    ASSUME InvitationInv, NEW r \in Request, NEW a \in RequestType, Put(r, a), NoData,
           a.pc \in {"revoke_commit", "delete_commit", "delete_user_flush"}, a.held = {}
    PROVE  InvitationInv'
  BY PutKeeps DEF RequestOK, CreateOK, RedeemOK, ClearOK, DeleteOK, Apart,
                  Creating, Redeeming, Clearing, Deleting, Referring

\* Listing: the rows that are picked are committed, so nobody is creating them.
LEMMA ListKeeps ==
    ASSUME InvitationInv, NEW r \in Request, ClearInactive(r)
    PROVE  InvitationInv'
<1> DEFINE S == {i \in Rows : Clearable(i, invites[i])}
           begin == [Idle EXCEPT !.pc = "clear_commit"]
<1>1. S \subseteq Invite /\ S \subseteq codes /\ S \subseteq Rows
  BY RowTypes DEF InvitationInv, RowInv
<1>2. PICK i \in FirstOf(begin, S) : Put(r, [begin EXCEPT !.picks = S, !.asks = i])
  BY DEF ClearInactive, Lock
<1> DEFINE a == [begin EXCEPT !.picks = S, !.asks = i]
<1>3. begin \in RequestType /\ begin.pc = "clear_commit" /\ begin.held = {}
  BY DEF Idle, RequestType, Steps
<1> HIDE DEF begin
<1>4. a \in RequestType /\ i \in S \cup {NoInvite}
  BY <1>1, <1>2, <1>3, AsksOne
<1>5. a.pc = "clear_commit" /\ a.picks = S /\ a.asks = i /\ a.held = {}
  BY <1>3 DEF RequestType
<1>6. Put(r, a) /\ NoData
  BY <1>2 DEF ClearInactive
<1>7. \A j \in S : Clearable(j, invites[j])
  OBVIOUS
<1> HIDE DEF a, S
<1>8. RequestOK(a)
  BY <1>1, <1>4, <1>5, <1>7 DEF RequestOK, CreateOK, RedeemOK, ClearOK, DeleteOK, Creating,
                                Redeeming, Clearing, Deleting
<1>9. ASSUME NEW q \in Request \ {r} PROVE Apart(a, req[q]) /\ Apart(req[q], a)
  <2>1. Creating(req[q]) => req[q].inv \notin S
    BY <1>1 DEF InvitationInv, RequestInv, RequestOK, CreateOK
  <2> QED BY <1>5, <2>1 DEF Apart, Creating, Redeeming, Clearing, Deleting, Referring
<1> QED BY <1>4, <1>6, <1>8, <1>9, PutKeeps

\* A redemption begins: what it sees is the row.
LEMMA RedeemKeeps ==
    ASSUME InvitationInv, NEW r \in Request, NEW i \in Invite, NEW u \in User, Redeem(r, i, u)
    PROVE  InvitationInv'
<1> DEFINE v == IF invites[i].target_user_id = NoUser THEN u ELSE invites[i].target_user_id
           a == [Idle EXCEPT !.pc = "redeem_user", !.inv = i, !.seen = invites[i], !.user = v]
<1>1. i \in Rows /\ invites[i] \in Row /\ v \in User
  BY RowTypes, Columns DEF InvitationInv, Redeem
<1>2. /\ a \in RequestType /\ a.pc = "redeem_user" /\ a.inv = i /\ a.seen = invites[i]
      /\ a.user = v /\ a.held = {} /\ a.picks = {}
  BY <1>1 DEF Idle, RequestType, Steps
<1>3. Put(r, a) /\ NoData
  BY DEF Redeem
<1>4. /\ invites[i].uses_count < invites[i].max_uses
      /\ i \in codes /\ invites[i].uses_count <= redemptions[i]
  BY <1>1, Columns DEF Redeem, Active, UsedUp, InvitationInv, RowInv, FailuresCostNoUse
<1> HIDE DEF a, v
<1>5. RequestOK(a)
  BY <1>1, <1>2, <1>4 DEF RequestOK, CreateOK, RedeemOK, ClearOK, DeleteOK, Creating, Redeeming,
                          Clearing, Deleting
<1>6. ASSUME NEW q \in Request \ {r} PROVE Apart(a, req[q]) /\ Apart(req[q], a)
  <2>1. Creating(req[q]) => req[q].inv # i
    BY <1>1 DEF InvitationInv, RequestInv, RequestOK, CreateOK
  <2> QED BY <1>2, <2>1 DEF Apart, Creating, Redeeming, Clearing, Deleting, Referring
<1> QED BY <1>2, <1>3, <1>5, <1>6, PutKeeps

\* A redemption goes on: to the invitation when nobody deletes its user, to its
\* commit when the row is there and free.
LEMMA RedeemingKeeps ==
    ASSUME InvitationInv, NEW r \in Request, RedeemUser(r) \/ RedeemFlush(r) \/ RedeemCount(r)
    PROVE  InvitationInv'
<1> DEFINE step(a) == \/ a = [req[r] EXCEPT !.pc = "redeem_flush"]
                      \/ /\ At(r, "redeem_flush") /\ ~Waits(r)
                         /\ a = [req[r] EXCEPT !.pc = "redeem_count", !.asks = req[r].inv]
                      \/ /\ At(r, "redeem_count") /\ ~Waits(r) /\ req[r].inv \in Rows
                         /\ a = [req[r] EXCEPT !.pc = "redeem_commit", !.asks = NoInvite,
                                               !.held = {req[r].inv}]
<1>1. NoData /\ Redeeming(req[r]) /\ req[r] \in RequestType
  BY DEF RedeemUser, RedeemFlush, RedeemCount, At, Redeeming, InvitationInv, TypeOK, RequestType
<1>2. CASE End(r)
  BY <1>1, <1>2, EndKeeps
<1>3. CASE ~End(r)
  <2>1. PICK a : step(a) /\ Put(r, a)
    BY <1>3 DEF RedeemUser, RedeemFlush, RedeemCount, Goto
  <2>2. /\ req[r].inv \in codes /\ req[r].inv \in Invite /\ req[r].user \in User
        /\ req[r].seen \in Row /\ RequestOK(req[r])
    BY <1>1 DEF InvitationInv, TypeOK, RequestInv, RequestOK, RedeemOK
  <2>3. /\ a \in RequestType /\ a.inv = req[r].inv /\ a.seen = req[r].seen
        /\ a.user = req[r].user /\ a.picks = req[r].picks
        /\ \/ a.pc = "redeem_flush" /\ a.held = req[r].held
           \/ /\ a.pc = "redeem_count" /\ a.asks = a.inv /\ a.held = req[r].held
              /\ At(r, "redeem_flush") /\ ~Waits(r)
           \/ /\ a.pc = "redeem_commit" /\ a.held = {a.inv} /\ a.inv \in Rows
              /\ At(r, "redeem_count") /\ ~Waits(r)
    <3>1. CASE a = [req[r] EXCEPT !.pc = "redeem_flush"]
      BY <1>1, <2>2, <3>1 DEF RequestType, Steps
    <3>2. CASE /\ At(r, "redeem_flush") /\ ~Waits(r)
               /\ a = [req[r] EXCEPT !.pc = "redeem_count", !.asks = req[r].inv]
      BY <1>1, <2>2, <3>2 DEF RequestType, Steps
    <3>3. CASE /\ At(r, "redeem_count") /\ ~Waits(r) /\ req[r].inv \in Rows
               /\ a = [req[r] EXCEPT !.pc = "redeem_commit", !.asks = NoInvite,
                                     !.held = {req[r].inv}]
      BY <1>1, <2>2, <3>3 DEF RequestType, Steps
    <3> QED BY <2>1, <3>1, <3>2, <3>3
  <2>4. RequestOK(a)
    BY <1>1, <2>2, <2>3 DEF RequestOK, CreateOK, RedeemOK, ClearOK, DeleteOK, Creating, Redeeming,
                            Clearing, Deleting
  <2>5. ASSUME NEW q \in Request \ {r} PROVE Apart(a, req[q]) /\ Apart(req[q], a)
    <3>1. Apart(req[r], req[q]) /\ Apart(req[q], req[r])
      BY DEF InvitationInv, RequestInv
    <3>2. a.held \cap req[q].held = {}
      <4>1. CASE a.pc = "redeem_commit"
        <5>1. req[r].asks = a.inv
          BY <2>2, <2>3, <4>1 DEF RequestOK, RedeemOK, Redeeming, At
        <5> QED BY <2>3, <4>1, <5>1 DEF Waits, WaitsFor
      <4> QED BY <2>3, <3>1, <4>1 DEF Apart
    <3>3. Deleting(req[q]) /\ Referring(a) => a.user # req[q].user
      <4>1. CASE a.pc = "redeem_count"
        BY <2>3, <4>1 DEF Waits, WaitsFor, Deletes, At, Deleting
      <4>2. CASE a.pc = "redeem_commit"
        BY <2>3, <3>1, <4>2 DEF Apart, Referring, At
      <4> QED BY <2>3, <4>1, <4>2 DEF Referring
    <3> QED BY <1>1, <2>3, <3>1, <3>2, <3>3 DEF Apart, Creating, Redeeming, Clearing, Deleting
  <2> QED BY <1>1, <2>1, <2>3, <2>4, <2>5, PutKeeps
<1> QED BY <1>2, <1>3

\* A code is made: its id was never used, so nobody redeems it or has listed it.
LEMMA CreateKeeps ==
    ASSUME InvitationInv, NEW r \in Request, NEW i \in Invite, NEW n \in 1..MaxUses,
           NEW exp \in BOOLEAN, NEW target \in Member \cup {NoUser},
           CreateInvite(r, i, n, exp, target)
    PROVE  InvitationInv'
<1> DEFINE new == NewInvite(n, exp, target)
           a == [Idle EXCEPT !.pc = "create_flush", !.inv = i, !.user = target, !.seen = new]
<1>1. target \in User \cup {NoUser} /\ i \notin codes /\ i \notin Rows /\ redemptions[i] = 0
  BY InvitationAssumption DEF CreateInvite, InvitationInv, RowInv
<1>2. /\ new \in Row /\ new.uses_count = 0 /\ new.redeemed_by = NoUser
      /\ new.target_user_id = target
  BY <1>1, NewInviteType
<1> HIDE DEF new
<1>3. /\ a \in RequestType /\ a.pc = "create_flush" /\ a.inv = i /\ a.seen = new
      /\ a.user = target /\ a.held = {} /\ a.picks = {}
  BY <1>1, <1>2 DEF Idle, RequestType, Steps
<1>4. Put(r, a)
  BY DEF CreateInvite, new
<1> HIDE DEF a
<1>5. /\ req' \in [Request -> RequestType] /\ req'[r] = a
      /\ \A q \in Request \ {r} : req'[q] = req[q]
  BY <1>3, <1>4 DEF InvitationInv, TypeOK, RequestType, Put
<1>6. UNCHANGED <<accounts, invites, past, redemptions>> /\ codes' = codes \cup {i}
  BY DEF CreateInvite
<1>7. TypeOK'
  BY <1>5, <1>6 DEF InvitationInv, TypeOK, RequestType
<1>8. RowInv'
  BY <1>6 DEF InvitationInv, RowInv, CountWithinLimit, FailuresCostNoUse, ReferencesExist, Rows,
              Present
<1>9. ASSUME NEW q \in Request PROVE RequestOK(req[q])'
  <2>1. CASE q = r
    BY <1>1, <1>2, <1>3, <1>5, <1>6, <2>1
       DEF RequestOK, CreateOK, RedeemOK, ClearOK, DeleteOK, Creating, Redeeming, Clearing,
           Deleting, Rows
  <2>2. CASE q # r
    <3>1. RequestOK(req[q]) /\ req'[q] = req[q]
      BY <1>5, <2>2 DEF InvitationInv, RequestInv
    <3> QED BY <1>6, <3>1 DEF RequestOK, CreateOK, RedeemOK, ClearOK, DeleteOK, Rows, Present,
                              Clearable, Revoked, Expired
  <2> QED BY <2>1, <2>2
<1>10. ASSUME NEW q \in Request \ {r} PROVE Apart(a, req[q]) /\ Apart(req[q], a)
  <2>1. /\ Creating(req[q]) \/ Redeeming(req[q]) => req[q].inv # i
        /\ Clearing(req[q]) => i \notin req[q].picks
    BY <1>1 DEF InvitationInv, RequestInv, RequestOK, CreateOK, RedeemOK, ClearOK
  <2> QED BY <1>3, <2>1 DEF Apart, Creating, Redeeming, Clearing, Deleting, Referring
<1>11. ASSUME NEW p \in Request, NEW q \in Request, p # q PROVE Apart(req[p], req[q])'
  <2>1. Apart(req'[p], req'[q])
    BY <1>5, <1>10, <1>11 DEF InvitationInv, RequestInv
  <2> QED BY <2>1 DEF Apart, Creating, Redeeming, Clearing, Deleting, Referring
<1> QED BY <1>7, <1>8, <1>9, <1>11 DEF InvitationInv, RequestInv

\* The new row is flushed: its target is there and nobody deletes it.
LEMMA CreateFlushKeeps ==
    ASSUME InvitationInv, NEW r \in Request, CreateFlush(r)
    PROVE  InvitationInv'
<1> DEFINE a == [req[r] EXCEPT !.pc = "create_commit"]
<1>1. CASE End(r)
  BY <1>1, EndKeeps DEF CreateFlush
<1>2. CASE ~End(r)
  <2>1. /\ Put(r, a) /\ NoData /\ ~Waits(r) /\ req[r].user \in Present \cup {NoUser}
        /\ req[r] \in RequestType /\ req[r].pc = "create_flush" /\ RequestOK(req[r])
    BY <1>2 DEF CreateFlush, Goto, At, InvitationInv, TypeOK, RequestType, RequestInv
  <2>2. /\ a \in RequestType /\ a.pc = "create_commit" /\ a.inv = req[r].inv
        /\ a.seen = req[r].seen /\ a.user = req[r].user /\ a.picks = req[r].picks
        /\ a.held = req[r].held
    BY <2>1 DEF RequestType, Steps
  <2> HIDE DEF a
  <2>3. RequestOK(a)
    BY <2>1, <2>2 DEF RequestOK, CreateOK, RedeemOK, ClearOK, DeleteOK, Creating, Redeeming,
                      Clearing, Deleting
  <2>4. ASSUME NEW q \in Request \ {r} PROVE Apart(a, req[q]) /\ Apart(req[q], a)
    <3>1. Apart(req[r], req[q]) /\ Apart(req[q], req[r])
      BY DEF InvitationInv, RequestInv
    <3>2. Deleting(req[q]) => a.user # req[q].user
      BY <2>1, <2>2 DEF Waits, WaitsFor, Deletes, At, Deleting
    <3> QED BY <2>1, <2>2, <3>1, <3>2 DEF Apart, Creating, Redeeming, Clearing, Deleting
  <2> QED BY <2>1, <2>2, <2>3, <2>4, PutKeeps
<1> QED BY <1>1, <1>2

\* A row is locked that nobody else has locked.
LEMMA LockRowKeeps ==
    ASSUME InvitationInv, NEW r \in Request, LockRow(r)
    PROVE  InvitationInv'
<1> DEFINE i == req[r].asks
           S == req[r].picks \ {i}
           base == [req[r] EXCEPT !.held = IF i \in Rows THEN @ \cup {i} ELSE @]
<1>1. /\ req[r] \in RequestType /\ RequestOK(req[r]) /\ ~Waits(r) /\ NoData
      /\ S \in SUBSET Invite /\ Rows \subseteq Invite
  BY RowTypes DEF LockRow, InvitationInv, TypeOK, RequestType, RequestInv
<1>2. PICK j \in FirstOf(base, S) : Put(r, [base EXCEPT !.picks = S, !.asks = j])
  BY DEF LockRow, Lock
<1> DEFINE a == [base EXCEPT !.picks = S, !.asks = j]
<1>3. base \in RequestType
  BY <1>1 DEF RequestType
<1>4. /\ base.pc = req[r].pc /\ base.inv = req[r].inv /\ base.seen = req[r].seen
      /\ base.user = req[r].user
      /\ base.held = IF i \in Rows THEN req[r].held \cup {i} ELSE req[r].held
  BY <1>1 DEF RequestType
<1> HIDE DEF base
<1>5. a \in RequestType /\ j \in S \cup {NoInvite}
  <2> HIDE DEF S
  <2> QED BY <1>1, <1>2, <1>3, AsksOne
<1>6. /\ a.pc = req[r].pc /\ a.inv = req[r].inv /\ a.seen = req[r].seen /\ a.user = req[r].user
      /\ a.held = (IF i \in Rows THEN req[r].held \cup {i} ELSE req[r].held)
      /\ a.picks = S /\ a.asks = j
  BY <1>3, <1>4 DEF RequestType
<1>7. Put(r, a)
  BY <1>2
<1>8. ~Redeeming(a)
  BY <1>1, <1>6 DEF LockRow, RequestOK, RedeemOK, Redeeming
<1> HIDE DEF a, i
<1>9. /\ a.held \subseteq Rows /\ req[r].held \subseteq a.held
      /\ a.picks \cup a.held \subseteq req[r].picks \cup req[r].held \cup {i}
      /\ \A k \in Rows : k \in req[r].picks \cup req[r].held => k \in a.picks \cup a.held
      /\ i \in a.held => i \in Rows
  BY <1>1, <1>6 DEF RequestOK
<1>10. RequestOK(a)
  <2>1. ClearOK(a)
    BY <1>1, <1>5, <1>6, <1>9, Sentinels DEF RequestOK, ClearOK, Clearing, i
  <2>2. DeleteOK(a)
    BY <1>1, <1>6, <1>9 DEF RequestOK, DeleteOK, Deleting
  <2> QED BY <1>1, <1>6, <1>8, <1>9, <2>1, <2>2 DEF RequestOK, CreateOK, RedeemOK, Creating
<1>11. ASSUME NEW q \in Request \ {r} PROVE Apart(a, req[q]) /\ Apart(req[q], a)
  <2>1. Apart(req[r], req[q]) /\ Apart(req[q], req[r]) /\ req[r].asks \notin req[q].held
    BY <1>1 DEF InvitationInv, RequestInv, Waits, WaitsFor
  <2> QED BY <1>6, <2>1 DEF Apart, Creating, Redeeming, Clearing, Deleting, Referring, i
<1> QED BY <1>1, <1>5, <1>7, <1>10, <1>11, PutKeeps

\* A user is about to be deleted: nobody refers to it, and the rows that do are known.
LEMMA DeleteUserFlushKeeps ==
    ASSUME InvitationInv, NEW r \in Request, DeleteUserFlush(r)
    PROVE  InvitationInv'
<1> DEFINE u == req[r].user
           S == {i \in Rows : u \in {invites[i].target_user_id, invites[i].redeemed_by}}
           base == [req[r] EXCEPT !.pc = "delete_user_commit"]
<1>1. CASE End(r)
  BY <1>1, EndKeeps DEF DeleteUserFlush
<1>2. CASE ~End(r)
  <2>1. /\ req[r] \in RequestType /\ RequestOK(req[r]) /\ ~Waits(r) /\ NoData
        /\ req[r].pc = "delete_user_flush" /\ u \in User
        /\ S \in SUBSET Invite /\ Rows \subseteq Invite
    BY <1>2, RowTypes
       DEF DeleteUserFlush, At, Present, InvitationInv, TypeOK, RequestType, RequestInv
  <2>2. PICK j \in FirstOf(base, S) : Put(r, [base EXCEPT !.picks = S, !.asks = j])
    BY <1>2 DEF DeleteUserFlush, Lock
  <2> DEFINE a == [base EXCEPT !.picks = S, !.asks = j]
  <2>3. /\ base \in RequestType /\ base.pc = "delete_user_commit" /\ base.inv = req[r].inv
        /\ base.user = u /\ base.held = req[r].held
    BY <2>1 DEF RequestType, Steps
  <2> HIDE DEF base
  <2>4. a \in RequestType
    <3> HIDE DEF S
    <3> QED BY <2>1, <2>2, <2>3, AsksOne
  <2>5. /\ a.pc = "delete_user_commit" /\ a.inv = req[r].inv /\ a.user = u
        /\ a.held = req[r].held /\ a.picks = S
    BY <2>3 DEF RequestType
  <2>6. Put(r, a)
    BY <2>2
  <2> HIDE DEF a
  <2>7. RequestOK(a)
    BY <2>1, <2>5 DEF RequestOK, CreateOK, RedeemOK, ClearOK, DeleteOK, Creating, Redeeming,
                      Clearing, Deleting
  <2>8. ASSUME NEW q \in Request \ {r} PROVE Apart(a, req[q]) /\ Apart(req[q], a)
    <3>1. Apart(req[r], req[q]) /\ Apart(req[q], req[r])
      BY DEF InvitationInv, RequestInv
    <3>2. Deleting(req[q]) \/ Referring(req[q]) => req[q].user # u
      BY <2>1 DEF Waits, WaitsFor, Deletes, Refers, At, Deleting, Referring
    <3> QED BY <2>5, <3>1, <3>2 DEF Apart, Creating, Redeeming, Clearing, Deleting, Referring
  <2> QED BY <2>1, <2>4, <2>6, <2>7, <2>8, PutKeeps
<1> QED BY <1>1, <1>2

-----------------------------------------------------------------------------
(* Commits.                                                                *)

\* After a commit the request is over and the others are as they were: it is
\* enough to look at the rows and at what another request may know of them.
LEMMA CommitKeeps ==
    ASSUME InvitationInv, NEW r \in Request, End(r),
           accounts' \in [User -> {"absent", "present", "deleted"}],
           invites' \in [Invite -> Row \cup {NoRow}],
           redemptions' \in [Invite -> Nat],
           UNCHANGED <<codes, past>>,
           RowInv',
           \A a \in RequestType :
               RequestOK(a) /\ Apart(req[r], a) /\ Apart(a, req[r]) => RequestOK(a)'
    PROVE  InvitationInv'
<1>1. /\ req' \in [Request -> RequestType] /\ req'[r] = Idle
      /\ \A q \in Request \ {r} : req'[q] = req[q]
  BY IdleOK DEF End, Put, InvitationInv, TypeOK, RequestType
<1>2. TypeOK'
  BY <1>1 DEF InvitationInv, TypeOK, RequestType
<1>3. RequestOK(Idle)'
  BY DEF Idle, RequestOK, CreateOK, RedeemOK, ClearOK, DeleteOK, Creating, Redeeming, Clearing,
         Deleting
<1>4. ASSUME NEW q \in Request PROVE RequestOK(req[q])'
  <2>1. CASE q = r
    <3>1. req'[q] = Idle
      BY <1>1, <2>1
    <3> QED BY <1>3, <3>1 DEF RequestOK, CreateOK, RedeemOK, ClearOK, DeleteOK
  <2>2. CASE q # r
    <3>1. req[q] \in RequestType /\ req'[q] = req[q]
      BY <1>1, <2>2 DEF InvitationInv, TypeOK, RequestType
    <3>2. RequestOK(req[q]) /\ Apart(req[r], req[q]) /\ Apart(req[q], req[r])
      BY <2>2 DEF InvitationInv, RequestInv
    <3> DEFINE a == req[q]
    <3>3. a \in RequestType /\ RequestOK(a) /\ Apart(req[r], a) /\ Apart(a, req[r])
      BY <3>1, <3>2
    <3>4. req'[q] = a
      BY <3>1
    <3> QED BY <3>3, <3>4 DEF RequestOK, CreateOK, RedeemOK, ClearOK, DeleteOK
  <2> QED BY <2>1, <2>2
<1>5. ASSUME NEW p \in Request, NEW q \in Request, p # q PROVE Apart(req[p], req[q])'
  <2>1. \A a \in RequestType : Apart(Idle, a) /\ Apart(a, Idle)
    BY IdleOK
  <2>2. Apart(req'[p], req'[q])
    BY <1>1, <1>5, <2>1 DEF InvitationInv, RequestInv
  <2> QED BY <2>2 DEF Apart, Creating, Redeeming, Clearing, Deleting, Referring
<1> QED BY <1>2, <1>4, <1>5 DEF InvitationInv, RequestInv

\* The new row: no request under way knows it.
LEMMA CreateCommitKeeps ==
    ASSUME InvitationInv, NEW r \in Request, CreateCommit(r)
    PROVE  InvitationInv'
<1> DEFINE i == req[r].inv
           row == req[r].seen
           u == req[r].user
<1>1. /\ i \in codes \ Rows /\ i \in Invite /\ redemptions[i] = 0
      /\ row \in Row /\ row # NoRow /\ row.uses_count = 0 /\ row.redeemed_by = NoUser
      /\ row.target_user_id = u /\ u \in Present \cup {NoUser}
      /\ Creating(req[r]) /\ Referring(req[r])
  BY Sentinels DEF CreateCommit, At, InvitationInv, TypeOK, RequestInv, RequestOK, CreateOK,
                   Creating, Referring
<1>2. /\ UNCHANGED <<accounts, codes, past, redemptions>>
      /\ invites' = [invites EXCEPT ![i] = row]
      /\ End(r)
  BY DEF CreateCommit
<1>3. /\ invites' \in [Invite -> Row \cup {NoRow}] /\ invites'[i] = row
      /\ \A j \in Invite \ {i} : invites'[j] = invites[j]
      /\ Rows' = Rows \cup {i} /\ Present' = Present
  BY <1>1, <1>2 DEF InvitationInv, TypeOK, Rows, Present
<1>4. RowInv'
  <2> HIDE DEF i, row, u
  <2>1. \A j \in Rows' : j = i \/ (j \in Rows /\ j \in Invite /\ j # i /\ invites'[j] = invites[j])
    BY <1>1, <1>3, RowTypes DEF InvitationInv
  <2>2. CountWithinLimit'
    BY <1>1, <1>3, <2>1, Columns DEF InvitationInv, RowInv, CountWithinLimit
  <2>3. FailuresCostNoUse'
    BY <1>1, <1>2, <1>3, <2>1 DEF InvitationInv, RowInv, FailuresCostNoUse
  <2>4. ReferencesExist'
    BY <1>1, <1>3, <2>1 DEF InvitationInv, RowInv, ReferencesExist
  <2> QED BY <1>1, <1>2, <2>1, <2>2, <2>3, <2>4 DEF InvitationInv, RowInv
<1>5. ASSUME NEW a \in RequestType, RequestOK(a), Apart(req[r], a), Apart(a, req[r])
      PROVE  RequestOK(a)'
  <2>1. /\ Creating(a) \/ Redeeming(a) => a.inv # i
        /\ Clearing(a) => i \notin a.picks
        /\ Deleting(a) => u # a.user
        /\ i \notin a.held
    BY <1>1, <1>5 DEF Apart, RequestOK
  <2>2. a.held \subseteq Rows' /\ CreateOK(a)'
    BY <1>2, <1>3, <1>5, <2>1 DEF RequestOK, CreateOK, Creating
  <2>3. RedeemOK(a)'
    BY <1>2, <1>3, <1>5, <2>1, RowTypes DEF InvitationInv, RequestOK, RedeemOK, Redeeming
  <2>4. ClearOK(a)'
    BY <1>2, <1>3, <1>5, <2>1, RowTypes
       DEF InvitationInv, RequestOK, ClearOK, Clearing, Clearable, Revoked, Expired
  <2>5. DeleteOK(a)'
    BY <1>1, <1>3, <1>5, <2>1, RowTypes, Sentinels
       DEF InvitationInv, RequestOK, DeleteOK, Deleting
  <2> QED BY <2>2, <2>3, <2>4, <2>5 DEF RequestOK
<1>6. /\ accounts' \in [User -> {"absent", "present", "deleted"}]
      /\ redemptions' \in [Invite -> Nat]
  BY <1>2 DEF InvitationInv, TypeOK
<1> QED BY <1>2, <1>3, <1>4, <1>5, <1>6, CommitKeeps

\* A revocation sets one column, which no request relies on to be empty.
LEMMA RevokeCommitKeeps ==
    ASSUME InvitationInv, NEW r \in Request, RevokeCommit(r)
    PROVE  InvitationInv'
<1> DEFINE H == req[r].held
<1>1. /\ UNCHANGED <<accounts, codes, past, redemptions>>
      /\ invites' = [i \in Invite |-> IF i \in H THEN [invites[i] EXCEPT !.revoked_at = TRUE]
                                      ELSE invites[i]]
      /\ End(r)
  BY DEF RevokeCommit
<1>2. H \subseteq Rows /\ Rows \subseteq Invite
  BY RowTypes DEF InvitationInv, RequestInv, RequestOK
<1> HIDE DEF H
<1>3. ASSUME NEW j \in Rows
      PROVE  /\ invites'[j] \in Row /\ invites'[j] # NoRow
             /\ invites'[j].uses_count = invites[j].uses_count
             /\ invites'[j].max_uses = invites[j].max_uses
             /\ invites'[j].redeemed_by = invites[j].redeemed_by
             /\ invites'[j].target_user_id = invites[j].target_user_id
             /\ invites'[j].expires_at = invites[j].expires_at
             /\ invites[j].revoked_at => invites'[j].revoked_at
  <2>1. invites[j] \in Row /\ invites[j] # NoRow /\ j \in Invite
    BY RowTypes DEF InvitationInv
  <2> DEFINE row == [invites[j] EXCEPT !.revoked_at = TRUE]
  <2>2. /\ row \in Row /\ row.uses_count = invites[j].uses_count
        /\ row.max_uses = invites[j].max_uses /\ row.redeemed_by = invites[j].redeemed_by
        /\ row.target_user_id = invites[j].target_user_id
        /\ row.expires_at = invites[j].expires_at /\ row.revoked_at
    BY <2>1 DEF Row
  <2>3. invites'[j] = IF j \in H THEN row ELSE invites[j]
    BY <1>1, <2>1
  <2> HIDE DEF row
  <2> QED BY <2>1, <2>2, <2>3, Sentinels
<1>4. /\ invites' \in [Invite -> Row \cup {NoRow}] /\ Rows' = Rows /\ Present' = Present
  <2>1. \A j \in Invite : j \notin Rows => invites'[j] = NoRow
    BY <1>1, <1>2 DEF Rows
  <2> QED BY <1>1, <1>2, <1>3, <2>1 DEF Rows, Present
<1>5. RowInv'
  BY <1>1, <1>3, <1>4 DEF InvitationInv, RowInv, CountWithinLimit, FailuresCostNoUse, ReferencesExist
<1>6. ASSUME NEW a \in RequestType, RequestOK(a) PROVE RequestOK(a)'
  BY <1>1, <1>3, <1>4, <1>6 DEF RequestOK, CreateOK, RedeemOK, ClearOK, DeleteOK, Clearable,
                                Revoked, Expired
<1>7. /\ accounts' \in [User -> {"absent", "present", "deleted"}]
      /\ redemptions' \in [Invite -> Nat]
  BY <1>1 DEF InvitationInv, TypeOK
<1> QED BY <1>1, <1>4, <1>5, <1>6, <1>7, CommitKeeps

\* Rows are removed that nobody else has locked.
LEMMA DeleteCommitKeeps ==
    ASSUME InvitationInv, NEW r \in Request, DeleteCommit(r)
    PROVE  InvitationInv'
<1> DEFINE H == req[r].held
<1>1. /\ UNCHANGED <<accounts, codes, past, redemptions>>
      /\ invites' = [i \in Invite |-> IF i \in H THEN NoRow ELSE invites[i]]
      /\ End(r)
  BY DEF DeleteCommit
<1>2. /\ invites' \in [Invite -> Row \cup {NoRow}] /\ Rows' = Rows \ H /\ Present' = Present
      /\ \A i \in Rows \ H : invites'[i] = invites[i]
  BY <1>1 DEF InvitationInv, TypeOK, Rows, Present
<1>3. RowInv'
  BY <1>1, <1>2 DEF InvitationInv, RowInv, CountWithinLimit, FailuresCostNoUse, ReferencesExist
<1>4. ASSUME NEW a \in RequestType, RequestOK(a), Apart(req[r], a) PROVE RequestOK(a)'
  <2>1. a.held \cap H = {}
    BY <1>4 DEF Apart
  <2> HIDE DEF H
  <2>2. a.held \subseteq Rows' /\ CreateOK(a)'
    BY <1>1, <1>2, <1>4, <2>1 DEF RequestOK, CreateOK
  <2>3. RedeemOK(a)'
    BY <1>1, <1>2, <1>4, <2>1 DEF RequestOK, RedeemOK
  <2>4. ClearOK(a)' /\ DeleteOK(a)'
    BY <1>1, <1>2, <1>4 DEF RequestOK, ClearOK, DeleteOK, Clearable, Revoked, Expired
  <2> QED BY <2>2, <2>3, <2>4 DEF RequestOK
<1>5. /\ accounts' \in [User -> {"absent", "present", "deleted"}]
      /\ redemptions' \in [Invite -> Nat]
  BY <1>1 DEF InvitationInv, TypeOK
<1> QED BY <1>1, <1>2, <1>3, <1>4, <1>5, CommitKeeps

\* A user disappears from the rows that name it, all of which are locked.
LEMMA DeleteUserCommitKeeps ==
    ASSUME InvitationInv, NEW r \in Request, DeleteUserCommit(r)
    PROVE  InvitationInv'
<1> DEFINE u == req[r].user
           H == req[r].held
<1>1. /\ accounts' = [accounts EXCEPT ![u] = "deleted"]
      /\ invites' = [i \in Invite |-> IF i \in H THEN Forget(invites[i], u) ELSE invites[i]]
      /\ End(r) /\ UNCHANGED <<codes, past, redemptions>>
  BY DEF DeleteUserCommit
<1>2. /\ H \subseteq Rows /\ Rows \subseteq Invite /\ u \in User /\ Deleting(req[r])
      /\ \A i \in Rows : u \in {invites[i].target_user_id, invites[i].redeemed_by} => i \in H
  BY RowTypes DEF DeleteUserCommit, Locked, At, InvitationInv, RequestInv, RequestOK, DeleteOK,
                  Deleting
<1> HIDE DEF u, H
<1>3. /\ accounts' \in [User -> {"absent", "present", "deleted"}] /\ Present' = Present \ {u}
  BY <1>1, <1>2 DEF InvitationInv, TypeOK, Present
<1>4. ASSUME NEW i \in Rows
      PROVE  /\ invites'[i] \in Row \cup {NoRow}
             /\ invites'[i] # NoRow =>
                  /\ invites'[i].uses_count = invites[i].uses_count
                  /\ invites'[i].max_uses = invites[i].max_uses
                  /\ invites'[i].revoked_at = invites[i].revoked_at
                  /\ invites'[i].expires_at = invites[i].expires_at
                  /\ invites'[i].redeemed_by \in {invites[i].redeemed_by, NoUser}
                  /\ invites'[i].redeemed_by # u
                  /\ invites'[i].target_user_id = invites[i].target_user_id
                  /\ invites[i].target_user_id # u
             /\ invites'[i] = NoRow => i \in H
  <2>1. i \in Invite /\ invites[i] \in Row /\ invites[i] # NoRow
    BY RowTypes DEF InvitationInv
  <2> DEFINE row == [invites[i] EXCEPT !.redeemed_by = NoUser]
  <2>2. /\ row \in Row /\ row.uses_count = invites[i].uses_count
        /\ row.max_uses = invites[i].max_uses /\ row.redeemed_by = NoUser
        /\ row.target_user_id = invites[i].target_user_id
        /\ row.expires_at = invites[i].expires_at /\ row.revoked_at = invites[i].revoked_at
    BY <2>1 DEF Row
  <2>3. CASE i \in H /\ invites[i].target_user_id = u
    BY <1>1, <2>1, <2>3 DEF Forget
  <2>4. CASE i \in H /\ invites[i].target_user_id # u /\ invites[i].redeemed_by = u
    <3>1. invites'[i] = row
      BY <1>1, <2>1, <2>4 DEF Forget
    <3> HIDE DEF row
    <3> QED BY <1>2, <2>2, <2>4, <3>1, Sentinels
  <2>5. CASE i \in H /\ invites[i].target_user_id # u /\ invites[i].redeemed_by # u
    <3>1. invites'[i] = invites[i]
      BY <1>1, <2>1, <2>5 DEF Forget
    <3> QED BY <2>1, <2>5, <3>1
  <2>6. CASE i \notin H
    <3>1. invites'[i] = invites[i]
      BY <1>1, <2>1, <2>6
    <3> QED BY <1>2, <2>1, <2>6, <3>1
  <2> QED BY <2>3, <2>4, <2>5, <2>6
<1>5. /\ Rows' \subseteq Rows /\ Rows \ H \subseteq Rows'
      /\ invites' \in [Invite -> Row \cup {NoRow}]
  <2>1. \A i \in Invite : i \notin Rows => invites'[i] = NoRow
    BY <1>1, <1>2 DEF Rows
  <2> QED BY <1>1, <1>2, <1>4, <2>1 DEF Rows
<1>6. RowInv'
  <2>1. \A i \in Rows' : i \in Rows /\ invites'[i] # NoRow
    BY <1>5 DEF Rows
  <2>2. CountWithinLimit' /\ FailuresCostNoUse'
    BY <1>1, <1>4, <2>1 DEF InvitationInv, RowInv, CountWithinLimit, FailuresCostNoUse
  <2>3. ReferencesExist'
    BY <1>3, <1>4, <2>1 DEF InvitationInv, RowInv, ReferencesExist
  <2> QED BY <1>1, <1>5, <2>2, <2>3 DEF InvitationInv, RowInv
<1>7. ASSUME NEW a \in RequestType, RequestOK(a), Apart(req[r], a) PROVE RequestOK(a)'
  <2>1. a.held \cap H = {} /\ (Deleting(a) \/ Referring(a) => a.user # u)
    BY <1>2, <1>7 DEF Apart, H, u
  <2>2. \A i \in Rows' : i \in Rows /\ invites'[i] # NoRow
    BY <1>5 DEF Rows
  <2>3. a.held \subseteq Rows' /\ CreateOK(a)'
    BY <1>1, <1>3, <1>5, <1>7, <2>1 DEF RequestOK, CreateOK, Creating, Referring
  <2>4. RedeemOK(a)'
    BY <1>1, <1>4, <1>7, <2>2 DEF RequestOK, RedeemOK
  <2>5. ClearOK(a)'
    BY <1>1, <1>4, <1>7, <2>2 DEF RequestOK, ClearOK, Clearable, Revoked, Expired
  <2>6. DeleteOK(a)'
    BY <1>4, <1>7, <2>2, Sentinels DEF RequestOK, DeleteOK
  <2> QED BY <2>3, <2>4, <2>5, <2>6 DEF RequestOK
<1>8. redemptions' \in [Invite -> Nat]
  BY <1>1 DEF InvitationInv, TypeOK
<1> QED BY <1>1, <1>3, <1>5, <1>6, <1>7, <1>8, CommitKeeps

\* A redemption counts once: what it saw was below the limit and not ahead.
LEMMA RedeemCommitKeeps ==
    ASSUME InvitationInv, NEW r \in Request, RedeemCommit(r)
    PROVE  InvitationInv'
<1> DEFINE i == req[r].inv
           u == req[r].user
           seen == req[r].seen
           row == Redeemed(invites[i], seen, u)
<1>1. /\ i \in Rows /\ i \in Invite /\ i \in codes /\ invites[i] \in Row /\ u \in User
      /\ seen \in Row /\ seen.uses_count < seen.max_uses
      /\ seen.uses_count <= redemptions[i]
      /\ seen.max_uses = invites[i].max_uses
      /\ Redeeming(req[r]) /\ Referring(req[r])
  BY RowTypes DEF RedeemCommit, At, InvitationInv, RequestInv, RequestOK, RedeemOK, Redeeming,
                  Referring
<1>2. /\ invites' = [invites EXCEPT ![i] = row]
      /\ redemptions' = [redemptions EXCEPT ![i] = @ + 1]
      /\ accounts' = [accounts EXCEPT ![u] = "present"]
      /\ End(r) /\ UNCHANGED <<codes, past>>
  BY DEF RedeemCommit
<1>3. /\ row \in Row /\ row # NoRow /\ row.uses_count = seen.uses_count + 1
      /\ row.redeemed_by = u /\ row.max_uses = invites[i].max_uses
      /\ row.target_user_id = invites[i].target_user_id
      /\ row.revoked_at = invites[i].revoked_at /\ row.expires_at = invites[i].expires_at
  <2> HIDE DEF i, u, seen
  <2>1. /\ row \in Row /\ row.uses_count = seen.uses_count + 1 /\ row.redeemed_by = u
        /\ row.max_uses = invites[i].max_uses
        /\ row.target_user_id = invites[i].target_user_id
        /\ row.revoked_at = invites[i].revoked_at /\ row.expires_at = invites[i].expires_at
    BY <1>1, RedeemedType
  <2> QED BY <2>1, Sentinels
<1> HIDE DEF row
<1>4. /\ invites' \in [Invite -> Row \cup {NoRow}] /\ invites'[i] = row
      /\ \A j \in Invite \ {i} : invites'[j] = invites[j]
      /\ Rows' = Rows
  BY <1>1, <1>2, <1>3 DEF InvitationInv, TypeOK, Rows
<1>5. /\ redemptions' \in [Invite -> Nat] /\ redemptions'[i] = redemptions[i] + 1
      /\ \A j \in Invite \ {i} : redemptions'[j] = redemptions[j]
      /\ \A j \in Invite : redemptions[j] \in Nat /\ redemptions[j] <= redemptions'[j]
  BY <1>1, <1>2 DEF InvitationInv, TypeOK
<1>6. /\ accounts' \in [User -> {"absent", "present", "deleted"}]
      /\ Present' = Present \cup {u}
  BY <1>1, <1>2 DEF InvitationInv, TypeOK, Present
<1>7. ASSUME NEW j \in Rows
      PROVE  /\ j \in Invite /\ invites[j] \in Row
             /\ invites'[j].max_uses = invites[j].max_uses
             /\ invites'[j].target_user_id = invites[j].target_user_id
             /\ invites'[j].redeemed_by \in {invites[j].redeemed_by, u}
             /\ invites'[j].revoked_at = invites[j].revoked_at
             /\ invites'[j].expires_at = invites[j].expires_at
  <2> HIDE DEF i, u, seen
  <2> QED BY <1>3, <1>4, RowTypes DEF InvitationInv
<1>8. RowInv'
  <2> HIDE DEF i, u, seen
  <2>1. CountWithinLimit'
    BY <1>1, <1>3, <1>4, <1>7, Columns DEF InvitationInv, RowInv, CountWithinLimit
  <2>2. FailuresCostNoUse'
    <3>1. /\ invites'[i].uses_count <= redemptions'[i] /\ invites'[i].uses_count > 0
      BY <1>1, <1>3, <1>4, <1>5, Columns
    <3> QED BY <1>4, <1>5, <1>7, <3>1 DEF InvitationInv, RowInv, FailuresCostNoUse
  <2>3. ReferencesExist'
    BY <1>4, <1>6, <1>7 DEF InvitationInv, RowInv, ReferencesExist
  <2> QED BY <1>1, <1>2, <1>4, <1>5, <2>1, <2>2, <2>3 DEF InvitationInv, RowInv
<1>9. ASSUME NEW a \in RequestType, RequestOK(a), Apart(a, req[r]) PROVE RequestOK(a)'
  <2>1. /\ Creating(a) => a.inv # i
        /\ Deleting(a) => u # a.user
    BY <1>1, <1>9 DEF Apart
  <2> HIDE DEF i, u, seen
  <2>2. a.held \subseteq Rows' /\ CreateOK(a)'
    <3>1. Creating(a) => a.inv \in Invite /\ a.inv # NoInvite
      BY <1>9, Sentinels DEF RequestType, RequestOK, CreateOK, InvitationInv, TypeOK
    <3> QED BY <1>2, <1>4, <1>5, <1>6, <1>9, <2>1, <3>1 DEF RequestOK, CreateOK
  <2>3. RedeemOK(a)'
    <3>1. ASSUME Redeeming(a) PROVE a.seen.uses_count <= redemptions'[a.inv]
      <4>1. a.inv \in Invite /\ a.seen.uses_count <= redemptions[a.inv] /\ a.seen \in Row
        BY <1>9, <3>1 DEF RequestOK, RedeemOK, InvitationInv, TypeOK
      <4>2. /\ redemptions[a.inv] <= redemptions'[a.inv] /\ a.seen.uses_count \in Nat
            /\ redemptions[a.inv] \in Nat /\ redemptions'[a.inv] \in Nat
        BY <1>5, <4>1, Columns
      <4> QED BY <4>1, <4>2
    <3> QED BY <1>2, <1>4, <1>7, <1>9, <3>1 DEF RequestOK, RedeemOK
  <2>4. ClearOK(a)'
    BY <1>2, <1>4, <1>7, <1>9 DEF RequestOK, ClearOK, Clearable, Revoked, Expired
  <2>5. DeleteOK(a)'
    BY <1>4, <1>7, <1>9, <2>1 DEF RequestOK, DeleteOK
  <2> QED BY <2>2, <2>3, <2>4, <2>5 DEF RequestOK
<1> QED BY <1>2, <1>4, <1>5, <1>6, <1>8, <1>9, CommitKeeps

\* A date passes: what had expired stays expired.
LEMMA ExpireKeeps ==
    ASSUME InvitationInv, NEW i \in Invite, Expire(i)
    PROVE  InvitationInv'
<1>1. UNCHANGED <<accounts, invites, codes, req, redemptions>> /\ past' = past \cup {i}
  BY DEF Expire
<1>2. TypeOK'
  BY <1>1 DEF InvitationInv, TypeOK
<1>3. RowInv'
  BY <1>1 DEF InvitationInv, RowInv, CountWithinLimit, FailuresCostNoUse, ReferencesExist, Rows,
              Present
<1>4. ASSUME NEW q \in Request PROVE RequestOK(req[q])'
  <2>1. RequestOK(req[q])
    BY DEF InvitationInv, RequestInv
  <2> QED BY <1>1, <2>1 DEF RequestOK, CreateOK, RedeemOK, ClearOK, DeleteOK, Rows, Present,
                            Clearable, Revoked, Expired
<1>5. ASSUME NEW p \in Request, NEW q \in Request, p # q PROVE Apart(req[p], req[q])'
  BY <1>1, <1>5 DEF InvitationInv, RequestInv, Apart, Creating, Redeeming, Clearing, Deleting,
                    Referring
<1> QED BY <1>2, <1>3, <1>4, <1>5 DEF InvitationInv, RequestInv

-----------------------------------------------------------------------------
(* All steps.                                                              *)

\* Before the first code there is nothing.
LEMMA InvitationInit == Init => InvitationInv
<1> SUFFICES ASSUME Init PROVE InvitationInv
  OBVIOUS
<1>1. \A q \in Request : req[q] = Idle
  BY DEF Init
<1>2. TypeOK
  BY InvitationAssumption, IdleOK DEF Init, TypeOK, RequestType
<1>3. RowInv
  BY DEF Init, RowInv, CountWithinLimit, FailuresCostNoUse, ReferencesExist, Rows
<1>4. RequestInv
  BY <1>1, IdleOK DEF RequestInv
<1> QED BY <1>2, <1>3, <1>4 DEF InvitationInv

\* A request that arrives.
LEMMA ArriveKeeps ==
    ASSUME InvitationInv, NEW r \in Request, Arrive(r)
    PROVE  InvitationInv'
<1>1. ASSUME NEW i \in Invite, RevokeInvite(r, i) \/ DeleteInvite(r, i)
      PROVE  InvitationInv'
  <2> DEFINE S == {i}
  <2>1. PICK base \in {[Idle EXCEPT !.pc = "revoke_commit"], [Idle EXCEPT !.pc = "delete_commit"]} :
            Lock(r, base, S) /\ NoData
    BY <1>1 DEF RevokeInvite, DeleteInvite
  <2>2. /\ base \in RequestType /\ base.pc \in {"revoke_commit", "delete_commit"}
        /\ base.held = {} /\ S \in SUBSET Invite
    BY <2>1 DEF Idle, RequestType, Steps
  <2> HIDE DEF S
  <2>3. PICK j \in FirstOf(base, S) : Put(r, [base EXCEPT !.picks = S, !.asks = j])
    BY <2>1 DEF Lock
  <2> DEFINE a == [base EXCEPT !.picks = S, !.asks = j]
  <2>4. a \in RequestType
    BY <2>2, <2>3, AsksOne
  <2>5. a.pc = base.pc /\ a.held = {}
    BY <2>2 DEF RequestType
  <2>6. Put(r, a)
    BY <2>3
  <2> HIDE DEF a
  <2> QED BY <2>1, <2>2, <2>4, <2>5, <2>6, QuietKeeps
<1>2. ASSUME NEW u \in User, DeleteUser(r, u)
      PROVE  InvitationInv'
  <2> DEFINE a == [Idle EXCEPT !.pc = "delete_user_flush", !.user = u]
  <2>1. a \in RequestType /\ a.pc = "delete_user_flush" /\ a.held = {}
    BY DEF Idle, RequestType, Steps
  <2>2. Put(r, a) /\ NoData
    BY <1>2 DEF DeleteUser
  <2> HIDE DEF a
  <2> QED BY <2>1, <2>2, QuietKeeps
<1> QED BY <1>1, <1>2, ListKeeps, RedeemKeeps, CreateKeeps DEF Arrive

\* A request that goes on.
LEMMA ProceedKeeps ==
    ASSUME InvitationInv, NEW r \in Request, Proceed(r)
    PROVE  InvitationInv'
<1>1. CASE Deadlock(r)
  BY <1>1, EndKeeps DEF Deadlock
<1> QED BY <1>1, CreateFlushKeeps, CreateCommitKeeps, LockRowKeeps, RevokeCommitKeeps,
           DeleteCommitKeeps, DeleteUserFlushKeeps, DeleteUserCommitKeeps, RedeemingKeeps,
           RedeemCommitKeeps DEF Proceed

\* Every step keeps the invariant.
LEMMA InvitationStep == InvitationInv /\ [Next]_vars => InvitationInv'
<1> SUFFICES ASSUME InvitationInv, [Next]_vars PROVE InvitationInv'
  OBVIOUS
<1>1. ASSUME NEW r \in Request, Rollback(r) PROVE InvitationInv'
  BY <1>1, EndKeeps DEF Rollback
<1>2. CASE UNCHANGED vars
  <2>1. TypeOK' /\ RowInv'
    BY <1>2 DEF vars, InvitationInv, TypeOK, RowInv, CountWithinLimit, FailuresCostNoUse,
                ReferencesExist, Rows, Present
  <2>2. RequestInv'
    BY <1>2 DEF vars, InvitationInv, RequestInv, RequestOK, CreateOK, RedeemOK, ClearOK, DeleteOK,
                Rows, Present, Clearable, Revoked, Expired, Apart, Creating, Redeeming, Clearing,
                Deleting, Referring
  <2> QED BY <2>1, <2>2 DEF InvitationInv
<1> QED BY <1>1, <1>2, ArriveKeeps, ProceedKeeps, ExpireKeeps DEF Next

-----------------------------------------------------------------------------

\* What redemptions in flight have seen, and what they may rely on.
THEOREM InvitationInvariant == Spec => []InvitationInv
  BY InvitationInit, InvitationStep, PTL DEF Spec

\* Rows, codes, requests and histories keep their types.
THEOREM InvitationTypes == Spec => []TypeOK
<1>1. InvitationInv => TypeOK
  BY DEF InvitationInv
<1> QED BY <1>1, InvitationInvariant, PTL

\* The counter never exceeds the limit, however many redemptions overlap.
THEOREM CounterWithinLimit == Spec => []CountWithinLimit
<1>1. InvitationInv => CountWithinLimit
  BY DEF InvitationInv, RowInv
<1> QED BY <1>1, InvitationInvariant, PTL

\* Failed and lost redemptions cost no use.
THEOREM FailuresAreFree == Spec => []FailuresCostNoUse
<1>1. InvitationInv => FailuresCostNoUse
  BY DEF InvitationInv, RowInv
<1> QED BY <1>1, InvitationInvariant, PTL

\* No invitation refers to an account that is gone.
THEOREM NoDanglingReference == Spec => []ReferencesExist
<1>1. InvitationInv => ReferencesExist
  BY DEF InvitationInv, RowInv
<1> QED BY <1>1, InvitationInvariant, PTL

\* Clearing takes revoked and expired rows only, although it had listed them earlier.
THEOREM ClearingIsSafe == Spec => ClearTakesOnlyDead
<1>1. ASSUME InvitationInv, NEW r \in Request, DeleteCommit(r), At(r, "clear_commit"),
             NEW i \in Rows, invites'[i] = NoRow
      PROVE  Revoked(invites[i]) \/ Expired(i, invites[i])
  <2>1. i \in Invite /\ invites[i] # NoRow
    BY DEF Rows
  <2>2. i \in req[r].held
    BY <1>1, <2>1 DEF DeleteCommit
  <2> QED BY <1>1, <2>2
          DEF InvitationInv, RequestInv, RequestOK, ClearOK, Clearing, At, Clearable
<1>2. InvitationInv /\ [Next]_vars =>
        [\A r \in Request : DeleteCommit(r) /\ At(r, "clear_commit") =>
            \A i \in Rows : invites'[i] = NoRow =>
                Revoked(invites[i]) \/ Expired(i, invites[i])]_vars
  BY <1>1
<1> QED BY <1>2, InvitationInvariant, PTL DEF Spec, ClearTakesOnlyDead

\* A revoked row that is still there has been revoked for good.
LEMMA RevokedStays ==
    ASSUME InvitationInv, Next, NEW i \in Rows, invites[i].revoked_at, invites'[i] # NoRow
    PROVE  invites'[i].revoked_at
<1>1. i \in Invite /\ invites[i] \in Row /\ invites[i] # NoRow
  BY RowTypes DEF InvitationInv, Rows
<1>2. CASE invites' = invites
  BY <1>2
<1>3. ASSUME NEW r \in Request, CreateCommit(r) PROVE invites'[i] = invites[i]
  <2>1. req[r].inv # i
    BY <1>3 DEF CreateCommit, At, InvitationInv, RequestInv, RequestOK, CreateOK, Creating
  <2> QED BY <1>1, <1>3, <2>1 DEF CreateCommit, InvitationInv, TypeOK
<1>4. ASSUME NEW r \in Request, RevokeCommit(r) PROVE invites'[i].revoked_at
  <2>1. [invites[i] EXCEPT !.revoked_at = TRUE].revoked_at
    BY <1>1 DEF Row
  <2>2. invites'[i] \in {invites[i], [invites[i] EXCEPT !.revoked_at = TRUE]}
    BY <1>1, <1>4 DEF RevokeCommit
  <2> QED BY <2>1, <2>2
<1>5. ASSUME NEW r \in Request, DeleteCommit(r) PROVE invites'[i] = invites[i]
  BY <1>1, <1>5 DEF DeleteCommit
<1>6. ASSUME NEW r \in Request, DeleteUserCommit(r) PROVE invites'[i].revoked_at
  <2>1. invites'[i] \in {invites[i], Forget(invites[i], req[r].user)}
    BY <1>1, <1>6 DEF DeleteUserCommit
  <2>2. [invites[i] EXCEPT !.redeemed_by = NoUser].revoked_at = invites[i].revoked_at
    BY <1>1 DEF Row
  <2> QED BY <2>1, <2>2 DEF Forget
<1>7. ASSUME NEW r \in Request, RedeemCommit(r) PROVE invites'[i].revoked_at
  <2>1. CASE req[r].inv = i
    <3>1. req[r].seen \in Row /\ req[r].user \in User
      BY <1>7 DEF RedeemCommit, At, InvitationInv, RequestInv, RequestOK, RedeemOK, Redeeming
    <3>2. invites'[i] = Redeemed(invites[i], req[r].seen, req[r].user)
      BY <1>1, <1>7, <2>1 DEF RedeemCommit, InvitationInv, TypeOK
    <3> QED BY <1>1, <3>1, <3>2, RedeemedType
  <2>2. CASE req[r].inv # i
    <3>1. invites'[i] = invites[i]
      BY <1>1, <1>7, <2>2 DEF RedeemCommit, InvitationInv, TypeOK
    <3> QED BY <3>1
  <2> QED BY <2>1, <2>2
<1>8. ASSUME NEW r \in Request,
             \/ CreateFlush(r) \/ LockRow(r) \/ DeleteUserFlush(r) \/ RedeemUser(r)
             \/ RedeemFlush(r) \/ RedeemCount(r) \/ Deadlock(r) \/ Rollback(r) \/ Arrive(r)
      PROVE  invites' = invites
  BY <1>8 DEF CreateFlush, LockRow, DeleteUserFlush, RedeemUser, RedeemFlush, RedeemCount,
              Deadlock, Rollback, Arrive, ClearInactive, RevokeInvite, DeleteInvite,
              Redeem, DeleteUser, CreateInvite, NoData
<1>9. ASSUME NEW j \in Invite, Expire(j) PROVE invites' = invites
  BY <1>9 DEF Expire
<1> QED BY <1>2, <1>3, <1>4, <1>5, <1>6, <1>7, <1>8, <1>9 DEF Next, Proceed

\* A revocation is never undone, whatever was in flight when it was committed.
THEOREM RevocationIsFinal == Spec => RevocationSurvives
<1>1. InvitationInv /\ [Next]_vars =>
        [\A i \in Rows : invites[i].revoked_at /\ invites'[i] # NoRow => invites'[i].revoked_at]_vars
  BY RevokedStays
<1> QED BY <1>1, InvitationInvariant, PTL DEF Spec, RevocationSurvives
=============================================================================
