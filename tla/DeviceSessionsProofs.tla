------------------------- MODULE DeviceSessionsProofs -------------------------
(***************************************************************************)
(* Proofs about DeviceSessions for any sets of users, devices, tokens and  *)
(* concurrent requests.  Steps that only read, that narrow the table, that *)
(* mint a pair and that commit a row each have their lemma; the invariance *)
(* theorem applies them action by action.                                  *)
(***************************************************************************)
EXTENDS DeviceSessions, TLAPS

ReqType == [pc: Steps, tok: Token \cup {NoToken}, user: User \cup {NoUser},
            dev: Device \cup {NoDevice}, new: Token \cup {NoToken},
            rows: SUBSET Device, late: BOOLEAN]

Table == [Device -> Row \cup {NoRow}]

\* tab is the device table with rows removed or revoked.
Narrows(tab) ==
    \A d \in Device : tab[d] # NoRow =>
        /\ devices[d] # NoRow
        /\ tab[d].refresh_jti = devices[d].refresh_jti
        /\ tab[d].previous_refresh_jti = devices[d].previous_refresh_jti
        /\ devices[d].revoked_at => tab[d].revoked_at

Quiet == UNCHANGED <<users, devices, issued, spent, closed>>

-----------------------------------------------------------------------------
(* Types.                                                                  *)

\* A request that ends leaves a typed record.
LEMMA IdleType == Idle \in ReqType
  BY DEF Idle, ReqType, Steps

\* Reading the histories yields a truth value.
LEMMA GhostType ==
  ASSUME NEW x PROVE WasSpent(x) \in BOOLEAN /\ WasClosed(x) \in BOOLEAN
  BY DEF WasSpent, WasClosed

\* A request moves on and the other requests stay where they are.
LEMMA PutFacts ==
  ASSUME TypeOK, NEW r \in Request, NEW rec \in ReqType, Put(r, rec)
  PROVE  /\ req' \in [Request -> ReqType]
         /\ req'[r] = rec
         /\ \A q \in Request \ {r} : req'[q] = req[q]
  BY DEF TypeOK, ReqType, Put

\* A request that moves on keeps a typed record.
LEMMA GotoType ==
  ASSUME TypeOK, NEW r \in Request, NEW s \in Steps
  PROVE  [req[r] EXCEPT !.pc = s] \in ReqType
  BY DEF TypeOK, ReqType

\* Revoking rows yields a table whose rows are old ones, revoked or gone.
LEMMA NarrowType ==
  ASSUME TypeOK, NEW S
  PROVE  RevokeRows(S) \in Table /\ Narrows(RevokeRows(S))
  BY SentinelAssumption DEF TypeOK, RevokeRows, Revoke, Rows, Row, Table, Narrows

\* The live token of a device is a token or NoToken.
LEMMA LiveTokenType ==
  ASSUME NEW tab \in Table, NEW d \in Device
  PROVE  LiveToken(tab, d) \in Token \cup {NoToken}
  BY DEF LiveToken, Table, Row

\* Live tokens are tokens, live devices are devices.
LEMMA LiveTokensType ==
  ASSUME NEW tab \in Table
  PROVE  LiveTokens(tab) \subseteq Token /\ LiveDevices(tab) \subseteq Device
  BY LiveTokenType DEF LiveTokens, LiveDevices

\* What a commit of tab does to the histories.
LEMMA WriteFacts ==
  ASSUME TypeOK, NEW tab \in Table, Write(tab)
  PROVE  /\ devices' = tab /\ devices' \in Table
         /\ spent' \subseteq Token /\ closed' \subseteq Device
         /\ spent \subseteq spent' /\ closed \subseteq closed'
         /\ spent' \subseteq spent \cup LiveTokens(devices)
         /\ closed' \subseteq closed \cup LiveDevices(devices)
         /\ spent \cup LiveTokens(devices) \subseteq spent' \cup LiveTokens(devices')
         /\ LiveTokens(tab) \cap spent = {} => LiveTokens(devices') \cap spent' = {}
         /\ LiveDevices(tab) \cap closed = {} => LiveDevices(devices') \cap closed' = {}
  <1>1. devices \in Table
    BY DEF TypeOK, Table
  <1>2. LiveTokens(devices) \subseteq Token /\ LiveDevices(devices) \subseteq Device
    BY <1>1, LiveTokensType
  <1> QED BY <1>2 DEF Write, TypeOK

-----------------------------------------------------------------------------
(* The four kinds of step.                                                 *)

\* A request that stays as it was keeps its part of the invariant when tokens
\* are only added to what is minted and histories only grow by what was live.
LEMMA OthersStay ==
  ASSUME SessionInv, NEW r \in Request, NEW q \in Request \ {r},
         req'[q] = req[q],
         \A t \in Token, d \in Device : Minted(t, d) => Minted(t, d)',
         spent \subseteq spent', closed \subseteq closed',
         spent \cup LiveTokens(devices) \subseteq (spent \cup LiveTokens(devices))'
  PROVE  RequestOK(q)'
  <1>1. RequestOK(q) /\ req[q] \in ReqType
    BY DEF SessionInv, RequestInv, TypeOK, ReqType
  <1>2. ASSUME At(q, "refresh_user") \/ At(q, "refresh_commit")
        PROVE  req[q].tok \in Token
    <2>1. req[q].tok # NoToken
      BY <1>1, <1>2, LiveTokensType, SentinelAssumption
         DEF RequestOK, SessionInv, TypeOK, LiveTokens
    <2> QED BY <2>1, <1>1 DEF ReqType
  <1> QED BY <1>1, <1>2 DEF RequestOK, At

\* Reading: nothing but the request changes, and it is not about to commit.
LEMMA ReadStep ==
  ASSUME SessionInv, NEW r \in Request, NEW rec \in ReqType, Put(r, rec), Quiet,
         rec.pc \notin {"login_commit", "refresh_commit"}, RequestOK(r)'
  PROVE  SessionInv'
  <1>1. TypeOK
    BY DEF SessionInv
  <1>2. /\ req' \in [Request -> ReqType] /\ req'[r] = rec
        /\ \A q \in Request \ {r} : req'[q] = req[q]
    BY <1>1, PutFacts
  <1>3. TypeOK'
    BY <1>1, <1>2 DEF TypeOK, ReqType, Quiet
  <1>4. RowInv' /\ HistoryInv'
    BY DEF SessionInv, RowInv, HistoryInv, Quiet, Rows, Minted, LiveTokens, LiveDevices,
           LiveToken, FreshTokens, FreshDevices
  <1>5. PendingInv'
    <2>1. ~Committing(r)'
      BY <1>2 DEF Committing, At
    <2>2. \A q \in Request : CommitOK(q)'
      BY <1>2, <2>1 DEF SessionInv, PendingInv, CommitOK, Committing, At, Quiet, Rows, Minted
    <2>3. \A p, q \in Request : p # q => Distinct(p, q)'
      BY <1>2, <2>1 DEF SessionInv, PendingInv, Distinct, Committing, At
    <2> QED BY <2>2, <2>3 DEF PendingInv
  <1>6. RequestInv'
    <2>1. ASSUME NEW q \in Request \ {r} PROVE RequestOK(q)'
      BY <1>2 DEF SessionInv, RequestInv, RequestOK, At, Quiet, Minted, LiveTokens, LiveToken
    <2> QED BY <2>1 DEF RequestInv
  <1> QED BY <1>3, <1>4, <1>5, <1>6 DEF SessionInv

\* Live tokens and devices of a table are those of its unrevoked rows.
LEMMA LiveRows ==
  ASSUME SessionInv
  PROVE  /\ \A t \in LiveTokens(devices) : \E d \in Rows :
              d \in LiveDevices(devices) /\ t = devices[d].refresh_jti /\ Minted(t, d)
         /\ \A d \in LiveDevices(devices) : d \in Rows /\ \E t \in Token : Minted(t, d)
         /\ LiveTokens(devices) \cap FreshTokens = {}
         /\ LiveDevices(devices) \cap FreshDevices = {}
  <1>1. \A d \in Rows : devices[d] \in Row /\ Minted(devices[d].refresh_jti, d)
    BY DEF SessionInv, TypeOK, Rows, RowInv
  <1>2. \A d \in LiveDevices(devices) : d \in Rows
    BY DEF LiveDevices, LiveToken, Rows
  <1>3. \A d \in Rows : devices[d].refresh_jti \in Token
    BY <1>1 DEF Row
  <1> QED
    BY <1>1, <1>2, <1>3
       DEF LiveTokens, LiveDevices, LiveToken, FreshTokens, FreshDevices, Minted

\* Narrowing: rows are removed or revoked, and the request ends or is refused.
LEMMA NarrowStep ==
  ASSUME SessionInv, NEW r \in Request, NEW rec \in ReqType, Put(r, rec),
         rec.pc \in {"idle", "refused"},
         NEW tab \in Table, Narrows(tab), Write(tab),
         users' \subseteq users, UNCHANGED issued
  PROVE  SessionInv'
  <1>1. TypeOK
    BY DEF SessionInv
  <1>2. /\ req' \in [Request -> ReqType] /\ req'[r] = rec
        /\ \A q \in Request \ {r} : req'[q] = req[q]
    BY <1>1, PutFacts
  <1>3. /\ LiveTokens(tab) \subseteq LiveTokens(devices)
        /\ LiveDevices(tab) \subseteq LiveDevices(devices)
    <2>1. ASSUME NEW d \in Device, LiveToken(tab, d) # NoToken
          PROVE  LiveToken(tab, d) = LiveToken(devices, d)
      BY <2>1 DEF Narrows, LiveToken
    <2> QED BY <2>1 DEF LiveTokens, LiveDevices
  <1>4. /\ LiveTokens(tab) \cap spent = {}
        /\ LiveDevices(tab) \cap closed = {}
    BY <1>3 DEF SessionInv, HistoryInv
  <1>5. /\ devices' = tab /\ devices' \in Table
        /\ spent' \subseteq Token /\ closed' \subseteq Device
        /\ spent \subseteq spent' /\ closed \subseteq closed'
        /\ spent' \subseteq spent \cup LiveTokens(devices)
        /\ closed' \subseteq closed \cup LiveDevices(devices)
        /\ spent \cup LiveTokens(devices) \subseteq spent' \cup LiveTokens(devices')
        /\ LiveTokens(devices') \cap spent' = {}
        /\ LiveDevices(devices') \cap closed' = {}
    BY <1>1, <1>4, WriteFacts
  <1>6. TypeOK'
    BY <1>1, <1>2, <1>5 DEF TypeOK, ReqType, Table
  <1>7. \A d \in Rows' : d \in Rows
    BY <1>5 DEF Rows, Narrows
  <1>8. RowInv'
    BY <1>5, <1>7 DEF RowInv, SessionInv, Narrows, Rows, Minted
  <1>9. HistoryInv'
    <2>1. UNCHANGED <<FreshTokens, FreshDevices>>
      BY DEF FreshTokens, FreshDevices
    <2> QED BY <1>5, <2>1, LiveRows DEF HistoryInv, SessionInv
  <1>10. PendingInv'
    <2>1. ~Committing(r)'
      BY <1>2 DEF Committing, At
    <2>2. ASSUME NEW q \in Request \ {r} PROVE CommitOK(q)'
      <3>1. CommitOK(q)
        BY DEF SessionInv, PendingInv
      <3>2. Committing(q) => req[q].new \notin LiveTokens(devices)
        BY <3>1, LiveRows DEF CommitOK
      <3>3. At(q, "login_commit") => req[q].dev \notin LiveDevices(devices)
        BY <3>1, LiveRows DEF CommitOK
      <3>4. \A d \in Rows' : devices'[d].refresh_jti = devices[d].refresh_jti
        BY <1>5 DEF Rows, Narrows
      <3> QED BY <1>2, <1>5, <1>7, <3>1, <3>2, <3>3, <3>4
              DEF CommitOK, Committing, At, Minted
    <2>3. \A p, q \in Request : p # q => Distinct(p, q)'
      BY <1>2, <2>1 DEF SessionInv, PendingInv, Distinct, Committing, At
    <2> QED BY <2>1, <2>2, <2>3 DEF PendingInv, CommitOK, Committing
  <1>11. RequestInv'
    <2>1. RequestOK(r)'
      BY <1>2 DEF RequestOK, At
    <2>2. ASSUME NEW q \in Request \ {r} PROVE RequestOK(q)'
      BY <1>2, <1>5, OthersStay DEF Minted
    <2> QED BY <2>1, <2>2 DEF RequestInv
  <1> QED BY <1>6, <1>8, <1>9, <1>10, <1>11 DEF SessionInv

\* Minting: a fresh token is signed for device d and the request will commit it.
LEMMA MintStep ==
  ASSUME SessionInv, NEW r \in Request, NEW t \in FreshTokens, NEW p \in Pair,
         NEW rec \in ReqType, Put(r, rec),
         issued' = [issued EXCEPT ![t] = p],
         UNCHANGED <<users, devices, spent, closed>>,
         rec.new = t, rec.dev = p.of,
         rec.pc \in {"login_commit", "refresh_commit"},
         rec.pc = "login_commit" => rec.user \in User /\ rec.dev \in FreshDevices,
         RequestOK(r)'
  PROVE  SessionInv'
  <1>1. TypeOK /\ t \in Token /\ issued[t] = NoPair /\ p # NoPair /\ p.of \in Device
    BY SentinelAssumption DEF SessionInv, FreshTokens, Pair
  <1>2. /\ req' \in [Request -> ReqType] /\ req'[r] = rec
        /\ \A q \in Request \ {r} : req'[q] = req[q]
    BY <1>1, PutFacts
  <1>3. /\ TypeOK'
        /\ issued'[t] = p
        /\ \A x \in Token \ {t} : issued'[x] = issued[x]
    BY <1>1, <1>2 DEF TypeOK, ReqType
  <1>4. \A x \in Token, d \in Device : Minted(x, d) => Minted(x, d)'
    BY <1>1, <1>3 DEF Minted
  <1>5. FreshTokens' = FreshTokens \ {t} /\ FreshDevices' \subseteq FreshDevices
    <2>1. FreshTokens' = FreshTokens \ {t}
      BY <1>1, <1>3 DEF FreshTokens
    <2> QED BY <1>3, <2>1 DEF FreshDevices
  <1>6. \A d \in Rows : devices[d] \in Row
    BY <1>1 DEF TypeOK, Rows
  <1>7. RowInv'
    BY <1>4, <1>6 DEF SessionInv, RowInv, Rows, Row
  <1>8. HistoryInv'
    BY <1>5 DEF SessionInv, HistoryInv, LiveTokens, LiveDevices, LiveToken
  <1>9. t \notin spent /\ \A d \in Rows : devices[d].refresh_jti # t
    BY <1>1 DEF SessionInv, RowInv, HistoryInv, Minted
  <1>10. Rows \cap FreshDevices = {}
    BY <1>6 DEF SessionInv, RowInv, Minted, FreshDevices, FreshTokens, Row
  <1>11. ASSUME NEW q \in Request \ {r}, Committing(q)
         PROVE  /\ CommitOK(q) /\ req[q].new \in Token \ {t}
                /\ req[q].dev \in Device \ FreshDevices
    <2>1. CommitOK(q)
      BY DEF SessionInv, PendingInv
    <2> QED BY <1>1, <1>11, <2>1 DEF CommitOK, Minted, FreshDevices, FreshTokens
  <1>12. PendingInv'
    <2>1. CommitOK(r)'
      <3>1. Minted(t, p.of)'
        BY <1>1, <1>3 DEF Minted
      <3> QED BY <1>1, <1>2, <1>9, <1>10, <3>1
              DEF CommitOK, At, Rows, SessionInv, HistoryInv
    <2>2. ASSUME NEW q \in Request \ {r} PROVE CommitOK(q)'
      <3>1. Committing(q)' <=> Committing(q)
        BY <1>2 DEF Committing, At
      <3> QED BY <1>2, <1>4, <1>11, <3>1 DEF CommitOK, At, Rows, Committing
    <2>3. ASSUME NEW q \in Request \ {r} PROVE Distinct(r, q)' /\ Distinct(q, r)'
      <3>1. Committing(q)' <=> Committing(q)
        BY <1>2 DEF Committing, At
      <3>2. Committing(q) => req'[q].new # t /\ req'[q].dev \notin FreshDevices
        BY <1>2, <1>11
      <3> QED BY <1>2, <3>1, <3>2 DEF Distinct, At, Committing
    <2>4. ASSUME NEW q1 \in Request \ {r}, NEW q2 \in Request \ {r}, q1 # q2
          PROVE  Distinct(q1, q2)'
      BY <1>2, <2>4 DEF SessionInv, PendingInv, Distinct, Committing, At
    <2> QED BY <2>1, <2>2, <2>3, <2>4 DEF PendingInv
  <1>13. RequestInv'
    <2>1. ASSUME NEW q \in Request \ {r} PROVE RequestOK(q)'
      <3>1. (spent \cup LiveTokens(devices))' = spent \cup LiveTokens(devices)
        BY DEF LiveTokens, LiveToken
      <3> QED BY <1>2, <1>4, <3>1, OthersStay
    <2> QED BY <2>1 DEF RequestInv
  <1> QED BY <1>3, <1>7, <1>8, <1>12, <1>13 DEF SessionInv

\* Committing: request r writes its minted token as the current one of row d.
\* The row's previous token, if any, is one of d's that is spent afterwards.
LEMMA CommitStep ==
  ASSUME SessionInv, NEW r \in Request, Committing(r), End(r),
         NEW d \in Device, d = req[r].dev,
         NEW row \in Row, row.refresh_jti = req[r].new,
         NEW tab, tab = [devices EXCEPT ![d] = row], Write(tab),
         d \notin closed \/ row.revoked_at,
         row.previous_refresh_jti # NoToken =>
            /\ Minted(row.previous_refresh_jti, d)
            /\ row.previous_refresh_jti \in spent \cup LiveTokens(devices),
         At(r, "login_commit") \/ d \in Rows,
         UNCHANGED <<users, issued>>
  PROVE  SessionInv'
  <1> DEFINE n == req[r].new
             prev == row.previous_refresh_jti
  <1>1. TypeOK /\ tab \in Table /\ row # NoRow
    BY SentinelAssumption DEF SessionInv, TypeOK, Table
  <1>2. /\ req' \in [Request -> ReqType] /\ req'[r] = Idle
        /\ \A q \in Request \ {r} : req'[q] = req[q]
    BY <1>1, PutFacts, IdleType DEF End
  <1>3. /\ n \in Token \ spent /\ Minted(n, d)
        /\ \A e \in Rows : devices[e].refresh_jti # n
    BY DEF SessionInv, PendingInv, CommitOK
  <1>4. n \notin LiveTokens(devices) /\ n # NoToken
    BY <1>3, LiveRows, SentinelAssumption
  <1>5. /\ tab[d] = row
        /\ \A e \in Device \ {d} : tab[e] = devices[e] /\ LiveToken(tab, e) = LiveToken(devices, e)
        /\ LiveToken(tab, d) \in {n, NoToken}
        /\ row.revoked_at => LiveToken(tab, d) = NoToken
    BY <1>1 DEF SessionInv, TypeOK, LiveToken
  <1>6. LiveTokens(tab) \subseteq LiveTokens(devices) \cup {n}
    <2>1. ASSUME NEW e \in Device, LiveToken(tab, e) # NoToken
          PROVE  LiveToken(tab, e) \in LiveTokens(devices) \cup {n}
      <3>1. CASE e = d
        BY <1>5, <2>1, <3>1
      <3>2. CASE e # d
        BY <1>5, <2>1, <3>2 DEF LiveTokens
      <3> QED BY <3>1, <3>2
    <2> QED BY <2>1 DEF LiveTokens
  <1>7. LiveTokens(tab) \cap spent = {}
    BY <1>3, <1>6 DEF SessionInv, HistoryInv
  <1>8. LiveDevices(tab) \cap closed = {}
    BY <1>5 DEF LiveDevices, SessionInv, HistoryInv
  <1>9. /\ devices' = tab /\ devices' \in Table
        /\ spent' \subseteq Token /\ closed' \subseteq Device
        /\ spent \subseteq spent' /\ closed \subseteq closed'
        /\ spent' \subseteq spent \cup LiveTokens(devices)
        /\ closed' \subseteq closed \cup LiveDevices(devices)
        /\ spent \cup LiveTokens(devices) \subseteq spent' \cup LiveTokens(devices')
        /\ LiveTokens(devices') \cap spent' = {}
        /\ LiveDevices(devices') \cap closed' = {}
    BY <1>1, <1>7, <1>8, WriteFacts
  <1>10. TypeOK'
    BY <1>1, <1>2, <1>9 DEF TypeOK, ReqType, Table
  <1>11. prev # NoToken => prev # n /\ prev \in spent'
    <2>1. ASSUME prev # NoToken PROVE prev \notin LiveTokens(tab)
      <3>1. prev # n
        BY <1>3, <1>4, <2>1
      <3>2. ASSUME NEW e \in Device \ {d} PROVE LiveToken(tab, e) # prev
        <4>1. ASSUME LiveToken(tab, e) = prev PROVE FALSE
          <5>1. LiveToken(devices, e) = prev /\ e \in Rows /\ devices[e].refresh_jti = prev
            BY <1>5, <2>1, <4>1 DEF LiveToken, Rows
          <5> QED BY <2>1, <5>1 DEF SessionInv, RowInv, Minted
        <4> QED BY <4>1
      <3> QED BY <1>5, <2>1, <3>1, <3>2 DEF LiveTokens
    <2> QED BY <1>3, <1>4, <1>9, <2>1
  <1>12. Rows' = Rows \cup {d}
    BY <1>1, <1>5, <1>9 DEF Rows
  <1>13. \A e \in Rows' \ {d} : e \in Rows /\ devices'[e] = devices[e]
    BY <1>5, <1>9, <1>12
  <1>14. RowInv'
    <2>1. ASSUME NEW e \in Rows, e # d
          PROVE  /\ Minted(devices[e].refresh_jti, e)'
                 /\ devices'[e] = devices[e]
                 /\ devices[e].previous_refresh_jti # devices[e].refresh_jti
                 /\ devices[e].previous_refresh_jti # NoToken =>
                      /\ Minted(devices[e].previous_refresh_jti, e)'
                      /\ devices[e].previous_refresh_jti \in spent'
      <3>1. devices'[e] = devices[e] /\ spent \subseteq spent'
        BY <1>9, <1>12, <1>13, <2>1
      <3> QED BY <3>1 DEF SessionInv, RowInv, Minted
    <2>2. /\ Minted(n, d) /\ prev # n
          /\ prev # NoToken => Minted(prev, d) /\ prev \in spent'
      BY <1>3, <1>4, <1>11
    <2>3. devices'[d] = row
      BY <1>5, <1>9
    <2> SUFFICES ASSUME NEW e \in Rows'
                 PROVE  /\ Minted(devices[e].refresh_jti, e)'
                        /\ devices'[e].previous_refresh_jti # devices'[e].refresh_jti
                        /\ devices'[e].previous_refresh_jti # NoToken =>
                             /\ Minted(devices[e].previous_refresh_jti, e)'
                             /\ devices'[e].previous_refresh_jti \in spent'
      BY DEF RowInv
    <2>4. CASE e = d
      BY <2>2, <2>3, <2>4 DEF Minted
    <2>5. CASE e # d
      BY <1>12, <2>1, <2>5 DEF Minted
    <2> QED BY <2>4, <2>5
  <1>15. HistoryInv'
    <2>1. UNCHANGED <<FreshTokens, FreshDevices>>
      BY DEF FreshTokens, FreshDevices
    <2> QED BY <1>9, <2>1, LiveRows DEF HistoryInv, SessionInv
  <1>16. PendingInv'
    <2>1. ~Committing(r)'
      BY <1>2 DEF Committing, At, Idle
    <2>2. ASSUME NEW q \in Request \ {r}, Committing(q)' PROVE CommitOK(q)'
      <3>1. Committing(q) /\ CommitOK(q) /\ Distinct(q, r)
        BY <1>2, <2>2 DEF SessionInv, PendingInv, Committing, At
      <3>2. req[q].new \notin spent'
        BY <1>9, <3>1, LiveRows DEF CommitOK
      <3>3. \A e \in Rows' : devices'[e].refresh_jti # req[q].new
        BY <1>5, <1>9, <1>13, <3>1 DEF CommitOK, Distinct
      <3>4. At(q, "login_commit") => req[q].dev \notin Rows' \cup closed'
        BY <1>9, <1>12, <3>1, LiveRows DEF CommitOK, Distinct
      <3> QED BY <1>2, <3>1, <3>2, <3>3, <3>4 DEF CommitOK, At, Minted
    <2>3. \A p, q \in Request : p # q => Distinct(p, q)'
      BY <1>2, <2>1 DEF SessionInv, PendingInv, Distinct, Committing, At
    <2> QED BY <2>1, <2>2, <2>3 DEF PendingInv, CommitOK, Committing
  <1>17. RequestInv'
    <2>1. RequestOK(r)'
      BY <1>2 DEF RequestOK, At, Idle
    <2>2. ASSUME NEW q \in Request \ {r} PROVE RequestOK(q)'
      BY <1>2, <1>9, OthersStay DEF Minted
    <2> QED BY <2>1, <2>2 DEF RequestInv
  <1> QED BY <1>10, <1>14, <1>15, <1>16, <1>17 DEF SessionInv

-----------------------------------------------------------------------------
(* The invariant.                                                          *)

\* Nothing is paired, minted or under way at the start.
LEMMA InvInit == Init => SessionInv
  <1> SUFFICES ASSUME Init PROVE SessionInv
    OBVIOUS
  <1>1. TypeOK
    BY IdleType DEF Init, TypeOK, ReqType
  <1>2. Rows = {} /\ LiveDevices(devices) = {}
    BY DEF Init, Rows, LiveDevices, LiveToken
  <1>3. \A r \in Request : req[r].pc = "idle"
    BY DEF Init, Idle
  <1> QED
    BY <1>1, <1>2, <1>3
       DEF SessionInv, RowInv, HistoryInv, PendingInv, RequestInv, CommitOK, Distinct,
           Committing, RequestOK, At, Init

\* The deletion of a user narrows the table.
LEMMA DeleteNarrows ==
  ASSUME TypeOK, NEW u,
         NEW tab, tab = [d \in Device |-> IF d \in Rows /\ devices[d].user_id = u
                                          THEN NoRow ELSE devices[d]]
  PROVE  tab \in Table /\ Narrows(tab)
  BY DEF TypeOK, Table, Narrows

\* Every handler's every step, the crash included, preserves the invariant.
LEMMA InvStep == SessionInv /\ [Next]_vars => SessionInv'
  <1> SUFFICES ASSUME SessionInv, [Next]_vars PROVE SessionInv'
    OBVIOUS
  <1>t. TypeOK
    BY DEF SessionInv
  <1>1. ASSUME NEW r \in Request, NEW u \in User, Login(r, u) PROVE SessionInv'
    <2> DEFINE rec == [Idle EXCEPT !.pc = "login_flush", !.user = u]
    <2>1. rec \in ReqType /\ rec.pc = "login_flush" /\ rec.user = u
      BY DEF Idle, ReqType, Steps
    <2>2. Put(r, rec) /\ Quiet
      BY <1>1 DEF Login, Quiet
    <2> HIDE DEF rec
    <2>3. RequestOK(r)'
      BY <1>t, <2>1, <2>2, PutFacts DEF RequestOK, At
    <2> QED BY <2>1, <2>2, <2>3, ReadStep
  <1>2. ASSUME NEW r \in Request, NEW u \in User, RevokeDevices(r, u) PROVE SessionInv'
    <2> DEFINE S == {d \in Device : Active(d) /\ devices[d].user_id = u}
               rec == [Idle EXCEPT !.pc = "revoke_commit", !.rows = S]
    <2>0. S \in SUBSET Device
      OBVIOUS
    <2>1. Put(r, rec) /\ Quiet
      BY <1>2 DEF RevokeDevices, Quiet
    <2> HIDE DEF S
    <2>2. rec \in ReqType /\ rec.pc = "revoke_commit"
      BY <2>0 DEF Idle, ReqType, Steps
    <2> HIDE DEF rec
    <2>3. RequestOK(r)'
      BY <1>t, <2>1, <2>2, PutFacts DEF RequestOK, At
    <2> QED BY <2>1, <2>2, <2>3, ReadStep
  <1>3. ASSUME NEW r \in Request, NEW u \in User, DeleteUser(r, u) PROVE SessionInv'
    <2> DEFINE rec == [Idle EXCEPT !.pc = "delete_commit", !.user = u]
    <2>1. rec \in ReqType /\ rec.pc = "delete_commit"
      BY DEF Idle, ReqType, Steps
    <2>2. Put(r, rec) /\ Quiet
      BY <1>3 DEF DeleteUser, Quiet
    <2> HIDE DEF rec
    <2>3. RequestOK(r)'
      BY <1>t, <2>1, <2>2, PutFacts DEF RequestOK, At
    <2> QED BY <2>1, <2>2, <2>3, ReadStep
  <1>4. ASSUME NEW r \in Request, NEW t \in Token, Present(r, t) PROVE SessionInv'
    <2> DEFINE rec == [Idle EXCEPT !.pc = "refresh_find", !.tok = t, !.late = WasSpent(t)]
    <2>1. /\ rec \in ReqType /\ rec.pc = "refresh_find"
          /\ rec.tok = t /\ rec.late = WasSpent(t)
      BY GhostType DEF Idle, ReqType, Steps
    <2>2. Put(r, rec) /\ Quiet
      BY <1>4 DEF Present, Quiet
    <2> HIDE DEF rec
    <2>3. RequestOK(r)'
      BY <1>t, <2>1, <2>2, PutFacts DEF RequestOK, At, WasSpent, Quiet
    <2> QED BY <2>1, <2>2, <2>3, ReadStep
  <1>5. ASSUME NEW r \in Request, NEW t \in Token, Logout(r, t) PROVE SessionInv'
    <2> DEFINE did == issued[t].did
               step == IF did = NoDevice THEN "logout_commit" ELSE "logout_device"
               rec == [Idle EXCEPT !.pc = step, !.tok = t, !.user = issued[t].sub,
                                   !.dev = did, !.late = WasClosed(did)]
    <2>0. /\ did \in Device \cup {NoDevice} /\ issued[t].sub \in User
          /\ WasClosed(NoDevice) = FALSE
      BY <1>5, <1>t, SentinelAssumption DEF Logout, TypeOK, Pair, WasClosed
    <2>1. Put(r, rec) /\ Quiet
      BY <1>5 DEF Logout, Quiet
    <2> HIDE DEF did
    <2>2. /\ rec \in ReqType /\ rec.pc = step
          /\ rec.dev = did /\ rec.late = WasClosed(did)
      BY <2>0, GhostType DEF Idle, ReqType, Steps
    <2> HIDE DEF rec
    <2>3. RequestOK(r)'
      <3>1. CASE did = NoDevice
        BY <3>1, <1>t, <2>0, <2>1, <2>2, PutFacts DEF RequestOK, At
      <3>2. CASE did # NoDevice
        BY <3>2, <1>t, <2>0, <2>1, <2>2, PutFacts DEF RequestOK, At, WasClosed, Quiet
      <3> QED BY <3>1, <3>2
    <2> QED BY <2>1, <2>2, <2>3, ReadStep
  <1>6. ASSUME NEW r \in Request, NEW t \in Token, NEW d \in Device, PresentReused(r, t, d)
        PROVE  SessionInv'
    <2> DEFINE rec == [Idle EXCEPT !.pc = "refresh_reuse", !.tok = t, !.dev = d,
                                   !.late = WasSpent(t)]
    <2>1. /\ rec \in ReqType /\ rec.pc = "refresh_reuse"
          /\ rec.dev = d /\ rec.late = WasSpent(t)
      BY GhostType DEF Idle, ReqType, Steps
    <2>2. Put(r, rec) /\ Quiet
      BY <1>6 DEF PresentReused, Quiet
    <2>3. t \in spent
      BY <1>6, SentinelAssumption DEF PresentReused, Active, SessionInv, RowInv, Rows
    <2> HIDE DEF rec
    <2>4. RequestOK(r)'
      BY <1>t, <2>1, <2>2, <2>3, PutFacts DEF RequestOK, At, WasSpent
    <2> QED BY <2>1, <2>2, <2>4, ReadStep
  <1>7. ASSUME NEW r \in Request, LoginFlush(r) PROVE SessionInv'
    <2>1. PICK d \in FreshDevices, t \in FreshTokens :
            /\ issued' = [issued EXCEPT ![t] = [sub |-> req[r].user, did |-> d, of |-> d]]
            /\ Put(r, [req[r] EXCEPT !.pc = "login_commit", !.dev = d, !.new = t])
      BY <1>7 DEF LoginFlush
    <2> DEFINE p == [sub |-> req[r].user, did |-> d, of |-> d]
               rec == [req[r] EXCEPT !.pc = "login_commit", !.dev = d, !.new = t]
    <2>2. d \in Device /\ t \in Token /\ req[r].user \in User
      BY <1>7, <1>t DEF LoginFlush, TypeOK, FreshDevices, FreshTokens
    <2>3. p \in Pair /\ p.of = d
      BY <2>2 DEF Pair
    <2>4. /\ rec \in ReqType /\ rec.pc = "login_commit" /\ rec.dev = d
          /\ rec.new = t /\ rec.user = req[r].user
      BY <1>t, <2>2 DEF TypeOK, ReqType, Steps
    <2> HIDE DEF p, rec
    <2>5. issued' = [issued EXCEPT ![t] = p] /\ Put(r, rec)
      BY <2>1 DEF p, rec
    <2>6. UNCHANGED <<users, devices, spent, closed>>
      BY <1>7 DEF LoginFlush
    <2>7. RequestOK(r)'
      BY <1>t, <2>4, <2>5, PutFacts DEF RequestOK, At
    <2> QED BY <2>2, <2>3, <2>4, <2>5, <2>6, <2>7, MintStep
  <1>8. ASSUME NEW r \in Request, End(r), Quiet PROVE SessionInv'
    <2>1. Idle.pc = "idle"
      BY DEF Idle
    <2>2. RequestOK(r)'
      BY <1>8, <1>t, <2>1, IdleType, PutFacts DEF End, RequestOK, At
    <2> QED BY <1>8, <2>1, <2>2, IdleType, ReadStep DEF End
  <1>9. ASSUME NEW r \in Request, LoginCommit(r) PROVE SessionInv'
    <2> DEFINE d == req[r].dev
               row == NewRow(req[r].user, req[r].new)
    <2>1. Committing(r)
      BY <1>9 DEF LoginCommit, Committing
    <2>2. /\ d \in Device /\ d \notin closed
          /\ req[r].user \in User /\ req[r].new \in Token
      BY <1>9, <2>1 DEF LoginCommit, SessionInv, PendingInv, CommitOK
    <2>3. /\ row \in Row /\ row.refresh_jti = req[r].new
          /\ row.previous_refresh_jti = NoToken
      BY <2>2 DEF NewRow, Row
    <2>4. Write([devices EXCEPT ![d] = row]) /\ End(r) /\ UNCHANGED <<users, issued>>
      BY <1>9 DEF LoginCommit
    <2>5. At(r, "login_commit")
      BY <1>9 DEF LoginCommit
    <2> HIDE DEF row, d
    <2> QED BY <2>1, <2>2, <2>3, <2>4, <2>5, CommitStep DEF d
  <1>10. ASSUME NEW r \in Request, RefreshReuse(r) PROVE SessionInv'
    <2> DEFINE rec == IF req[r].dev \in Rows THEN [req[r] EXCEPT !.pc = "refused"] ELSE Idle
    <2>1. rec \in ReqType /\ rec.pc \in {"idle", "refused"}
      BY <1>t, IdleType DEF TypeOK, ReqType, Steps, Idle
    <2>2. Put(r, rec)
      BY <1>10 DEF RefreshReuse, Goto, End
    <2> HIDE DEF rec
    <2> QED BY <1>10, <1>t, <2>1, <2>2, NarrowType, NarrowStep DEF RefreshReuse
  <1>11. ASSUME NEW r \in Request, RefreshFind(r) PROVE SessionInv'
    <2>1. PICK d \in Device :
            /\ Active(d) /\ devices[d].refresh_jti = req[r].tok
            /\ Put(r, [req[r] EXCEPT !.pc = "refresh_user", !.dev = d,
                                     !.user = devices[d].user_id])
      BY <1>11 DEF RefreshFind
    <2> DEFINE rec == [req[r] EXCEPT !.pc = "refresh_user", !.dev = d,
                                     !.user = devices[d].user_id]
    <2>2. devices[d] \in Row /\ d \in Rows /\ ~devices[d].revoked_at
      BY <1>t, <2>1 DEF Active, TypeOK, Rows
    <2>3. devices[d].user_id \in User /\ req[r].tok \in Token
      BY <2>1, <2>2 DEF Row
    <2>4. /\ rec \in ReqType /\ rec.pc = "refresh_user" /\ rec.dev = d
          /\ rec.user \in User /\ rec.tok = req[r].tok /\ rec.late = req[r].late
      BY <1>t, <2>3 DEF TypeOK, ReqType, Steps
    <2>5. Put(r, rec) /\ Quiet
      BY <1>11, <2>1 DEF RefreshFind, Quiet
    <2>6. req[r].tok \in LiveTokens(devices) /\ Minted(req[r].tok, d)
      BY <2>1, <2>2, <2>3, SentinelAssumption
         DEF LiveTokens, LiveToken, SessionInv, RowInv, Rows
    <2>7. ~req[r].late
      BY <1>11, <2>6 DEF RefreshFind, SessionInv, HistoryInv, RequestInv, RequestOK
    <2> HIDE DEF rec
    <2>8. UNCHANGED <<spent, LiveTokens(devices), issued>>
      BY <2>5 DEF Quiet, LiveTokens, LiveToken
    <2>9. RequestOK(r)'
      BY <1>t, <2>4, <2>5, <2>6, <2>7, <2>8, PutFacts DEF RequestOK, At, Minted
    <2> QED BY <2>4, <2>5, <2>9, ReadStep
  <1>12. ASSUME NEW r \in Request, Goto(r, "refused"), Quiet PROVE SessionInv'
    <2> DEFINE rec == [req[r] EXCEPT !.pc = "refused"]
    <2>1. rec \in ReqType /\ rec.pc = "refused"
      BY <1>t DEF TypeOK, ReqType, Steps
    <2>2. Put(r, rec)
      BY <1>12 DEF Goto
    <2> HIDE DEF rec
    <2>3. RequestOK(r)'
      BY <1>t, <2>1, <2>2, PutFacts DEF RequestOK, At
    <2> QED BY <1>12, <2>1, <2>2, <2>3, ReadStep
  <1>13. ASSUME NEW r \in Request, RefreshUser(r) PROVE SessionInv'
    <2>1. PICK t \in FreshTokens :
            /\ issued' = [issued EXCEPT ![t] =
                            [sub |-> req[r].user, did |-> NoDevice, of |-> req[r].dev]]
            /\ Put(r, [req[r] EXCEPT !.pc = "refresh_commit", !.new = t])
      BY <1>13 DEF RefreshUser
    <2> DEFINE p == [sub |-> req[r].user, did |-> NoDevice, of |-> req[r].dev]
               rec == [req[r] EXCEPT !.pc = "refresh_commit", !.new = t]
    <2>2. /\ t \in Token /\ issued[t] = NoPair /\ req[r].user \in User /\ req[r].dev \in Device
          /\ req[r].tok \in spent \cup LiveTokens(devices)
          /\ Minted(req[r].tok, req[r].dev) /\ ~req[r].late
      BY <1>13 DEF RefreshUser, FreshTokens, SessionInv, RequestInv, RequestOK
    <2>3. p \in Pair /\ p.of = req[r].dev
      BY <2>2 DEF Pair
    <2>4. /\ rec \in ReqType /\ rec.pc = "refresh_commit" /\ rec.dev = req[r].dev
          /\ rec.new = t /\ rec.user = req[r].user /\ rec.tok = req[r].tok
          /\ rec.late = req[r].late
      BY <1>t, <2>2 DEF TypeOK, ReqType, Steps
    <2> HIDE DEF p, rec
    <2>5. issued' = [issued EXCEPT ![t] = p] /\ Put(r, rec)
      BY <2>1 DEF p, rec
    <2>6. UNCHANGED <<users, devices, spent, closed>>
      BY <1>13 DEF RefreshUser
    <2>7. UNCHANGED LiveTokens(devices)
      BY <2>6 DEF LiveTokens, LiveToken
    <2>8. req[r].tok \in Token
      BY <1>t, <2>2, LiveTokensType DEF TypeOK, Table
    <2>9. Minted(req[r].tok, req[r].dev) /\ issued'[req[r].tok] = issued[req[r].tok]
      BY <1>t, <2>2, <2>5, <2>8 DEF TypeOK, Minted
    <2>10. RequestOK(r)'
      BY <1>t, <2>2, <2>4, <2>5, <2>6, <2>7, <2>9, PutFacts DEF RequestOK, At, Minted
    <2> QED BY <2>2, <2>3, <2>4, <2>5, <2>6, <2>10, MintStep
  <1>15. ASSUME NEW r \in Request, RefreshCommit(r) PROVE SessionInv'
    <2> DEFINE d == req[r].dev
               row == Rotate(devices[d], req[r].tok, req[r].new)
    <2>1. Committing(r)
      BY <1>15 DEF RefreshCommit, Committing
    <2>2. /\ d \in Device /\ req[r].new \in Token
          /\ req[r].tok \in spent \cup LiveTokens(devices)
          /\ Minted(req[r].tok, d)
      BY <1>15, <2>1 DEF RefreshCommit, SessionInv, PendingInv, CommitOK, RequestInv, RequestOK
    <2>3. CASE d \in Rows
      <3>1. devices[d] \in Row /\ req[r].tok \in Token
        BY <1>t, <2>2, <2>3, LiveTokensType DEF TypeOK, Table, Rows
      <3>2. /\ row \in Row /\ row.refresh_jti = req[r].new
            /\ row.previous_refresh_jti = req[r].tok
            /\ row.revoked_at = devices[d].revoked_at
        BY <2>2, <3>1 DEF Rotate, Row
      <3>3. Write([devices EXCEPT ![d] = row]) /\ End(r) /\ UNCHANGED <<users, issued>>
        BY <1>15, <2>3 DEF RefreshCommit
      <3>4. d \notin closed \/ row.revoked_at
        <4>1. ASSUME ~devices[d].revoked_at PROVE d \in LiveDevices(devices)
          BY <2>2, <2>3, <3>1, <4>1, SentinelAssumption DEF LiveDevices, LiveToken, Rows, Row
        <4> QED BY <3>2, <4>1 DEF SessionInv, HistoryInv
      <3> HIDE DEF row, d
      <3> QED BY <2>1, <2>2, <2>3, <3>2, <3>3, <3>4, CommitStep DEF d
    <2>4. CASE d \notin Rows
      <3>1. Write(devices) /\ End(r) /\ UNCHANGED <<users, issued>>
        BY <1>15, <2>4 DEF RefreshCommit
      <3>2. Quiet
        BY <3>1 DEF Write, Quiet
      <3> QED BY <1>8, <3>1, <3>2
    <2> QED BY <2>3, <2>4
  <1>17. ASSUME NEW r \in Request, LogoutDevice(r) PROVE SessionInv'
    <2>1. Quiet
      BY <1>17 DEF LogoutDevice, Quiet
    <2>2. CASE Active(req[r].dev)
      <3> DEFINE rec == [req[r] EXCEPT !.pc = "logout_commit"]
      <3>1. rec \in ReqType /\ rec.pc = "logout_commit" /\ rec.late = req[r].late
        BY <1>t DEF TypeOK, ReqType, Steps
      <3>2. Put(r, rec)
        BY <1>17, <2>2 DEF LogoutDevice, Goto
      <3>3. req[r].dev \in Device
        BY <1>17 DEF LogoutDevice, SessionInv, RequestInv, RequestOK
      <3>4. req[r].dev \in LiveDevices(devices)
        BY <1>t, <2>2, <3>3, SentinelAssumption
           DEF Active, LiveDevices, LiveToken, TypeOK, Row
      <3>5. ~req[r].late
        BY <1>17, <3>4 DEF LogoutDevice, SessionInv, HistoryInv, RequestInv, RequestOK
      <3> HIDE DEF rec
      <3>6. RequestOK(r)'
        BY <1>t, <3>1, <3>2, <3>5, PutFacts DEF RequestOK, At
      <3> QED BY <2>1, <3>1, <3>2, <3>6, ReadStep
    <2>3. CASE ~Active(req[r].dev)
      BY <1>8, <1>17, <2>1, <2>3 DEF LogoutDevice
    <2> QED BY <2>2, <2>3
  <1>18. ASSUME NEW r \in Request, NEW S, Write(RevokeRows(S)), End(r),
                UNCHANGED <<users, issued>>
         PROVE  SessionInv'
    <2>1. Put(r, Idle) /\ Idle.pc = "idle"
      BY <1>18 DEF End, Idle
    <2> QED BY <1>18, <1>t, <2>1, IdleType, NarrowType, NarrowStep
  <1>20. ASSUME NEW r \in Request, DeleteCommit(r) PROVE SessionInv'
    <2> DEFINE tab == [d \in Device |-> IF d \in Rows /\ devices[d].user_id = req[r].user
                                        THEN NoRow ELSE devices[d]]
    <2>1. tab \in Table /\ Narrows(tab)
      BY <1>t, DeleteNarrows
    <2>2. Write(tab) /\ users' \subseteq users /\ UNCHANGED issued /\ Put(r, Idle)
      BY <1>20 DEF DeleteCommit, End
    <2>3. Idle.pc = "idle"
      BY DEF Idle
    <2> HIDE DEF tab
    <2> QED BY <2>1, <2>2, <2>3, IdleType, NarrowStep
  <1>21. CASE UNCHANGED vars
    BY <1>21 DEF vars, SessionInv, TypeOK, RowInv, HistoryInv, PendingInv, RequestInv,
       CommitOK, Distinct, Committing, RequestOK, At, Rows, Minted, LiveTokens,
       LiveDevices, LiveToken, FreshTokens, FreshDevices
  <1>22. ASSUME NEW r \in Request, Arrive(r) PROVE SessionInv'
    BY <1>22, <1>1, <1>2, <1>3, <1>4, <1>5, <1>6 DEF Arrive
  <1>23. ASSUME NEW r \in Request, LoginOrphan(r) \/ Answer(r) \/ Rollback(r) PROVE SessionInv'
    BY <1>23, <1>8 DEF LoginOrphan, Answer, Rollback, Quiet
  <1>24. ASSUME NEW r \in Request, RefreshNotFound(r) \/ RefreshNoUser(r) PROVE SessionInv'
    BY <1>24, <1>12 DEF RefreshNotFound, RefreshNoUser, Quiet
  <1>25. ASSUME NEW r \in Request, LogoutCommit(r) \/ RevokeCommit(r) PROVE SessionInv'
    BY <1>25, <1>18 DEF LogoutCommit, RevokeCommit
  <1> QED
    BY <1>7, <1>9, <1>10, <1>11, <1>13, <1>15, <1>17, <1>20, <1>21, <1>22, <1>23, <1>24, <1>25
       DEF Next, Proceed

\* No interleaving of logins, rotations, logouts, revocations, deletions and
\* crashes leaves the typed, disjoint bookkeeping of tokens and devices.
THEOREM SessionInvariant == Spec => []SessionInv
  BY InvInit, InvStep, PTL DEF Spec

\* The program stores no value outside the type of its column or its local.
THEOREM TypeCorrect == Spec => []TypeOK
  <1>1. SessionInv => TypeOK
    BY DEF SessionInv
  <1> QED BY <1>1, SessionInvariant, PTL

\* The two lookups of refresh find at most one row, and never the same row by
\* both columns, for any number of concurrent rotations.
THEOREM TokensNameOneDevice == Spec => []TokenNamesOneDevice
  <1>1. SessionInv => TokenNamesOneDevice
    <2> SUFFICES ASSUME SessionInv, NEW d \in Rows, NEW e \in Rows
                 PROVE  /\ devices[d].refresh_jti # devices[e].previous_refresh_jti
                        /\ d # e => devices[d].refresh_jti # devices[e].refresh_jti
                        /\ d # e /\ devices[d].previous_refresh_jti # NoToken =>
                             devices[d].previous_refresh_jti # devices[e].previous_refresh_jti
      BY DEF TokenNamesOneDevice
    <2>1. devices[d] \in Row /\ devices[d].refresh_jti # NoToken
      BY SentinelAssumption DEF SessionInv, TypeOK, Rows, Row
    <2> QED BY <2>1 DEF SessionInv, RowInv, Minted
  <1> QED BY <1>1, SessionInvariant, PTL

\* The device of a token that is still current is never revoked for reuse.
THEOREM ReuseNeedsSpentToken == Spec => []OnlySpentTokensRevoke
  <1>1. SessionInv => OnlySpentTokensRevoke
    BY DEF SessionInv, RequestInv, RequestOK, OnlySpentTokensRevoke
  <1> QED BY <1>1, SessionInvariant, PTL

\* A credential withdrawn before it was presented is not honoured by refresh,
\* nor by the device check of get_current_user.
THEOREM DeadCredentials == Spec => []DeadCredentialNeverServed
  <1>1. SessionInv => DeadCredentialNeverServed
    BY DEF SessionInv, RequestInv, RequestOK, DeadCredentialNeverServed
  <1> QED BY <1>1, SessionInvariant, PTL

-----------------------------------------------------------------------------
(* The device table implements SessionContract.                            *)

Live == [d \in Device |-> LiveToken(devices, d)]

\* The refinement mapping, named.
LEMMA ContractView ==
  /\ Contract!InUse = LiveTokens(devices)
  /\ Contract!OpenSessions = LiveDevices(devices)
  BY DEF Contract!InUse, Contract!OpenSessions, LiveTokens, LiveDevices

\* A live token is the token of one device only.
LEMMA LiveTokenUnique ==
  ASSUME SessionInv, NEW d \in Device, NEW e \in Device,
         LiveToken(devices, d) # NoToken, LiveToken(devices, d) = LiveToken(devices, e)
  PROVE  d = e
  BY DEF LiveToken, SessionInv, RowInv, Rows, Minted

\* A table in which nothing is narrowed but revoked or missing rows is a stutter.
LEMMA SameLive ==
  ASSUME NEW tab, Write(tab), \A d \in Device : LiveToken(tab, d) = LiveToken(devices, d)
  PROVE  UNCHANGED Contract!vars
  BY DEF Write, LiveTokens, LiveDevices, Contract!vars

\* Narrowing closes the sessions whose row it removed or revoked.
LEMMA NarrowCloses ==
  ASSUME SessionInv, NEW tab \in Table, Narrows(tab), Write(tab)
  PROVE  Contract!Next
  <1> DEFINE S == LiveDevices(devices) \ LiveDevices(tab)
  <1>1. ASSUME NEW d \in Device
        PROVE  LiveToken(tab, d) = IF d \in S THEN NoToken ELSE LiveToken(devices, d)
    <2>1. LiveToken(tab, d) # NoToken => LiveToken(tab, d) = LiveToken(devices, d)
      BY DEF Narrows, LiveToken
    <2> QED BY <2>1 DEF LiveDevices
  <1>2. LiveTokens(devices) \ LiveTokens(tab) = {LiveToken(devices, d) : d \in S}
    <2>1. ASSUME NEW d \in S PROVE LiveToken(devices, d) \in LiveTokens(devices) \ LiveTokens(tab)
      <3>1. d \in Device /\ LiveToken(devices, d) # NoToken
        BY DEF LiveDevices
      <3>2. ASSUME NEW e \in Device, LiveToken(tab, e) = LiveToken(devices, d) PROVE FALSE
        <4>1. e \notin S /\ LiveToken(devices, e) = LiveToken(devices, d)
          BY <1>1, <3>1, <3>2
        <4> QED BY <3>1, <4>1, LiveTokenUnique
      <3> QED BY <3>1, <3>2 DEF LiveTokens
    <2>2. ASSUME NEW t \in LiveTokens(devices) \ LiveTokens(tab)
          PROVE  \E d \in S : t = LiveToken(devices, d)
      <3>1. PICK d \in Device : t = LiveToken(devices, d) /\ t # NoToken
        BY DEF LiveTokens
      <3>2. d \in S
        BY <1>1, <3>1 DEF LiveTokens, LiveDevices
      <3> QED BY <3>1, <3>2
    <2> QED BY <2>1, <2>2
  <1>3. S \in SUBSET Device /\ S \subseteq LiveDevices(devices)
    BY DEF LiveDevices
  <1>4. closed' = closed \cup S /\ devices' = tab
        /\ spent' = spent \cup {LiveToken(devices, d) : d \in S}
    BY <1>2 DEF Write
  <1> HIDE DEF S
  <1>5. Live' = [d \in Device |-> IF d \in S THEN NoToken ELSE LiveToken(devices, d)]
    BY <1>1, <1>4 DEF Live
  <1>6. {Live[d] : d \in S} = {LiveToken(devices, d) : d \in S}
    BY <1>3 DEF Live
  <1>7. [d \in Device |-> IF d \in S THEN NoToken ELSE LiveToken(devices, d)]
          = [d \in Device |-> IF d \in S THEN NoToken ELSE Live[d]]
    BY DEF Live
  <1>8. Contract!Close(S)
    BY <1>3, <1>4, <1>5, <1>6, <1>7, ContractView DEF Contract!Close, Live
  <1> QED BY <1>3, <1>8 DEF Contract!Next

\* Writing token t as the live token of d, and changing no other row, opens or
\* exchanges the session d.
LEMMA CommitExchanges ==
  ASSUME SessionInv, NEW d \in Device, NEW t \in Token, t \notin spent \cup LiveTokens(devices),
         LiveToken(devices, d) = NoToken => d \notin closed,
         NEW tab, Write(tab), LiveToken(tab, d) = t,
         \A e \in Device \ {d} : LiveToken(tab, e) = LiveToken(devices, e)
  PROVE  Contract!Next
  <1>1. Live' = [Live EXCEPT ![d] = t]
    BY DEF Live, Write
  <1>2. closed' = closed
    BY SentinelAssumption DEF Write, LiveDevices
  <1>3. Live[d] = LiveToken(devices, d)
    BY DEF Live
  <1>4. CASE LiveToken(devices, d) = NoToken
    <2>1. LiveTokens(devices) \subseteq LiveTokens(tab)
      BY <1>4 DEF LiveTokens
    <2>2. spent' = spent
      BY <2>1 DEF Write
    <2>3. Contract!Open(d, t)
      BY <1>1, <1>2, <1>3, <1>4, <2>2, ContractView DEF Contract!Open, Live
    <2> QED BY <2>3 DEF Contract!Next
  <1>5. CASE LiveToken(devices, d) # NoToken
    <2>1. LiveToken(devices, d) \in LiveTokens(devices) /\ LiveToken(devices, d) # t
      BY <1>5 DEF LiveTokens
    <2>2. LiveToken(devices, d) \notin LiveTokens(tab)
      <3>1. ASSUME NEW e \in Device \ {d} PROVE LiveToken(tab, e) # LiveToken(devices, d)
        BY <1>5, LiveTokenUnique
      <3> QED BY <2>1, <3>1 DEF LiveTokens
    <2>3. LiveTokens(devices) \ {LiveToken(devices, d)} \subseteq LiveTokens(tab)
      <3>1. ASSUME NEW e \in Device \ {d}, LiveToken(devices, e) # NoToken
            PROVE  LiveToken(devices, e) \in LiveTokens(tab)
        <4>1. LiveToken(tab, e) = LiveToken(devices, e)
          OBVIOUS
        <4> QED BY <3>1, <4>1 DEF LiveTokens
      <3> QED BY <3>1 DEF LiveTokens
    <2>4. spent' = spent \cup {LiveToken(devices, d)}
      BY <2>1, <2>2, <2>3 DEF Write
    <2>5. Contract!Exchange(d, t)
      BY <1>1, <1>2, <1>3, <1>5, <2>4, ContractView DEF Contract!Exchange, Live
    <2> QED BY <2>5 DEF Contract!Next
  <1> QED BY <1>4, <1>5

\* The empty table maps to the contract's initial state.
LEMMA ContractInit == Init => Contract!Init
  BY DEF Init, Contract!Init, LiveToken

\* A commit maps to Open, Exchange or Close; every other step is a stutter.
LEMMA ContractStep == SessionInv /\ [Next]_vars => [Contract!Next]_(Contract!vars)
  <1> SUFFICES ASSUME SessionInv, [Next]_vars PROVE [Contract!Next]_(Contract!vars)
    OBVIOUS
  <1>t. TypeOK
    BY DEF SessionInv
  <1>1. ASSUME UNCHANGED <<devices, spent, closed>> PROVE UNCHANGED Contract!vars
    BY <1>1 DEF Contract!vars
  <1>2. ASSUME NEW S, Write(RevokeRows(S)) PROVE Contract!Next
    BY <1>2, <1>t, NarrowType, NarrowCloses
  <1>3. ASSUME NEW r \in Request, LoginCommit(r) PROVE Contract!Next
    <2> DEFINE d == req[r].dev
               row == NewRow(req[r].user, req[r].new)
               tab == [devices EXCEPT ![d] = row]
    <2>1. Write(tab)
      BY <1>3 DEF LoginCommit
    <2>2. /\ d \in Device /\ d \notin Rows \cup closed
          /\ req[r].user \in User /\ req[r].new \in Token \ spent
          /\ \A e \in Rows : devices[e].refresh_jti # req[r].new
      BY <1>3 DEF LoginCommit, SessionInv, PendingInv, CommitOK, Committing
    <2>3. row \in Row /\ row.refresh_jti = req[r].new /\ ~row.revoked_at
      BY <2>2 DEF NewRow, Row
    <2>4. req[r].new \notin LiveTokens(devices)
      BY <2>2, LiveRows
    <2>5. row # NoRow /\ tab[d] = row /\ \A e \in Device \ {d} : tab[e] = devices[e]
      BY <1>t, <2>2, <2>3, SentinelAssumption DEF TypeOK
    <2> HIDE DEF row, tab, d
    <2>6. /\ LiveToken(tab, d) = req[r].new
          /\ \A e \in Device \ {d} : LiveToken(tab, e) = LiveToken(devices, e)
      BY <2>3, <2>5 DEF LiveToken
    <2> QED BY <2>1, <2>2, <2>4, <2>6, CommitExchanges
  <1>4. ASSUME NEW r \in Request, RefreshCommit(r) PROVE [Contract!Next]_(Contract!vars)
    <2> DEFINE d == req[r].dev
               row == Rotate(devices[d], req[r].tok, req[r].new)
               tab == [devices EXCEPT ![d] = row]
    <2>1. CASE d \notin Rows
      BY <1>1, <1>4, <2>1 DEF RefreshCommit, Write
    <2>2. CASE d \in Rows
      <3>1. Write(tab)
        BY <1>4, <2>2 DEF RefreshCommit
      <3>2. /\ d \in Device /\ req[r].new \in Token \ spent
            /\ \A e \in Rows : devices[e].refresh_jti # req[r].new
            /\ req[r].tok \in Token \cup {NoToken}
        BY <1>4, <1>t DEF RefreshCommit, SessionInv, PendingInv, CommitOK, Committing, TypeOK
      <3>3. devices[d] \in Row /\ devices[d] # NoRow
        BY <1>t, <2>2 DEF TypeOK, Rows
      <3>4. /\ row \in Row /\ row.refresh_jti = req[r].new
            /\ row.revoked_at = devices[d].revoked_at
        BY <3>2, <3>3 DEF Rotate, Row
      <3>5. req[r].new \notin LiveTokens(devices)
        BY <3>2, LiveRows
      <3>6. row # NoRow /\ tab[d] = row /\ \A e \in Device \ {d} : tab[e] = devices[e]
        BY <1>t, <3>2, <3>4, SentinelAssumption DEF TypeOK
      <3> HIDE DEF row, tab, d
      <3>7. \A e \in Device \ {d} : LiveToken(tab, e) = LiveToken(devices, e)
        BY <3>6 DEF LiveToken
      <3>8. CASE devices[d].revoked_at
        <4>1. LiveToken(tab, d) = LiveToken(devices, d)
          BY <3>4, <3>6, <3>8 DEF LiveToken
        <4> QED BY <3>1, <3>7, <4>1, SameLive
      <3>9. CASE ~devices[d].revoked_at
        <4>1. LiveToken(tab, d) = req[r].new
          BY <3>4, <3>6, <3>9 DEF LiveToken
        <4>2. LiveToken(devices, d) # NoToken
          BY <3>3, <3>9, SentinelAssumption DEF LiveToken, Row
        <4> QED BY <3>1, <3>2, <3>5, <3>7, <4>1, <4>2, CommitExchanges
      <3> QED BY <3>8, <3>9
    <2> QED BY <2>1, <2>2
  <1>5. ASSUME NEW r \in Request, DeleteCommit(r) PROVE Contract!Next
    <2> DEFINE tab == [d \in Device |-> IF d \in Rows /\ devices[d].user_id = req[r].user
                                        THEN NoRow ELSE devices[d]]
    <2>1. tab \in Table /\ Narrows(tab)
      BY <1>t, DeleteNarrows
    <2>2. Write(tab)
      BY <1>5 DEF DeleteCommit
    <2> HIDE DEF tab
    <2> QED BY <2>1, <2>2, NarrowCloses
  <1>6. ASSUME NEW r \in Request, Arrive(r) PROVE UNCHANGED <<devices, spent, closed>>
    BY <1>6 DEF Arrive, Login, RevokeDevices, DeleteUser, Present, Logout, PresentReused
  <1>7. ASSUME NEW r \in Request,
               \/ LoginFlush(r) \/ LoginOrphan(r) \/ RefreshFind(r) \/ RefreshNotFound(r)
               \/ RefreshUser(r) \/ RefreshNoUser(r) \/ Answer(r) \/ LogoutDevice(r)
               \/ Rollback(r)
        PROVE  UNCHANGED <<devices, spent, closed>>
    BY <1>7 DEF LoginFlush, LoginOrphan, RefreshFind, RefreshNotFound, RefreshUser,
       RefreshNoUser, Answer, LogoutDevice, Rollback
  <1>8. ASSUME NEW r \in Request, RefreshReuse(r) \/ LogoutCommit(r) \/ RevokeCommit(r)
        PROVE  Contract!Next
    BY <1>8, <1>2 DEF RefreshReuse, LogoutCommit, RevokeCommit
  <1>9. CASE UNCHANGED vars
    BY <1>1, <1>9 DEF vars
  <1> QED BY <1>1, <1>3, <1>4, <1>5, <1>6, <1>7, <1>8, <1>9 DEF Next, Proceed

\* Every behaviour of the device sessions is one of the contract: a token that
\* was rotated away or revoked never becomes current again, and no commit of a
\* concurrent rotation reopens a device that was revoked or deleted.
THEOREM SessionsImplementContract == Spec => ImplementsContract
  BY ContractInit, ContractStep, SessionInvariant, PTL
     DEF Spec, ImplementsContract, Contract!Spec

-----------------------------------------------------------------------------
(* The same without histories.                                             *)

\* What stops being live is recorded, and what is recorded stays.
LEMMA SpentOrLive ==
  ASSUME SessionInv, [Next]_vars
  PROVE  /\ spent \subseteq spent' /\ closed \subseteq closed'
         /\ LiveTokens(devices) \subseteq (LiveTokens(devices) \cup spent)'
         /\ LiveDevices(devices) \subseteq (LiveDevices(devices) \cup closed)'
  <1> DEFINE live == [d \in Device |-> LiveToken(devices, d)]
             Recorded == /\ spent \subseteq spent' /\ closed \subseteq closed'
                         /\ \A d \in Device : live[d] # NoToken =>
                               /\ live'[d] # live[d] => live[d] \in spent'
                               /\ live'[d] = NoToken => d \in closed'
  <1>1. Recorded
    <2>1. ASSUME NEW d \in Device, NEW t \in Token, Contract!Open(d, t) PROVE Recorded
      BY <2>1 DEF Contract!Open
    <2>2. ASSUME NEW d \in Device, NEW t \in Token, Contract!Exchange(d, t) PROVE Recorded
      BY <2>2, SentinelAssumption DEF Contract!Exchange
    <2>3. ASSUME NEW S \in SUBSET Device, Contract!Close(S) PROVE Recorded
      BY <2>3 DEF Contract!Close
    <2>4. CASE UNCHANGED Contract!vars
      BY <2>4 DEF Contract!vars
    <2> QED BY <2>1, <2>2, <2>3, <2>4, ContractStep DEF Contract!Next
  <1>2. \A d \in Device : live[d] = LiveToken(devices, d) /\ live'[d] = LiveToken(devices, d)'
    OBVIOUS
  <1> HIDE DEF live
  <1> QED BY <1>1, <1>2 DEF LiveTokens, LiveDevices

InForce(t) == t \in LiveTokens(devices)
Paired(d) == d \in LiveDevices(devices)

\* A refresh token that some device answered to, and then none, is dead for good:
\* no overlapping rotation, revocation or login brings it back.
THEOREM DeadTokensStayDead ==
  ASSUME NEW CONSTANT t \in Token
  PROVE  Spec => [](InForce(t) => [](~InForce(t) => []~InForce(t)))
  <1>1. SessionInv => ~(InForce(t) /\ WasSpent(t))
    BY DEF SessionInv, HistoryInv, InForce, WasSpent
  <1>2. SessionInv /\ [Next]_vars => /\ WasSpent(t) => WasSpent(t)'
                                     /\ InForce(t) => InForce(t)' \/ WasSpent(t)'
    BY SpentOrLive DEF InForce, WasSpent
  <1> QED BY <1>1, <1>2, SessionInvariant, PTL DEF Spec

\* A paired device that was logged out, revoked or deleted never gets a session
\* again under its identifier, although rotations that read its row before commit
\* afterwards.
THEOREM ClosedDevicesStayClosed ==
  ASSUME NEW CONSTANT d \in Device
  PROVE  Spec => [](Paired(d) => [](~Paired(d) => []~Paired(d)))
  <1>1. SessionInv => ~(Paired(d) /\ WasClosed(d))
    BY DEF SessionInv, HistoryInv, Paired, WasClosed
  <1>2. SessionInv /\ [Next]_vars => /\ WasClosed(d) => WasClosed(d)'
                                     /\ Paired(d) => Paired(d)' \/ WasClosed(d)'
    BY SpentOrLive DEF Paired, WasClosed
  <1> QED BY <1>1, <1>2, SessionInvariant, PTL DEF Spec

=============================================================================
