--------------------------- MODULE SessionContract ---------------------------
(***************************************************************************)
(* What the device table promises, without requests, rows or transactions: *)
(* a session (one per paired device) holds at most one live refresh token; *)
(* a token that stopped being live never is again, and a session that was  *)
(* closed is never reopened.                                               *)
(***************************************************************************)
CONSTANTS Device, Token, NoToken

VARIABLES
    live,    \* live[d]: the token session d answers to, NoToken when it has none
    spent,   \* tokens that were live once and are not any more
    closed   \* sessions that were open once and are not any more

vars == <<live, spent, closed>>

TypeOK ==
    /\ live \in [Device -> Token \cup {NoToken}]
    /\ spent \subseteq Token
    /\ closed \subseteq Device

InUse == {live[d] : d \in Device} \ {NoToken}
OpenSessions == {d \in Device : live[d] # NoToken}

Init ==
    /\ live = [d \in Device |-> NoToken]
    /\ spent = {}
    /\ closed = {}

\* Pairing: a session that never existed gets a token nobody holds.
Open(d, t) ==
    /\ live[d] = NoToken
    /\ d \notin closed
    /\ t \notin spent \cup InUse
    /\ live' = [live EXCEPT ![d] = t]
    /\ UNCHANGED <<spent, closed>>

\* Rotation: the live token is exchanged for a new one and is spent.
Exchange(d, t) ==
    /\ live[d] # NoToken
    /\ t \notin spent \cup InUse
    /\ live' = [live EXCEPT ![d] = t]
    /\ spent' = spent \cup {live[d]}
    /\ UNCHANGED closed

\* Logout, detected reuse, an administrator's revocation, a deleted account.
Close(S) ==
    /\ S \subseteq OpenSessions
    /\ live' = [d \in Device |-> IF d \in S THEN NoToken ELSE live[d]]
    /\ spent' = spent \cup {live[d] : d \in S}
    /\ closed' = closed \cup S

Next ==
    \/ \E d \in Device, t \in Token : Open(d, t) \/ Exchange(d, t)
    \/ \E S \in SUBSET Device : Close(S)

Spec == Init /\ [][Next]_vars
=============================================================================
