------------------------------ MODULE SearchProofs ------------------------------
(***************************************************************************)
(* Proofs about Search, for any library, page size, filter and edits.      *)
(***************************************************************************)
EXTENDS Search, TagsProofs

-----------------------------------------------------------------------------
(* Pages.                                                                  *)

\* A page holds everything that is not below its last row.
LEMMA PageIsUpperPart ==
    ASSUME NEW S \in SUBSET Gif, NEW n \in Nat, NEW last \in FirstOf(S, n), NEW g \in S, last <= g
    PROVE  g \in FirstOf(S, n)
<1> DEFINE Above(x) == {h \in S : h > x}
<1>1. IsFiniteSet(S)
  BY FS_Subset, TagAssumption
<1>2. /\ IsFiniteSet(Above(last)) /\ IsFiniteSet(Above(g))
      /\ Above(g) \subseteq Above(last)
  <2>1. last \in Nat /\ g \in Nat /\ S \subseteq Nat
    BY TagAssumption DEF FirstOf
  <2>2. ASSUME NEW h \in S, h > g PROVE h > last
    BY <2>1, <2>2
  <2>3. Above(g) \subseteq Above(last)
    BY <2>2
  <2> QED BY <1>1, <2>3, FS_Subset
<1>3. /\ Cardinality(Above(g)) <= Cardinality(Above(last))
      /\ Cardinality(Above(g)) \in Nat /\ Cardinality(Above(last)) \in Nat
  BY <1>2, FS_Subset, FS_CardinalityType
<1>4. Cardinality(Above(last)) < n
  BY DEF FirstOf
<1>5. Cardinality(Above(g)) < n
  BY <1>3, <1>4
<1> QED BY <1>5 DEF FirstOf

\* When there are not more rows than fit, the page holds all of them.
LEMMA LastPageIsAll ==
    ASSUME NEW S \in SUBSET Gif, NEW n \in Nat, ~(Cardinality(S) > n), NEW g \in S
    PROVE  g \in FirstOf(S, n)
<1> DEFINE above == {h \in S : h > g}
<1>1. IsFiniteSet(S)
  BY FS_Subset, TagAssumption
<1>2. above \subseteq S \ {g}
  BY TagAssumption
<1>3. IsFiniteSet(S \ {g}) /\ Cardinality(S \ {g}) = Cardinality(S) - 1
  BY <1>1, FS_RemoveElement
<1>4. /\ Cardinality(above) <= Cardinality(S \ {g})
      /\ Cardinality(above) \in Nat /\ Cardinality(S) \in Nat
  BY <1>1, <1>2, <1>3, FS_Subset, FS_CardinalityType
<1>5. Cardinality(above) < n
  BY <1>3, <1>4
<1> QED BY <1>5 DEF FirstOf

-----------------------------------------------------------------------------
(* The inductive invariant.                                                *)

\* Nothing below the cursor has come, and all that has matched since the first
\* page and is not below it has come once.
WalkInv ==
    /\ WalkTypeOK
    /\ steady \subseteq Matching
    /\ walk = "off" => cursor = NoCursor /\ \A g \in Gif : shown[g] = 0
    /\ walk = "on" =>
          /\ cursor \in Gif
          /\ \A g \in Gif : g < cursor => shown[g] = 0
          /\ \A g \in steady : g >= cursor => shown[g] = 1
    /\ WalkShowsSteadyOnce

\* Before the first page nothing has come.
LEMMA WalkInit == Init => WalkInv
  BY DEF Init, WalkInv, WalkTypeOK, WalkShowsSteadyOnce

\* A page: what comes has not come before, since it is below the cursor; and what
\* matched all the time and is not below the next cursor comes now or has come.
LEMMA PageKeeps ==
    ASSUME WalkInv, NextPage
    PROVE  WalkInv'
<1> USE TagAssumption, SearchAssumption
<1> DEFINE page == FirstOf(Candidates, Limit)
<1>1. /\ page \subseteq Candidates /\ Candidates \subseteq Matching /\ Matching \subseteq Gif
      /\ \A g \in Candidates : cursor = NoCursor \/ g < cursor
  BY DEF FirstOf, Candidates, Matching
<1>2. \A g \in page : shown[g] = 0
  BY <1>1 DEF WalkInv, NextPage, WalkTypeOK
<1>3. /\ shown' = [g \in Gif |-> IF g \in page THEN 1 ELSE shown[g]]
      /\ steady' = IF walk = "off" THEN Matching ELSE steady
      /\ tag' = tag /\ Matching' = Matching
  BY <1>1, <1>2 DEF NextPage, tagVars, Matching
<1>4. steady' \subseteq Matching' /\ steady' \subseteq Gif
  BY <1>1, <1>3 DEF WalkInv
<1>5. \A g \in Gif : shown'[g] <= 1 /\ shown'[g] \in 0..2
  BY <1>3 DEF WalkInv, WalkTypeOK, WalkShowsSteadyOnce
<1>6. \A g \in steady' : g \in Candidates \/ (shown[g] = 1 /\ walk = "on" /\ g >= cursor)
  BY <1>1, <1>3 DEF WalkInv, Candidates, NextPage, WalkTypeOK
<1>7. CASE Cardinality(Candidates) > Limit
  <2>1. walk' = "on" /\ cursor' \in page /\ \A h \in page : cursor' <= h
    BY <1>7 DEF NextPage, LastOf
  <2>2. cursor' \in Gif
    BY <1>1, <2>1
  <2>3. ASSUME NEW g \in Gif, g < cursor' PROVE shown'[g] = 0
    <3>1. g \notin page
      <4>1. g \in Nat /\ cursor' \in Nat
        BY <2>2
      <4>2. g \in page => cursor' <= g
        BY <2>1
      <4> HIDE DEF page
      <4> QED BY <2>3, <4>1, <4>2
    <3>2. ASSUME walk = "on" PROVE g < cursor
      <4>1. cursor \in Gif /\ cursor' < cursor
        BY <1>1, <2>1, <3>2 DEF WalkInv
      <4>2. g \in Nat /\ cursor \in Nat /\ cursor' \in Nat
        BY <2>2, <4>1
      <4> HIDE DEF page
      <4> HIDE TagAssumption, SearchAssumption
      <4> QED BY <2>3, <4>1, <4>2
    <3> QED BY <1>3, <3>1, <3>2 DEF WalkInv, NextPage, WalkTypeOK
  <2>4. ASSUME NEW g \in steady', g >= cursor' PROVE shown'[g] = 1
    <3>1. CASE g \in Candidates
      <4>1. g \in page
        BY <1>1, <2>1, <2>2, <2>4, <3>1, PageIsUpperPart
      <4> QED BY <1>1, <1>3, <4>1
    <3>2. CASE g \notin Candidates
      BY <1>3, <1>4, <1>6, <3>2
    <3> QED BY <3>1, <3>2
  <2>5. WalkTypeOK'
    BY <1>3, <1>4, <1>5, <2>1, <2>2 DEF WalkInv, WalkTypeOK
  <2> QED BY <1>4, <1>5, <2>1, <2>2, <2>3, <2>4, <2>5 DEF WalkInv, WalkShowsSteadyOnce
<1>8. CASE ~(Cardinality(Candidates) > Limit)
  <2>1. walk' = "over" /\ cursor' = NoCursor
    BY <1>8 DEF NextPage
  <2>2. ASSUME NEW g \in steady' PROVE shown'[g] = 1
    <3>1. g \in Candidates => g \in page
      BY <1>1, <1>8, LastPageIsAll
    <3> QED BY <1>1, <1>3, <1>4, <1>6, <3>1
  <2>3. WalkTypeOK'
    BY <1>3, <1>4, <1>5, <2>1 DEF WalkInv, WalkTypeOK
  <2> QED BY <1>4, <1>5, <2>1, <2>2, <2>3 DEF WalkInv, WalkShowsSteadyOnce
<1> QED BY <1>7, <1>8

\* An edit, whatever it does, can only take GIFs out of those that stayed.
LEMMA EditKeeps ==
    ASSUME WalkInv, Edit
    PROVE  WalkInv'
<1>1. steady' = steady \cap Matching' /\ UNCHANGED <<tag, walk, cursor, shown>>
  BY DEF Edit
<1> QED BY <1>1 DEF WalkInv, WalkTypeOK, WalkShowsSteadyOnce

\* Every step keeps the invariant.
LEMMA WalkStep == WalkInv /\ [Next]_searchVars => WalkInv'
<1>1. ASSUME WalkInv, UNCHANGED searchVars PROVE WalkInv'
  BY <1>1 DEF searchVars, walkVars, tagVars, WalkInv, WalkTypeOK, WalkShowsSteadyOnce, Matching
<1> QED BY <1>1, PageKeeps, EditKeeps DEF Next

-----------------------------------------------------------------------------

\* For every library, page size and filter, and whatever is committed between two
\* pages: no GIF comes twice, and one that stays comes once.
THEOREM SearchShowsSteadyOnce == Spec => []WalkShowsSteadyOnce
<1>1. WalkInv => WalkShowsSteadyOnce
  BY DEF WalkInv
<1> QED BY <1>1, WalkInit, WalkStep, PTL DEF Spec

\* A search reads and changes nothing: what is proved of the library in TagsProofs
\* holds while it is searched.
THEOREM SearchLeavesLibrary == Spec => TagSpec
<1>1. Init => TagInit
  BY DEF Init
<1>2. [Next]_searchVars => [TagNext]_tagVars
  BY DEF Next, NextPage, Edit, searchVars
<1> QED BY <1>1, <1>2, PTL DEF Spec, TagSpec
=============================================================================
