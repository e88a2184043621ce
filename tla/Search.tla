--------------------------------- MODULE Search ---------------------------------
(***************************************************************************)
(* The search of GIFs, page by page, while requests upload, delete and tag *)
(* them.  A client asks for the first page, and as long as it is given a   *)
(* cursor for the next one.  Between two pages anything may be committed,  *)
(* also rows with ids above the cursor: an id is made before its row is    *)
(* committed, and by the clock of its worker.                              *)
(*                                                                         *)
(* The client is the owner of all GIFs or an administrator.  The filter by *)
(* title is left out, as titles are.                                       *)
(***************************************************************************)
EXTENDS Tags

CONSTANTS
    Limit,     \* GIFs on a page, after the clamp to 1..MAX_PAGE_SIZE
    Filter,    \* what is searched for: tags, or NoName for all GIFs
    NoCursor

ASSUME SearchAssumption ==
    /\ Limit \in Nat \ {0}
    /\ Filter \subseteq Name \cup {NoName}
    /\ NoCursor \notin Gif

VARIABLES
    tag,     \* the client's filter
    walk,    \* "off", "on" or "over"
    cursor,  \* the cursor of the next request
    shown,   \* shown[g]: how often the pages so far had g, 2 for more than once
    steady   \* history: GIFs that have matched all the time since the first page

walkVars == <<tag, walk, cursor, shown, steady>>
searchVars == <<tagVars, walkVars>>

WalkTypeOK ==
    /\ tag \in Filter
    /\ walk \in {"off", "on", "over"}
    /\ cursor \in Gif \cup {NoCursor}
    /\ shown \in [Gif -> 0..2]
    /\ steady \subseteq Gif

-----------------------------------------------------------------------------

Matching == {g \in Gif : g \in gifs /\ (tag # NoName => tag \in gifTags[g])}

\* WHERE id < cursor
Candidates_WithCursor == {g \in Matching : cursor = NoCursor \/ g <= cursor}
Candidates == {g \in Matching : cursor = NoCursor \/ g < cursor}

\* ORDER BY id DESC LIMIT limit
FirstOf(S, n) == {g \in S : Cardinality({h \in S : h > g}) < n}

\* limit + 1 rows are read: one more than fit on the page means that there is a
\* cursor, the last row on the page.
LastOf_ExtraRow(page) == {g \in Candidates \ page : \A h \in Candidates \ page : h <= g}
LastOf(page) == {g \in page : \A h \in page : g <= h}

NextPage ==
    /\ walk # "over"
    /\ LET page == FirstOf(Candidates, Limit) IN
       /\ shown' = [g \in Gif |-> IF g \notin page THEN shown[g]
                                ELSE IF shown[g] = 0 THEN 1 ELSE 2]
       /\ IF Cardinality(Candidates) > Limit
          THEN walk' = "on" /\ cursor' \in LastOf(page)
          ELSE walk' = "over" /\ cursor' = NoCursor
    /\ steady' = IF walk = "off" THEN Matching ELSE steady
    /\ UNCHANGED <<tagVars, tag>>

\* Meanwhile the rows change.
Edit ==
    /\ TagNext
    /\ UNCHANGED <<tag, walk, cursor, shown>>
    /\ steady' = steady \cap Matching'

Init ==
    /\ TagInit
    /\ tag \in Filter
    /\ walk = "off"
    /\ cursor = NoCursor
    /\ shown = [g \in Gif |-> 0]
    /\ steady = {}

Next == NextPage \/ Edit

Spec == Init /\ [][Next]_searchVars

\* The client goes on asking.
FairSpec == Spec /\ TagFairness /\ WF_searchVars(NextPage)

-----------------------------------------------------------------------------
(* Properties.                                                             *)

\* No GIF comes twice, and at the end of the walk every GIF that matched from the
\* first page to the last has come, whatever was uploaded, deleted and tagged
\* between two pages, the GIF the cursor was taken from included.
WalkShowsSteadyOnce ==
    /\ \A g \in Gif : shown[g] <= 1
    /\ walk = "over" => \A g \in steady : shown[g] = 1

\* The walk ends, although new GIFs keep coming.
WalkEnds == <>(walk = "over")
=============================================================================
