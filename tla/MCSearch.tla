-------------------------------- MODULE MCSearch --------------------------------
(* A small instance of Search, and of Tags with it, for TLC.               *)
EXTENDS Search

CONSTANTS a, b, u, v, r1, r2, r3

Ask(op, g, names) == [op |-> op, gif |-> g, names |-> names]

\* GIFs 1 and 3 are old and belong to u; GIFs 2 and 4 are uploaded by v, and have
\* the same bytes.
Owners == [g \in Gif |-> IF g \in Old THEN u ELSE v]
Bytes == [g \in Gif |-> IF g \in Old THEN g ELSE 2]

\* What may be asked while the client turns pages: GIF 1 is edited in every way, GIF
\* 2 comes between the two old ones, and its list names the same tags in the other
\* order; GIF 3 is deleted, or all of them.
Walking ==
    {Ask("attach", 1, <<a>>), Ask("attach", 1, <<b>>), Ask("detach", 1, <<a>>),
     Ask("patch", 1, <<>>), Ask("patch", 1, <<b, a>>), Ask("delete", 1, <<>>),
     Ask("upload", 2, <<a, b>>), Ask("delete", 3, <<>>), Ask("remove", 1, <<>>)}

\* Three that may wait for each other in a circle.
Third == [r \in {r1, r2, r3} |->
    CASE r = r1 -> {Ask("attach", 1, <<a>>), Ask("detach", 1, <<a>>)}
      [] r = r2 -> {Ask("patch", 1, <<a>>), Ask("patch", 1, <<b, a>>), Ask("attach", 1, <<b>>)}
      [] r = r3 -> {Ask("delete", 1, <<>>), Ask("remove", 1, <<>>)}]

\* Uploads of the same bytes, with and without a common tag.
MCOrder ==
    Walking \cup UNION {Third[r] : r \in Request}
      \cup {Ask("upload", 2, <<a>>), Ask("upload", 4, <<b>>), Ask("remove", 2, <<>>)}

\* Which requests come together.
Arrivals ==
    /\ walk = "over" => \A r \in Request : job[r] = New => job'[r] = New
    /\ walk # "off" => job'[r3] = job[r3]
    /\ walk' # "off" \/ tag # NoName =>
          \A r \in Request : Busy(r)' => job'[r].order \in Walking /\ r # r3
    /\ Busy(r2)' /\ job'[r1] = New => job'[r2].order \in Third[r2]
    /\ job'[r3] # New => \A r \in Request : Busy(r)' => job'[r].order \in Third[r]

MCSpec ==
    /\ Init /\ gifTags[3] = {a} /\ [][Next /\ Arrivals]_searchVars
    /\ TagFairness /\ WF_searchVars(NextPage)
=============================================================================
