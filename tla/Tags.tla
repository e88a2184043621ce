---------------------------------- MODULE Tags ----------------------------------
(***************************************************************************)
(* Tags of GIFs: the tables "tags", "gifs" and "gif_tags", and the requests*)
(* that change them, the deletion of an account with its GIFs included.    *)
(*                                                                         *)
(* Every edit replaces the whole list of a GIF in Python (gif.tags = ...). *)
(* At the flush SQLAlchemy compares it with the list that was loaded and   *)
(* sends the difference, row by row; names are looked up, or inserted,     *)
(* before that, one by one.  Each of these statements takes locks that are *)
(* kept until the commit, so what a request has done is also what others   *)
(* wait for.  A row that is inserted is entered in the unique indexes      *)
(* first, and then its foreign keys are checked: these are two waits.      *)
(* PostgreSQL aborts one request of a circle of waits.                     *)
(*                                                                         *)
(* A request runs once.  Ids are numbers in the order of UUIDv7.  Names are*)
(* normalised and lists have no doubles, as resolve_tags makes them.       *)
(* Titles and files are left out.                                          *)
(***************************************************************************)
EXTENDS Naturals, Sequences, FiniteSets, SequencesExt

CONSTANTS
    Gif, Name, Account, Request, NoName,
    OwnerOf,   \* OwnerOf[g]: the account a GIF belongs to
    BytesOf,   \* BytesOf[g]: its content
    Old,       \* the GIFs that are there at the start
    Order      \* what a request may be asked: [op, gif, names]; the account to
               \* remove is the one that owns the GIF

Ops == {"upload", "patch", "attach", "detach", "delete", "remove"}

ASSUME TagAssumption ==
    /\ Gif \subseteq Nat
    /\ IsFiniteSet(Gif)
    /\ IsFiniteSet(Name)
    /\ OwnerOf \in [Gif -> Account]
    /\ Old \subseteq Gif
    /\ NoName \notin Name
    /\ \A o \in Order : /\ o.op \in Ops /\ o.gif \in Gif /\ o.names \in Seq(Name)
                        /\ IsInjective(o.names)
                        /\ o.op \in {"attach", "detach"} => Len(o.names) = 1

VARIABLES
    owners,   \* committed rows of "users"
    tags,     \* names with a committed row in "tags" (rows are never deleted)
    gifs,     \* committed rows of "gifs"
    gifTags,  \* gifTags[g]: names of the committed rows of "gif_tags"
    job       \* job[r]: the request r and its transaction

tagVars == <<owners, tags, gifs, gifTags, job>>

Statement == [do: {"dedupe", "find", "create", "require", "insert", "own", "unlink", "link",
                   "refer", "keep", "leave", "drop", "cascade"},
              gif: Gif, name: Name \cup {NoName}]

New == [state |-> "new", order |-> [op |-> "none"], todo |-> <<>>, done |-> {}, met |-> {}]

Outcomes == {"done", "found", "failed", "refused", "lost"}

\* "todo": statements still to be sent; "done": those whose effects and locks the
\* transaction holds; "met": history, what others were asked at the same time.
Job == {[New EXCEPT !.state = how] : how \in {"new"} \cup Outcomes}
         \cup [state: {"busy"}, order: Order, todo: Seq(Statement), done: SUBSET Statement,
               met: SUBSET Order]

TagTypeOK ==
    /\ owners \subseteq Account
    /\ tags \subseteq Name
    /\ gifs \subseteq Gif
    /\ gifTags \in [Gif -> SUBSET tags]
    /\ \A g \in Gif : gifTags[g] # {} => g \in gifs
    /\ job \in [Request -> Job]

-----------------------------------------------------------------------------
(* The statements a request is going to send.                              *)

\* uq_gifs_owner_hash: an account has one GIF with the same bytes.
SameFile(g, h) == OwnerOf[g] = OwnerOf[h] /\ BytesOf[g] = BytesOf[h]

\* The GIFs a request is about.
GifsOf(o) ==
    IF o.op = "remove" THEN {g \in Gif : OwnerOf[g] = OwnerOf[o.gif]} ELSE {o.gif}

Send(what, g, n) == [do |-> what, gif |-> g, name |-> n]
Each(what, g, names) == [i \in 1..Len(names) |-> Send(what, g, names[i])]
EachGif(what, list) == [i \in 1..Len(list) |-> Send(what, list[i], NoName)]
Once(what, g) == <<Send(what, g, NoName)>>

\* gif.tags = resolve_tags(names): the names are found or created, and the flush
\* writes the difference to the loaded list, removals first.  Nothing is sent for
\* a name that is kept.
SetTags_Rewrite(g, loaded, names) ==
    Each("find", g, names)
      \o Each("unlink", g, names \o SetToSeq(loaded \ Range(names)))
      \o Each("link", g, names)
SetTags(g, loaded, names) ==
    Each("find", g, names)
      \o Each("unlink", g, SetToSeq(loaded \ Range(names)))
      \o [i \in 1..Len(names) |->
             Send(IF names[i] \in loaded THEN "keep" ELSE "link", g, names[i])]

\* The list a request asks for, given the one that was loaded.
Wanted_Appends(o, loaded) ==
    IF o.op = "detach" THEN SetToSeq(loaded \ Range(o.names))
    ELSE IF o.op = "attach" THEN SetToSeq(loaded \cup Range(o.names))
    ELSE o.names \o SetToSeq(loaded \ Range(o.names))
Wanted(o, loaded) ==
    IF o.op = "detach" THEN SetToSeq(loaded \ Range(o.names))
    ELSE IF o.op = "attach" THEN SetToSeq(loaded \cup Range(o.names))
    ELSE o.names

\* create_gif; update_gif; attach_tag and detach_tag, which read the GIF, have it
\* read again by replace_tags (the same object, with the list loaded first), and
\* set the list; delete_gif; delete_user, whose cascade takes one GIF after the
\* other and then their rows in "gif_tags".
Plan(o, loaded) ==
    CASE o.op = "upload" ->
            Once("dedupe", o.gif) \o Each("find", o.gif, o.names)
              \o Once("insert", o.gif) \o Each("link", o.gif, o.names)
      [] o.op = "patch" -> SetTags(o.gif, loaded, Wanted(o, loaded)) \o Once("require", o.gif)
      [] o.op \in {"attach", "detach"} ->
            Once("require", o.gif) \o SetTags(o.gif, loaded, Wanted(o, loaded))
              \o Once("require", o.gif)
      [] o.op = "delete" ->
            Each("unlink", o.gif, SetToSeq(loaded))
              \o Once("drop", o.gif) \o Once("cascade", o.gif)
      [] o.op = "remove" ->
            Once("leave", o.gif) \o EachGif("drop", SetToSeq(GifsOf(o)))
              \o EachGif("cascade", SetToSeq(GifsOf(o)))

-----------------------------------------------------------------------------
(* Waiting.                                                                *)

Busy(r) == job[r].state = "busy"
Others == {q \in Request : Busy(q)}
Sends(r, what) == Busy(r) /\ job[r].todo # <<>> /\ Head(job[r].todo).do = what
Target(r) == Head(job[r].todo).gif
Argument(r) == Head(job[r].todo).name

\* Which statement waits for which that is done: the unique index on names; the
\* primary key of "gif_tags"; the foreign key to "gifs", its check, deletions and
\* their cascade; the unique index on owner and bytes; the foreign key to "users".
SameName == {<<"create", "create">>}
SameRow == {<<"link", "link">>, <<"link", "unlink">>, <<"unlink", "unlink">>}
SameGif == {<<"refer", "drop">>, <<"drop", "refer">>, <<"drop", "drop">>,
            <<"cascade", "unlink">>}
Cascaded == {<<"link", "cascade">>, <<"unlink", "cascade">>}
SameBytes == {<<"insert", "insert">>, <<"insert", "drop">>}
SameOwner == {<<"own", "leave">>, <<"leave", "own">>, <<"leave", "leave">>}

Blocks(s, d) ==
    LET pair == <<s.do, d.do>> IN
    \/ pair \in SameName /\ s.name = d.name
    \/ pair \in SameRow /\ s.gif = d.gif /\ s.name = d.name
    \/ pair \in SameGif /\ s.gif = d.gif
    \/ pair \in Cascaded /\ s.gif = d.gif /\ s.name \in gifTags[s.gif]
    \/ pair \in SameBytes /\ SameFile(s.gif, d.gif)
    \/ pair \in SameOwner /\ OwnerOf[s.gif] = OwnerOf[d.gif]

WaitsFor(r, q) ==
    /\ q # r /\ Busy(r) /\ Busy(q) /\ job[r].todo # <<>>
    /\ \E d \in job[q].done : Blocks(Head(job[r].todo), d)

Waits(r) == \E q \in Request : WaitsFor(r, q)

\* r waits for itself by way of others.
InCircle(r) ==
    \A S \in SUBSET Request :
        (\A p \in S \cup {r}, q \in Request : WaitsFor(p, q) => q \in S) => r \in S

-----------------------------------------------------------------------------
(* The statements.                                                         *)

Database == <<owners, tags, gifs, gifTags>>

\* Statements that changed nothing take no lock.
Skip(r) == job' = [job EXCEPT ![r].todo = Tail(@)]
Perform(r) == job' = [job EXCEPT ![r].todo = Tail(@), ![r].done = @ \cup {Head(job[r].todo)}]

\* The transaction goes on with another statement about the same row.
GoOn(r, what, held) ==
    job' = [job EXCEPT ![r].todo = <<[Head(@) EXCEPT !.do = what]>> \o Tail(@),
                       ![r].done = @ \cup held]

\* The transaction ends; what was locked is free.
End(r, how) == job' = [job EXCEPT ![r] = [New EXCEPT !.state = how]]

\* A request arrives and reads the GIF with its list, or the account: there is an
\* error if there is none.
Reads(o) ==
    IF o.op \in {"upload", "remove"} THEN OwnerOf[o.gif] \in owners ELSE o.gif \in gifs

Refuse(r, o) ==
    /\ job[r] = New
    /\ ~Reads(o)
    /\ End(r, "refused")
    /\ UNCHANGED Database

\* The id of a GIF that is uploaded is its own.
Accept(r, o) ==
    /\ job[r] = New
    /\ Reads(o)
    /\ o.op = "upload" =>
          /\ o.gif \notin gifs \cup Old
          /\ \A q \in Others : job[q].order.op # "remove" => job[q].order.gif # o.gif
    /\ job' = [q \in Request |->
          IF q = r THEN [state |-> "busy", order |-> o, todo |-> Plan(o, gifTags[o.gif]),
                         done |-> {}, met |-> {job[p].order : p \in Others}]
          ELSE IF q \in Others THEN [job[q] EXCEPT !.met = @ \cup {o}]
          ELSE job[q]]
    /\ UNCHANGED Database

\* Identical bytes of the same owner: the GIF that is there is returned, with its
\* tags, and nothing is written.
Dedupe_NotAsked(r) ==
    /\ Sends(r, "dedupe")
    /\ Skip(r)
    /\ UNCHANGED Database

Dedupe(r) ==
    /\ Sends(r, "dedupe")
    /\ IF \E g \in gifs : SameFile(g, Target(r)) THEN End(r, "found") ELSE Skip(r)
    /\ UNCHANGED Database

Find_LooksAgain(r) ==
    /\ Sends(r, "find")
    /\ IF Argument(r) \in tags THEN Skip(r)
       ELSE job' = [job EXCEPT ![r].todo =
                       <<Send("create", Target(r), Argument(r))>> \o @]
    /\ UNCHANGED Database

\* get_or_create: the SELECT sees committed names and those inserted here.
Find(r) ==
    /\ Sends(r, "find")
    /\ IF Argument(r) \in tags THEN Skip(r) ELSE GoOn(r, "create", {})
    /\ UNCHANGED Database

\* The INSERT fails on a name another request has committed since.
Create(r) ==
    /\ Sends(r, "create")
    /\ ~Waits(r)
    /\ IF Argument(r) \in tags THEN End(r, "failed") ELSE Perform(r)
    /\ UNCHANGED Database

Keep(r) ==
    /\ Sends(r, "keep")
    /\ Skip(r)
    /\ UNCHANGED Database

\* _require_gif once more: the row must be there, its list is not loaded again.
Require(r) ==
    /\ Sends(r, "require")
    /\ IF Target(r) \in gifs THEN Skip(r) ELSE End(r, "refused")
    /\ UNCHANGED Database

\* The INSERT fails on the same bytes of the same owner, and then on an owner that
\* is gone.
Insert(r) ==
    /\ Sends(r, "insert")
    /\ ~Waits(r)
    /\ IF \E g \in gifs : SameFile(g, Target(r)) THEN End(r, "failed")
       ELSE GoOn(r, "own", {Head(job[r].todo)})
    /\ UNCHANGED Database

Own(r) ==
    /\ Sends(r, "own")
    /\ ~Waits(r)
    /\ IF OwnerOf[Target(r)] \in owners THEN Perform(r) ELSE End(r, "failed")
    /\ UNCHANGED Database

\* The DELETE of a row that is gone deletes nothing.
Unlink(r) ==
    /\ Sends(r, "unlink")
    /\ ~Waits(r)
    /\ IF Argument(r) \in gifTags[Target(r)] THEN Perform(r) ELSE Skip(r)
    /\ UNCHANGED Database

\* The INSERT fails on a row that is there, and then on a GIF that is gone.
Link(r) ==
    /\ Sends(r, "link")
    /\ ~Waits(r)
    /\ IF Argument(r) \in gifTags[Target(r)] THEN End(r, "failed")
       ELSE GoOn(r, "refer", {Head(job[r].todo)})
    /\ UNCHANGED Database

Refer(r) ==
    /\ Sends(r, "refer")
    /\ ~Waits(r)
    /\ IF job[r].order.op = "upload" \/ Target(r) \in gifs THEN Perform(r)
       ELSE End(r, "failed")
    /\ UNCHANGED Database

\* The row of the account.  One that is gone is only warned about.
Leave(r) ==
    /\ Sends(r, "leave")
    /\ ~Waits(r)
    /\ IF OwnerOf[Target(r)] \in owners THEN Perform(r) ELSE Skip(r)
    /\ UNCHANGED Database

\* The row of a GIF, and then the rows that refer to it.
Drop(r) ==
    /\ Sends(r, "drop") \/ Sends(r, "cascade")
    /\ ~Waits(r)
    /\ IF Target(r) \in gifs THEN Perform(r) ELSE Skip(r)
    /\ UNCHANGED Database

Did(r, what) == {d \in job[r].done : d.do = what}
Gone(r) == {d.gif : d \in Did(r, "drop")}
Rows(r, what, g) == {d.name : d \in {d \in Did(r, what) : d.gif = g}}

ListAfter_NoCascade(r, g) == (gifTags[g] \ Rows(r, "unlink", g)) \cup Rows(r, "link", g)
ListAfter(r, g) ==
    IF g \in Gone(r) THEN {} ELSE (gifTags[g] \ Rows(r, "unlink", g)) \cup Rows(r, "link", g)

Commit(r) ==
    /\ Busy(r) /\ job[r].todo = <<>>
    /\ owners' = owners \ {OwnerOf[d.gif] : d \in Did(r, "leave")}
    /\ tags' = tags \cup {d.name : d \in Did(r, "create")}
    /\ gifs' = (gifs \ Gone(r)) \cup {d.gif : d \in Did(r, "insert")}
    /\ gifTags' = [g \in Gif |-> ListAfter(r, g)]
    /\ End(r, "done")

\* PostgreSQL aborts a request it finds in a circle of waits.
Deadlock(r) ==
    /\ InCircle(r)
    /\ End(r, "failed")
    /\ UNCHANGED Database

\* A worker dies or its connection breaks: nothing of the transaction remains.
Lose(r) ==
    /\ Busy(r)
    /\ End(r, "lost")
    /\ UNCHANGED Database

Step(r) ==
    \/ Dedupe(r) \/ Find(r) \/ Create(r) \/ Require(r) \/ Keep(r) \/ Insert(r) \/ Own(r)
    \/ Unlink(r) \/ Link(r) \/ Refer(r) \/ Leave(r) \/ Drop(r) \/ Commit(r) \/ Deadlock(r)

TagInit ==
    /\ owners = Account
    /\ gifs = Old
    /\ gifTags \in {f \in [Gif -> SUBSET Name] : \A g \in Gif \ Old : f[g] = {}}
    /\ tags \in {T \in SUBSET Name : \A g \in Gif : gifTags[g] \subseteq T}
    /\ job = [r \in Request |-> New]

TagNext == \E r \in Request : Step(r) \/ Lose(r) \/ \E o \in Order : Refuse(r, o) \/ Accept(r, o)

\* Ready tasks run, and PostgreSQL looks for circles when a wait takes long.
TagFairness == \A r \in Request : WF_tagVars(Step(r))

TagSpec == TagInit /\ [][TagNext]_tagVars
TagFairSpec == TagSpec /\ TagFairness

-----------------------------------------------------------------------------
(* Properties.                                                             *)

Ends(r, how) == Busy(r) /\ job'[r].state = how

\* o is about a GIF that p is about, or uploads the same bytes for the same owner.
Touches(o, p) ==
    \E g \in GifsOf(o), h \in GifsOf(p) : g = h \/ (o.op = "upload" /\ SameFile(g, h))

Rivals(r) == {p \in job[r].met : Touches(job[r].order, p)}

Asked(o, old) ==
    CASE o.op = "attach" -> old \cup Range(o.names)
      [] o.op = "detach" -> old \ Range(o.names)
      [] o.op \in {"delete", "remove"} -> {}
      [] OTHER -> Range(o.names)

\* Although each edit replaces a whole list it has read before, a tag comes to a
\* GIF or leaves it only by the commit of a request that asked for just that.
OnlyAskedChanges ==
    [][\A g \in Gif, n \in Name :
          (n \in gifTags[g]) # (n \in gifTags'[g]) =>
              \E r \in Request : /\ Ends(r, "done") /\ g \in GifsOf(job[r].order)
                                /\ (n \in gifTags'[g]) = (n \in Asked(job[r].order, gifTags[g]))
      ]_tagVars

\* ARCHITECTURE.md: PATCH "replaces tag set if `tags` given".  A request that
\* overlapped no other for its GIFs leaves exactly the lists it was asked for, and
\* no GIF it deleted, whatever goes on with the same names at other GIFs; an upload
\* adds a GIF only when the owner has none with these bytes.
LoneEditsExact ==
    [][\A r \in Request : Ends(r, "done") /\ Rivals(r) = {} =>
          /\ \A g \in GifsOf(job[r].order) :
                /\ gifTags'[g] = Asked(job[r].order, gifTags[g])
                /\ g \in gifs' => job[r].order.op \notin {"delete", "remove"}
          /\ job[r].order.op \notin {"delete", "remove"} => job[r].order.gif \in gifs'
          /\ job[r].order.op = "upload" =>
                \A g \in gifs : ~SameFile(g, job[r].order.gif)
      ]_tagVars

\* A request fails (500) only when one that overlapped it was for one of its GIFs or
\* named a tag it names, or, for an upload, was about the same bytes of its owner:
\* names and GIFs that exist are found, not inserted again.
FailuresNeedRival ==
    [][\A r \in Request : Ends(r, "failed") =>
          \E p \in job[r].met :
              \/ Touches(job[r].order, p)
              \/ Range(p.names) \cap Range(job[r].order.names) # {}
      ]_tagVars

\* Attaching or detaching one tag is in a circle of waits, and may be aborted for
\* it, only when the row is entered already and its GIF is being deleted: others
\* that edit the same lists never stop it.
SingleEditsStopForDeletions ==
    \A r \in Request : InCircle(r) /\ job[r].order.op \in {"attach", "detach"} =>
        /\ Sends(r, "refer")
        /\ \A q \in Request : WaitsFor(r, q) => job[q].order.op \in {"delete", "remove"}

\* Every request ends, also those that wait for a lock held by another: as each
\* runs once, there is always a time when none is under way.
EveryEditEnds == []<>(Others = {})
=============================================================================
