------------------------------- MODULE TagsProofs -------------------------------
(***************************************************************************)
(* Proofs about Tags, for any library, any requests and any number of them.*)
(*                                                                         *)
(* What a request has still to send and what it holds are sets here        *)
(* (Ahead, and done); of the order of its statements one relation is kept, *)
(* Precedes.                                                               *)
(***************************************************************************)
EXTENDS Tags, SequenceTheorems, FiniteSetTheorems, WellFoundedInduction, TLAPS

-----------------------------------------------------------------------------
(* The inductive invariant.                                                *)

Naming == {"find", "create"}
Reading == {"dedupe", "find", "require", "keep"}

\* s may be sent before u: the look at the bytes comes first, then names, and no
\* name comes twice.
Precedes(s, u) ==
    /\ u.do # "dedupe"
    /\ u.do \in Naming => s.do \in Naming \cup {"dedupe", "require"}
    /\ s.name = u.name => /\ ~(s.do \in Naming /\ u.do \in Naming)
                          /\ ~(s.do = "unlink" /\ u.do = "unlink")
                          /\ ~(s.do \in {"link", "refer"} /\ u.do = "link")

InOrder(todo) == \A i, j \in 1..Len(todo) : i < j => Precedes(todo[i], todo[j])

Ahead(r) == Range(job[r].todo)
Whole(r) == Ahead(r) \cup job[r].done

Has(S, what, n) == \E s \in S : s.do = what /\ s.name = n
HasGif(S, what, g) == \E s \in S : s.do = what /\ s.gif = g

\* A statement serves what the request was asked.
Fits(o, s) ==
    /\ s.gif \in GifsOf(o)
    /\ s.do \in {"find", "create", "unlink", "link"} => s.name \in Name
    /\ s.do = "find" => s.name \in tags \cup Asked(o, {})
    /\ s.do \in {"create", "link", "refer"} => s.name \in Asked(o, {})
    /\ s.do = "unlink" => s.name \notin Asked(o, {s.name})
    /\ s.do \in {"dedupe", "insert", "own"} => o.op = "upload"
    /\ s.do \in {"drop", "cascade"} => o.op \in {"delete", "remove"}
    /\ s.do = "leave" => o.op = "remove"

\* The statements of a request: a row of "gif_tags" is only written when the name
\* is there, or found or created by the same request, and its GIF is checked.
PlanOK(r) ==
    /\ \A s \in Whole(r) : Fits(job[r].order, s)
    /\ InOrder(job[r].todo)
    /\ \A d \in job[r].done : /\ d.do \notin Reading
                              /\ \A s \in Ahead(r) : Precedes(d, s)
                              /\ d.do = "link" => HasGif(Whole(r), "refer", d.gif)
    /\ \A s \in Whole(r) : s.do = "link" =>
          s.name \in tags \/ Has(Whole(r), "create", s.name) \/ Has(Whole(r), "find", s.name)
    /\ job[r].order.op = "upload" => \E s \in Whole(r) : s.do = "insert"

PlansOK == \A r \in Request : Busy(r) => PlanOK(r)

\* Rows whose GIF was checked keep it there until they are committed.
LocksOK ==
    \A r \in Request : Busy(r) =>
        \A d \in job[r].done : d.do = "refer" =>
            /\ job[r].order.op # "upload" => d.gif \in gifs
            /\ \A q \in Request : q # r /\ Busy(q) => ~HasGif(job[q].done, "drop", d.gif)

\* Nobody else knows the id of a GIF before it is there.
UploadsOK ==
    \A r \in Request : Busy(r) /\ job[r].order.op = "upload" =>
        /\ job[r].order.gif \notin gifs
        /\ \A q \in Request : q # r /\ Busy(q) /\ job[q].order.op # "remove" =>
              job[q].order.gif # job[r].order.gif

MeetsOK ==
    \A r, q \in Request : r # q /\ Busy(r) /\ Busy(q) => job[q].order \in job[r].met

\* A name that is created although it is there was committed by one it met.
CreatesOK ==
    \A r \in Request : Busy(r) =>
        \A s \in Ahead(r) : s.do = "create" /\ s.name \in tags =>
            \E o \in job[r].met : s.name \in Range(o.names)

\* Alone at its GIFs a request finds them as they were read, and its statements
\* are all it takes to get from there to what was asked.
LoneOK(r) ==
    LET o == job[r].order
        list == gifTags[o.gif] IN
    /\ o.op \notin {"upload", "remove"} => o.gif \in gifs
    /\ o.op = "upload" =>
          /\ OwnerOf[o.gif] \in owners
          /\ (\E g \in gifs : SameFile(g, o.gif)) => \E s \in Ahead(r) : s.do = "dedupe"
    /\ o.op \in {"delete", "remove"} =>
          \A g \in GifsOf(o) : g \in gifs => HasGif(Whole(r), "drop", g)
    /\ \A s \in Whole(r) : s.do = "link" => s.name \notin gifTags[s.gif]
    /\ \A n \in list \ Asked(o, list) : o.op \in {"delete", "remove"} \/ Has(Whole(r), "unlink", n)
    /\ \A n \in Asked(o, list) \ list : Has(Whole(r), "link", n)

LonesOK == \A r \in Request : Busy(r) /\ Rivals(r) = {} => LoneOK(r)

TagInv ==
    /\ TagTypeOK
    /\ PlansOK
    /\ LocksOK
    /\ UploadsOK
    /\ MeetsOK
    /\ CreatesOK
    /\ LonesOK

-----------------------------------------------------------------------------
(* Sequences of statements.                                                *)

\* Sending the first statement leaves the others, in their order.
LEMMA FirstAndRest ==
    ASSUME NEW t \in Seq(Statement), t # <<>>
    PROVE  /\ Head(t) \in Statement /\ Tail(t) \in Seq(Statement)
           /\ Range(t) = {Head(t)} \cup Range(Tail(t))
           /\ InOrder(t) => /\ InOrder(Tail(t))
                            /\ \A u \in Range(Tail(t)) : Precedes(Head(t), u)
<1>1. /\ Head(t) \in Statement /\ Tail(t) \in Seq(Statement)
      /\ Len(Tail(t)) = Len(t) - 1 /\ Len(t) \in Nat \ {0}
      /\ \A i \in 1..Len(Tail(t)) : Tail(t)[i] = t[i + 1]
      /\ Head(t) = t[1]
  <2>1. Len(t) \in Nat \ {0} /\ Head(t) = t[1]
    BY LenProperties, EmptySeq
  <2> QED BY <2>1, HeadTailProperties
<1>2. /\ Range(t) = {t[i] : i \in 1..Len(t)}
      /\ Range(Tail(t)) = {Tail(t)[i] : i \in 1..Len(Tail(t))}
  BY <1>1, RangeEquality
<1>3. Range(t) = {Head(t)} \cup Range(Tail(t))
  <2>1. ASSUME NEW i \in 1..Len(t) PROVE t[i] \in {Head(t)} \cup Range(Tail(t))
    <3>1. CASE i = 1
      BY <1>1, <3>1
    <3>2. CASE i # 1
      <4>1. i - 1 \in 1..Len(Tail(t)) /\ Tail(t)[i - 1] = t[(i - 1) + 1] /\ (i - 1) + 1 = i
        BY <1>1, <3>2
      <4> QED BY <1>2, <4>1
    <3> QED BY <3>1, <3>2
  <2>2. ASSUME NEW i \in 1..Len(Tail(t)) PROVE Tail(t)[i] \in Range(t)
    BY <1>1, <1>2
  <2>3. Head(t) \in Range(t)
    BY <1>1, <1>2
  <2> QED BY <1>2, <2>1, <2>2, <2>3
<1>4. ASSUME InOrder(t)
      PROVE  InOrder(Tail(t)) /\ \A u \in Range(Tail(t)) : Precedes(Head(t), u)
  <2>1. ASSUME NEW i \in 1..Len(Tail(t)), NEW j \in 1..Len(Tail(t)), i < j
        PROVE  Precedes(Tail(t)[i], Tail(t)[j])
    <3>1. i + 1 \in 1..Len(t) /\ j + 1 \in 1..Len(t) /\ i + 1 < j + 1
      BY <1>1, <2>1
    <3> QED BY <1>1, <1>4, <3>1 DEF InOrder
  <2>2. ASSUME NEW i \in 1..Len(Tail(t)) PROVE Precedes(Head(t), Tail(t)[i])
    <3>1. 1 \in 1..Len(t) /\ i + 1 \in 1..Len(t) /\ 1 < i + 1
      BY <1>1
    <3> QED BY <1>1, <1>4, <3>1 DEF InOrder
  <2> QED BY <1>2, <2>1, <2>2 DEF InOrder
<1> QED BY <1>1, <1>3, <1>4

\* Two sequences in order are in order one after the other, if the statements of
\* the first may precede those of the second.
LEMMA OneAfterTheOther ==
    ASSUME NEW t \in Seq(Statement), NEW v \in Seq(Statement), InOrder(t), InOrder(v),
           \A s \in Range(t), u \in Range(v) : Precedes(s, u)
    PROVE  /\ t \o v \in Seq(Statement)
           /\ Range(t \o v) = Range(t) \cup Range(v)
           /\ InOrder(t \o v)
<1>1. /\ t \o v \in Seq(Statement) /\ Len(t) \in Nat /\ Len(v) \in Nat
      /\ Len(t \o v) = Len(t) + Len(v)
      /\ \A i \in 1..Len(t \o v) :
            (t \o v)[i] = IF i <= Len(t) THEN t[i] ELSE v[i - Len(t)]
  BY ConcatProperties, LenProperties
<1>2. Range(t \o v) = Range(t) \cup Range(v)
  BY RangeConcatenation
<1>3. /\ Range(t) = {t[i] : i \in 1..Len(t)}
      /\ Range(v) = {v[i] : i \in 1..Len(v)}
  BY RangeEquality
<1>4. ASSUME NEW i \in 1..Len(t \o v), NEW j \in 1..Len(t \o v), i < j
      PROVE  Precedes((t \o v)[i], (t \o v)[j])
  <2>1. CASE j <= Len(t)
    BY <1>1, <1>4, <2>1 DEF InOrder
  <2>2. CASE i > Len(t)
    <3>1. i - Len(t) \in 1..Len(v) /\ j - Len(t) \in 1..Len(v) /\ i - Len(t) < j - Len(t)
      BY <1>1, <1>4, <2>2
    <3>2. (t \o v)[i] = v[i - Len(t)] /\ (t \o v)[j] = v[j - Len(t)]
      BY <1>1, <1>4, <2>2
    <3> QED BY <3>1, <3>2 DEF InOrder
  <2>3. CASE i <= Len(t) /\ j > Len(t)
    <3>1. i \in 1..Len(t) /\ j - Len(t) \in 1..Len(v)
      BY <1>1, <1>4, <2>3
    <3>2. (t \o v)[i] = t[i] /\ (t \o v)[j] = v[j - Len(t)]
      BY <1>1, <1>4, <2>3
    <3> QED BY <1>3, <3>1, <3>2
  <2> QED BY <1>1, <1>4, <2>1, <2>2, <2>3
<1> QED BY <1>1, <1>2, <1>4 DEF InOrder

\* A sequence of one.
LEMMA OneStatement ==
    ASSUME NEW s \in Statement
    PROVE  <<s>> \in Seq(Statement) /\ Range(<<s>>) = {s} /\ InOrder(<<s>>)
<1>1. <<s>> \in Seq(Statement) /\ Len(<<s>>) = 1 /\ <<s>>[1] = s
  OBVIOUS
<1>2. Range(<<s>>) = {<<s>>[i] : i \in 1..Len(<<s>>)}
  BY <1>1, RangeEquality
<1>3. 1..1 = {1}
  OBVIOUS
<1> QED BY <1>1, <1>2, <1>3 DEF InOrder

\* One statement for each name of a list without doubles.
LEMMA OneForEach ==
    ASSUME NEW names \in Seq(Name), IsInjective(names),
           NEW t \in [1..Len(names) -> Statement],
           \A i \in 1..Len(names) : t[i].name = names[i] /\ t[i].do # "dedupe",
           \A i, j \in 1..Len(names) : t[j].do \in Naming => t[i].do \in Naming
    PROVE  /\ t \in Seq(Statement) /\ InOrder(t)
           /\ Range(t) = {t[i] : i \in 1..Len(names)}
<1>1. Len(names) \in Nat /\ names \in [1..Len(names) -> Name]
  BY LenProperties
<1>2. t \in Seq(Statement) /\ Len(t) = Len(names)
  BY <1>1, SeqDef, LenProperties
<1>3. Range(t) = {t[i] : i \in 1..Len(names)}
  BY <1>2, RangeEquality
<1>4. ASSUME NEW i \in 1..Len(names), NEW j \in 1..Len(names), i < j
      PROVE  Precedes(t[i], t[j])
  <2>1. names[i] # names[j]
    BY <1>1, <1>4 DEF IsInjective
  <2> QED BY <2>1 DEF Precedes
<1> QED BY <1>2, <1>3, <1>4 DEF InOrder

\* Each: one statement for each name.
LEMMA EachInOrder ==
    ASSUME NEW names \in Seq(Name), IsInjective(names), NEW g \in Gif,
           NEW what \in {"find", "unlink", "link"}
    PROVE  /\ Each(what, g, names) \in Seq(Statement) /\ InOrder(Each(what, g, names))
           /\ Range(Each(what, g, names)) = {Send(what, g, n) : n \in Range(names)}
<1> DEFINE t == Each(what, g, names)
<1>1. Len(names) \in Nat /\ names \in [1..Len(names) -> Name]
      /\ Range(names) = {names[i] : i \in 1..Len(names)}
  BY LenProperties, RangeEquality
<1>2. /\ t \in [1..Len(names) -> Statement]
      /\ \A i \in 1..Len(names) : t[i] = Send(what, g, names[i])
  BY <1>1 DEF Each, Send, Statement
<1>3. /\ \A i \in 1..Len(names) : t[i].name = names[i] /\ t[i].do # "dedupe"
      /\ \A i, j \in 1..Len(names) : t[j].do \in Naming => t[i].do \in Naming
  BY <1>2 DEF Send
<1> HIDE DEF t
<1>4. /\ t \in Seq(Statement) /\ InOrder(t)
      /\ Range(t) = {t[i] : i \in 1..Len(names)}
  BY <1>2, <1>3, OneForEach
<1>5. Range(t) = {Send(what, g, n) : n \in Range(names)}
  BY <1>1, <1>2, <1>4
<1> QED BY <1>4, <1>5 DEF t

\* EachGif: one statement for each GIF.
LEMMA EachGifInOrder ==
    ASSUME NEW list \in Seq(Gif), NEW what \in {"drop", "cascade"}
    PROVE  /\ EachGif(what, list) \in Seq(Statement) /\ InOrder(EachGif(what, list))
           /\ Range(EachGif(what, list)) = {Send(what, g, NoName) : g \in Range(list)}
<1> DEFINE t == EachGif(what, list)
<1>1. Len(list) \in Nat /\ list \in [1..Len(list) -> Gif]
      /\ Range(list) = {list[i] : i \in 1..Len(list)}
  BY LenProperties, RangeEquality
<1>2. /\ t \in [1..Len(list) -> Statement]
      /\ \A i \in 1..Len(list) : t[i] = Send(what, list[i], NoName)
  BY <1>1 DEF EachGif, Send, Statement
<1> HIDE DEF t
<1>3. t \in Seq(Statement) /\ Len(t) = Len(list)
  BY <1>1, <1>2, SeqDef, LenProperties
<1>4. Range(t) = {t[i] : i \in 1..Len(list)}
  BY <1>3, RangeEquality
<1>5. InOrder(t)
  BY <1>2, <1>3 DEF InOrder, Precedes, Naming, Send
<1>6. Range(t) = {Send(what, g, NoName) : g \in Range(list)}
  BY <1>1, <1>2, <1>4
<1> QED BY <1>3, <1>5, <1>6 DEF t

\* SetToSeq lists a finite set.
LEMMA ListOfSet ==
    ASSUME NEW T, IsFiniteSet(T), NEW S \in SUBSET T
    PROVE  SetToSeq(S) \in Seq(T) /\ IsInjective(SetToSeq(S)) /\ Range(SetToSeq(S)) = S
<1> DEFINE n == Cardinality(S)
           f == SetToSeq(S)
<1>1. IsFiniteSet(S) /\ n \in Nat /\ ExistsBijection(1..n, S)
  BY FS_Subset, FS_CardinalityType
<1>2. \E g \in [1..n -> S] : IsInjective(g)
  BY <1>1 DEF ExistsBijection, Bijection, Injection, IsInjective
<1>3. f \in [1..n -> S] /\ IsInjective(f)
  BY <1>2 DEF SetToSeq
<1>4. f \in Surjection(1..n, S)
  <2>1. f \in Injection(1..n, S)
    BY <1>3 DEF Injection
  <2>2. IsFiniteSet(1..n) /\ Cardinality(1..n) = n
    BY <1>1, FS_Interval
  <2> QED BY <1>1, <2>1, <2>2, FS_Injection
<1>5. Range(f) = S
  BY <1>3, <1>4 DEF Surjection, Range
<1>6. f \in Seq(T)
  BY <1>1, <1>3, SeqDef
<1> QED BY <1>3, <1>5, <1>6

-----------------------------------------------------------------------------
(* The statements of a plan.                                               *)

All(what, g, S) == {Send(what, g, n) : n \in S}
Single(what, g) == Send(what, g, NoName)

LEMMA OnceInOrder ==
    ASSUME NEW what \in {"dedupe", "require", "insert", "leave", "drop", "cascade"}, NEW g \in Gif
    PROVE  /\ Once(what, g) \in Seq(Statement) /\ InOrder(Once(what, g))
           /\ Range(Once(what, g)) = {Single(what, g)}
<1>1. Single(what, g) \in Statement
  BY DEF Single, Send, Statement
<1> QED BY <1>1, OneStatement DEF Once, Single

\* gif.tags = names: every name is found, the names that go are unlinked, those
\* that come are linked, in this order.
LEMMA SetTagsInOrder ==
    ASSUME NEW loaded \in SUBSET Name, NEW names \in Seq(Name), IsInjective(names), NEW g \in Gif
    PROVE  /\ SetTags(g, loaded, names) \in Seq(Statement) /\ InOrder(SetTags(g, loaded, names))
           /\ Range(SetTags(g, loaded, names)) =
                 All("find", g, Range(names)) \cup All("unlink", g, loaded \ Range(names))
                   \cup All("keep", g, Range(names) \cap loaded)
                   \cup All("link", g, Range(names) \ loaded)
<1> DEFINE find == Each("find", g, names)
           gone == SetToSeq(loaded \ Range(names))
           unlink == Each("unlink", g, gone)
           link == [i \in 1..Len(names) |->
                       Send(IF names[i] \in loaded THEN "keep" ELSE "link", g, names[i])]
<1>1. /\ Len(names) \in Nat /\ names \in [1..Len(names) -> Name]
      /\ Range(names) = {names[i] : i \in 1..Len(names)}
  BY LenProperties, RangeEquality
<1>2. find \in Seq(Statement) /\ InOrder(find) /\ Range(find) = All("find", g, Range(names))
  BY EachInOrder DEF All
<1>3. /\ gone \in Seq(Name) /\ IsInjective(gone) /\ Range(gone) = loaded \ Range(names)
  <2>1. loaded \ Range(names) \in SUBSET Name
    OBVIOUS
  <2> QED BY <2>1, ListOfSet, TagAssumption
<1>4. /\ unlink \in Seq(Statement) /\ InOrder(unlink)
      /\ Range(unlink) = All("unlink", g, loaded \ Range(names))
  <2> HIDE DEF gone
  <2> QED BY <1>3, EachInOrder DEF All
<1>5. /\ link \in Seq(Statement) /\ InOrder(link)
      /\ Range(link) = All("keep", g, Range(names) \cap loaded)
                          \cup All("link", g, Range(names) \ loaded)
  <2>1. /\ link \in [1..Len(names) -> Statement]
        /\ \A i \in 1..Len(names) :
              link[i] = Send(IF names[i] \in loaded THEN "keep" ELSE "link", g, names[i])
    BY <1>1 DEF Statement, Send
  <2> HIDE DEF link
  <2>2. /\ \A i \in 1..Len(names) : link[i].name = names[i] /\ link[i].do \in {"keep", "link"}
    BY <2>1 DEF Send
  <2>3. /\ link \in Seq(Statement) /\ InOrder(link)
        /\ Range(link) = {link[i] : i \in 1..Len(names)}
    BY <2>1, <2>2, OneForEach DEF Naming
  <2>4. ASSUME NEW s \in Range(link)
        PROVE  s \in All("keep", g, Range(names) \cap loaded)
                       \cup All("link", g, Range(names) \ loaded)
    BY <1>1, <2>1, <2>3 DEF All
  <2>5. ASSUME NEW n \in Range(names)
        PROVE  /\ n \in loaded => Send("keep", g, n) \in Range(link)
               /\ n \notin loaded => Send("link", g, n) \in Range(link)
    BY <1>1, <2>1, <2>3
  <2> QED BY <2>3, <2>4, <2>5 DEF All
<1> HIDE DEF find, unlink, link
<1>6. /\ find \o unlink \in Seq(Statement) /\ InOrder(find \o unlink)
      /\ Range(find \o unlink) = Range(find) \cup Range(unlink)
  <2>1. \A s \in Range(find), u \in Range(unlink) : Precedes(s, u)
    BY <1>2, <1>4 DEF All, Send, Precedes, Naming
  <2> QED BY <1>2, <1>4, <2>1, OneAfterTheOther
<1>7. \A s \in Range(find \o unlink), u \in Range(link) : Precedes(s, u)
  BY <1>2, <1>4, <1>5, <1>6 DEF All, Send, Precedes, Naming
<1>8. /\ (find \o unlink) \o link \in Seq(Statement) /\ InOrder((find \o unlink) \o link)
      /\ Range((find \o unlink) \o link) = Range(find \o unlink) \cup Range(link)
  BY <1>5, <1>6, <1>7, OneAfterTheOther
<1>9. SetTags(g, loaded, names) = (find \o unlink) \o link
  BY DEF SetTags, find, unlink, link
<1> QED BY <1>2, <1>4, <1>5, <1>6, <1>8, <1>9

\* What is known of a request.
LEMMA OrderTypes ==
    ASSUME NEW o \in Order
    PROVE  /\ o.op \in Ops /\ o.gif \in Gif /\ o.names \in Seq(Name) /\ IsInjective(o.names)
           /\ Range(o.names) \subseteq Name
           /\ o.gif \in GifsOf(o) /\ GifsOf(o) \subseteq Gif
           /\ o.op # "remove" => GifsOf(o) = {o.gif}
           /\ o.op \in {"attach", "detach"} =>
                 \A n, m \in Range(o.names) : n = m
<1>1. /\ o.op \in Ops /\ o.gif \in Gif /\ o.names \in Seq(Name) /\ IsInjective(o.names)
      /\ o.op \in {"attach", "detach"} => Len(o.names) = 1
  BY TagAssumption
<1>2. Range(o.names) = {o.names[i] : i \in 1..Len(o.names)} /\ Range(o.names) \subseteq Name
  BY <1>1, RangeEquality, RangeOfSeq
<1>3. ASSUME Len(o.names) = 1, NEW n \in Range(o.names), NEW m \in Range(o.names) PROVE n = m
  <2>1. PICK i \in 1..1 : n = o.names[i]
    BY <1>2, <1>3
  <2>2. PICK j \in 1..1 : m = o.names[j]
    BY <1>2, <1>3
  <2>3. i = j
    OBVIOUS
  <2> QED BY <2>1, <2>2, <2>3
<1> QED BY <1>1, <1>2, <1>3 DEF GifsOf

\* The list that is set is the one that was asked for.
LEMMA WantedIsAsked ==
    ASSUME NEW o \in Order, NEW loaded \in SUBSET Name, o.op \in {"patch", "attach", "detach"}
    PROVE  /\ Wanted(o, loaded) \in Seq(Name) /\ IsInjective(Wanted(o, loaded))
           /\ Range(Wanted(o, loaded)) = Asked(o, loaded)
<1>1. o.names \in Seq(Name) /\ IsInjective(o.names) /\ Range(o.names) \subseteq Name
  BY OrderTypes
<1>2. CASE o.op = "patch"
  BY <1>1, <1>2 DEF Wanted, Asked
<1>3. CASE o.op = "attach"
  <2>1. loaded \cup Range(o.names) \in SUBSET Name
    BY <1>1
  <2> QED BY <1>3, <2>1, ListOfSet, TagAssumption DEF Wanted, Asked
<1>4. CASE o.op = "detach"
  <2>1. loaded \ Range(o.names) \in SUBSET Name
    OBVIOUS
  <2> QED BY <1>4, <2>1, ListOfSet, TagAssumption DEF Wanted, Asked
<1> QED BY <1>2, <1>3, <1>4

\* What each operation is going to send, and that it is in order.
LEMMA UploadPlan ==
    ASSUME NEW o \in Order, NEW loaded \in SUBSET Name, o.op = "upload"
    PROVE  /\ Plan(o, loaded) \in Seq(Statement) /\ InOrder(Plan(o, loaded))
           /\ Range(Plan(o, loaded)) =
                 {Single("dedupe", o.gif)} \cup All("find", o.gif, Range(o.names))
                   \cup {Single("insert", o.gif)} \cup All("link", o.gif, Range(o.names))
<1> DEFINE dedupe == Once("dedupe", o.gif)
           find == Each("find", o.gif, o.names)
           insert == Once("insert", o.gif)
           link == Each("link", o.gif, o.names)
<1>1. /\ o.names \in Seq(Name) /\ IsInjective(o.names) /\ Range(o.names) \subseteq Name
      /\ o.gif \in Gif
  BY OrderTypes
<1>2. /\ find \in Seq(Statement) /\ InOrder(find)
      /\ Range(find) = All("find", o.gif, Range(o.names))
      /\ link \in Seq(Statement) /\ InOrder(link)
      /\ Range(link) = All("link", o.gif, Range(o.names))
  BY <1>1, EachInOrder DEF All
<1>3. /\ insert \in Seq(Statement) /\ InOrder(insert)
      /\ Range(insert) = {Single("insert", o.gif)}
      /\ dedupe \in Seq(Statement) /\ InOrder(dedupe)
      /\ Range(dedupe) = {Single("dedupe", o.gif)}
  BY <1>1, OnceInOrder
<1>4. Plan(o, loaded) = ((dedupe \o find) \o insert) \o link
  BY DEF Plan
<1> HIDE DEF dedupe, find, insert, link
<1> USE DEF All, Single, Send, Precedes, Naming
<1>5. /\ dedupe \o find \in Seq(Statement) /\ InOrder(dedupe \o find)
      /\ Range(dedupe \o find) = Range(dedupe) \cup Range(find)
  <2>1. \A s \in Range(dedupe), u \in Range(find) : Precedes(s, u)
    BY <1>2, <1>3
  <2> QED BY <1>2, <1>3, <2>1, OneAfterTheOther
<1>6. /\ (dedupe \o find) \o insert \in Seq(Statement) /\ InOrder((dedupe \o find) \o insert)
      /\ Range((dedupe \o find) \o insert) = Range(dedupe \o find) \cup Range(insert)
  <2>1. \A s \in Range(dedupe \o find), u \in Range(insert) : Precedes(s, u)
    BY <1>2, <1>3, <1>5
  <2> QED BY <1>3, <1>5, <2>1, OneAfterTheOther
<1>7. \A s \in Range((dedupe \o find) \o insert), u \in Range(link) : Precedes(s, u)
  BY <1>2, <1>3, <1>5, <1>6
<1>8. /\ Plan(o, loaded) \in Seq(Statement) /\ InOrder(Plan(o, loaded))
      /\ Range(Plan(o, loaded)) = Range((dedupe \o find) \o insert) \cup Range(link)
  BY <1>2, <1>4, <1>6, <1>7, OneAfterTheOther
<1> QED BY <1>2, <1>3, <1>5, <1>6, <1>8

LEMMA DeletePlan ==
    ASSUME NEW o \in Order, NEW loaded \in SUBSET Name, o.op = "delete"
    PROVE  /\ Plan(o, loaded) \in Seq(Statement) /\ InOrder(Plan(o, loaded))
           /\ Range(Plan(o, loaded)) =
                 All("unlink", o.gif, loaded)
                   \cup {Single("drop", o.gif), Single("cascade", o.gif)}
<1> DEFINE list == SetToSeq(loaded)
           unlink == Each("unlink", o.gif, list)
           drop == Once("drop", o.gif)
           cascade == Once("cascade", o.gif)
<1>1. list \in Seq(Name) /\ IsInjective(list) /\ Range(list) = loaded /\ o.gif \in Gif
  BY ListOfSet, TagAssumption, OrderTypes
<1>2. /\ unlink \in Seq(Statement) /\ InOrder(unlink)
      /\ Range(unlink) = All("unlink", o.gif, loaded)
  <2> HIDE DEF list
  <2> QED BY <1>1, EachInOrder DEF All
<1>3. /\ drop \in Seq(Statement) /\ InOrder(drop) /\ Range(drop) = {Single("drop", o.gif)}
      /\ cascade \in Seq(Statement) /\ InOrder(cascade)
      /\ Range(cascade) = {Single("cascade", o.gif)}
  BY <1>1, OnceInOrder
<1>4. Plan(o, loaded) = (unlink \o drop) \o cascade
  BY DEF Plan
<1> HIDE DEF unlink, drop, cascade
<1>5. /\ unlink \o drop \in Seq(Statement) /\ InOrder(unlink \o drop)
      /\ Range(unlink \o drop) = Range(unlink) \cup Range(drop)
  <2>1. \A s \in Range(unlink), u \in Range(drop) : Precedes(s, u)
    BY <1>2, <1>3 DEF All, Single, Send, Precedes, Naming
  <2> QED BY <1>2, <1>3, <2>1, OneAfterTheOther
<1>6. \A s \in Range(unlink \o drop), u \in Range(cascade) : Precedes(s, u)
  BY <1>2, <1>3, <1>5 DEF All, Single, Send, Precedes, Naming
<1>7. /\ (unlink \o drop) \o cascade \in Seq(Statement) /\ InOrder((unlink \o drop) \o cascade)
      /\ Range((unlink \o drop) \o cascade) = Range(unlink \o drop) \cup Range(cascade)
  BY <1>3, <1>5, <1>6, OneAfterTheOther
<1> QED BY <1>2, <1>3, <1>4, <1>5, <1>7

LEMMA RemovePlan ==
    ASSUME NEW o \in Order, NEW loaded \in SUBSET Name, o.op = "remove"
    PROVE  /\ Plan(o, loaded) \in Seq(Statement) /\ InOrder(Plan(o, loaded))
           /\ Range(Plan(o, loaded)) =
                 {Single("leave", o.gif)} \cup {Single("drop", g) : g \in GifsOf(o)}
                   \cup {Single("cascade", g) : g \in GifsOf(o)}
<1> DEFINE list == SetToSeq(GifsOf(o))
           leave == Once("leave", o.gif)
           drop == EachGif("drop", list)
           cascade == EachGif("cascade", list)
<1>1. list \in Seq(Gif) /\ Range(list) = GifsOf(o) /\ o.gif \in Gif
  BY ListOfSet, TagAssumption, OrderTypes
<1>2. /\ drop \in Seq(Statement) /\ InOrder(drop)
      /\ Range(drop) = {Single("drop", g) : g \in GifsOf(o)}
      /\ cascade \in Seq(Statement) /\ InOrder(cascade)
      /\ Range(cascade) = {Single("cascade", g) : g \in GifsOf(o)}
  <2> HIDE DEF list
  <2> QED BY <1>1, EachGifInOrder DEF Single
<1>3. /\ leave \in Seq(Statement) /\ InOrder(leave) /\ Range(leave) = {Single("leave", o.gif)}
  BY <1>1, OnceInOrder
<1>4. Plan(o, loaded) = (leave \o drop) \o cascade
  BY DEF Plan
<1> HIDE DEF leave, drop, cascade
<1>5. /\ leave \o drop \in Seq(Statement) /\ InOrder(leave \o drop)
      /\ Range(leave \o drop) = Range(leave) \cup Range(drop)
  <2>1. \A s \in Range(leave), u \in Range(drop) : Precedes(s, u)
    BY <1>2, <1>3 DEF Single, Send, Precedes, Naming
  <2> QED BY <1>2, <1>3, <2>1, OneAfterTheOther
<1>6. \A s \in Range(leave \o drop), u \in Range(cascade) : Precedes(s, u)
  BY <1>2, <1>3, <1>5 DEF Single, Send, Precedes, Naming
<1>7. /\ (leave \o drop) \o cascade \in Seq(Statement) /\ InOrder((leave \o drop) \o cascade)
      /\ Range((leave \o drop) \o cascade) = Range(leave \o drop) \cup Range(cascade)
  BY <1>2, <1>5, <1>6, OneAfterTheOther
<1> QED BY <1>2, <1>3, <1>4, <1>5, <1>7

LEMMA EditPlan ==
    ASSUME NEW o \in Order, NEW loaded \in SUBSET Name, o.op \in {"patch", "attach", "detach"}
    PROVE  /\ Plan(o, loaded) \in Seq(Statement) /\ InOrder(Plan(o, loaded))
           /\ Range(Plan(o, loaded)) =
                 All("find", o.gif, Asked(o, loaded))
                   \cup All("unlink", o.gif, loaded \ Asked(o, loaded))
                   \cup All("keep", o.gif, Asked(o, loaded) \cap loaded)
                   \cup All("link", o.gif, Asked(o, loaded) \ loaded)
                   \cup {Single("require", o.gif)}
<1> DEFINE names == Wanted(o, loaded)
           set == SetTags(o.gif, loaded, names)
           require == Once("require", o.gif)
<1>1. names \in Seq(Name) /\ IsInjective(names) /\ Range(names) = Asked(o, loaded) /\ o.gif \in Gif
  BY WantedIsAsked, OrderTypes
<1>2. /\ set \in Seq(Statement) /\ InOrder(set)
      /\ Range(set) = All("find", o.gif, Asked(o, loaded))
                        \cup All("unlink", o.gif, loaded \ Asked(o, loaded))
                        \cup All("keep", o.gif, Asked(o, loaded) \cap loaded)
                        \cup All("link", o.gif, Asked(o, loaded) \ loaded)
  <2> HIDE DEF names
  <2> QED BY <1>1, SetTagsInOrder
<1>3. /\ require \in Seq(Statement) /\ InOrder(require)
      /\ Range(require) = {Single("require", o.gif)}
  BY <1>1, OnceInOrder
<1>4. /\ o.op = "patch" => Plan(o, loaded) = set \o require
      /\ o.op # "patch" => Plan(o, loaded) = (require \o set) \o require
  BY DEF Plan
<1> HIDE DEF set, require
<1>5. \A s \in Range(set) \cup Range(require), u \in Range(require) : Precedes(s, u)
  BY <1>2, <1>3 DEF All, Single, Send, Precedes, Naming
<1>6. \A s \in Range(require), u \in Range(set) : Precedes(s, u)
  BY <1>2, <1>3 DEF All, Single, Send, Precedes, Naming
<1>7. /\ set \o require \in Seq(Statement) /\ InOrder(set \o require)
      /\ Range(set \o require) = Range(set) \cup Range(require)
  BY <1>2, <1>3, <1>5, OneAfterTheOther
<1>8. /\ require \o set \in Seq(Statement) /\ InOrder(require \o set)
      /\ Range(require \o set) = Range(require) \cup Range(set)
  BY <1>2, <1>3, <1>6, OneAfterTheOther
<1>9. /\ (require \o set) \o require \in Seq(Statement) /\ InOrder((require \o set) \o require)
      /\ Range((require \o set) \o require) = Range(require \o set) \cup Range(require)
  BY <1>3, <1>5, <1>8, OneAfterTheOther
<1> QED BY <1>2, <1>3, <1>4, <1>7, <1>8, <1>9

\* What a statement of a plan says.
LEMMA AllSay ==
    ASSUME NEW what, NEW g, NEW S, NEW s \in All(what, g, S)
    PROVE  s.do = what /\ s.gif = g /\ s.name \in S
<1>1. PICK n \in S : s = Send(what, g, n)
  BY DEF All
<1> QED BY <1>1 DEF Send

LEMMA SingleSays ==
    ASSUME NEW what, NEW g
    PROVE  Single(what, g).do = what /\ Single(what, g).gif = g
  BY DEF Single, Send

\* What is known of the plan of a request that has just read its GIF: all that is
\* linked is found before and is not there yet, and what is missing or too much is
\* linked or unlinked.
LEMMA PlanServesOrder ==
    ASSUME NEW o \in Order, NEW loaded \in SUBSET tags, tags \subseteq Name,
           o.op = "upload" => loaded = {}
    PROVE  /\ Plan(o, loaded) \in Seq(Statement) /\ InOrder(Plan(o, loaded))
           /\ \A s \in Range(Plan(o, loaded)) :
                 /\ Fits(o, s)
                 /\ s.do # "create"
                 /\ s.do = "link" => /\ s.name \notin loaded /\ s.gif = o.gif
                                     /\ Has(Range(Plan(o, loaded)), "find", s.name)
           /\ o.op = "upload" => /\ \E s \in Range(Plan(o, loaded)) : s.do = "insert"
                                 /\ \E s \in Range(Plan(o, loaded)) : s.do = "dedupe"
           /\ o.op \in {"delete", "remove"} =>
                 \A g \in GifsOf(o) : HasGif(Range(Plan(o, loaded)), "drop", g)
           /\ \A n \in loaded \ Asked(o, loaded) :
                 o.op \in {"delete", "remove"} \/ Has(Range(Plan(o, loaded)), "unlink", n)
           /\ \A n \in Asked(o, loaded) \ loaded : Has(Range(Plan(o, loaded)), "link", n)
<1>1. /\ Range(o.names) \subseteq Name /\ o.op \in Ops /\ loaded \in SUBSET Name
      /\ o.gif \in GifsOf(o) /\ (o.op # "remove" => GifsOf(o) = {o.gif})
  BY OrderTypes
<1>2. CASE o.op = "upload"
  <2> DEFINE W == Range(o.names)
             P == Range(Plan(o, loaded))
  <2>1. /\ P = {Single("dedupe", o.gif)} \cup All("find", o.gif, W)
                 \cup {Single("insert", o.gif)} \cup All("link", o.gif, W)
        /\ Plan(o, loaded) \in Seq(Statement) /\ InOrder(Plan(o, loaded))
    BY <1>1, <1>2, UploadPlan
  <2>2. Asked(o, loaded) = W /\ Asked(o, {}) = W /\ W \subseteq Name
    BY <1>1, <1>2 DEF Asked
  <2> HIDE DEF W, P
  <2>3. ASSUME NEW n \in W PROVE Has(P, "find", n) /\ Has(P, "link", n)
    <3>1. Send("find", o.gif, n) \in P /\ Send("link", o.gif, n) \in P
      BY <2>1 DEF All
    <3> QED BY <3>1 DEF Has, Send
  <2>4. ASSUME NEW s \in P
        PROVE  /\ Fits(o, s) /\ s.do # "create"
               /\ s.do = "link" => /\ s.name \notin loaded /\ s.gif = o.gif
                                   /\ Has(P, "find", s.name)
    <3>1. CASE s \in All("find", o.gif, W)
      <4>1. s.do = "find" /\ s.gif = o.gif /\ s.name \in W
        BY <3>1, AllSay
      <4> QED BY <1>1, <2>2, <4>1 DEF Fits
    <3>2. CASE s \in {Single("insert", o.gif), Single("dedupe", o.gif)}
      <4>1. s.do \in {"insert", "dedupe"} /\ s.gif = o.gif
        BY <3>2, SingleSays
      <4> QED BY <1>1, <1>2, <4>1 DEF Fits
    <3>3. CASE s \in All("link", o.gif, W)
      <4>1. s.do = "link" /\ s.gif = o.gif /\ s.name \in W
        BY <3>3, AllSay
      <4> QED BY <1>1, <1>2, <2>2, <2>3, <4>1 DEF Fits
    <3> QED BY <2>1, <3>1, <3>2, <3>3
  <2>5. (\E s \in P : s.do = "insert") /\ \E s \in P : s.do = "dedupe"
    <3>1. /\ Single("insert", o.gif) \in P /\ Single("insert", o.gif).do = "insert"
          /\ Single("dedupe", o.gif) \in P /\ Single("dedupe", o.gif).do = "dedupe"
      BY <2>1, SingleSays
    <3> QED BY <3>1
  <2> QED BY <1>2, <2>1, <2>2, <2>3, <2>4, <2>5 DEF P
<1>3. CASE o.op = "delete"
  <2> DEFINE P == Range(Plan(o, loaded))
  <2>1. /\ P = All("unlink", o.gif, loaded) \cup {Single("drop", o.gif), Single("cascade", o.gif)}
        /\ Plan(o, loaded) \in Seq(Statement) /\ InOrder(Plan(o, loaded))
    BY <1>1, <1>3, DeletePlan
  <2>2. Asked(o, loaded) = {}
    BY <1>3 DEF Asked
  <2> HIDE DEF P
  <2>3. ASSUME NEW s \in P
        PROVE  Fits(o, s) /\ s.do \notin {"create", "link"}
    <3>1. CASE s \in All("unlink", o.gif, loaded)
      <4>1. s.do = "unlink" /\ s.name \in Name /\ s.gif = o.gif
        BY <1>1, <3>1, AllSay
      <4>2. s.name \notin Asked(o, {s.name})
        BY <1>3 DEF Asked
      <4> QED BY <1>1, <4>1, <4>2 DEF Fits
    <3>2. CASE s \in {Single("drop", o.gif), Single("cascade", o.gif)}
      <4>1. s.do \in {"drop", "cascade"} /\ s.gif = o.gif
        BY <3>2, SingleSays
      <4> QED BY <1>1, <1>3, <4>1 DEF Fits
    <3> QED BY <2>1, <3>1, <3>2
  <2>4. ASSUME NEW g \in GifsOf(o) PROVE HasGif(P, "drop", g)
    <3>1. g = o.gif /\ Single("drop", g) \in P
      BY <1>1, <1>3, <2>1
    <3> QED BY <3>1, SingleSays DEF HasGif
  <2> QED BY <1>3, <2>1, <2>2, <2>3, <2>4 DEF P
<1>4. CASE o.op = "remove"
  <2> DEFINE P == Range(Plan(o, loaded))
  <2>1. /\ P = {Single("leave", o.gif)} \cup {Single("drop", g) : g \in GifsOf(o)}
                 \cup {Single("cascade", g) : g \in GifsOf(o)}
        /\ Plan(o, loaded) \in Seq(Statement) /\ InOrder(Plan(o, loaded))
    BY <1>1, <1>4, RemovePlan
  <2>2. Asked(o, loaded) = {}
    BY <1>4 DEF Asked
  <2> HIDE DEF P
  <2>3. ASSUME NEW s \in P PROVE Fits(o, s) /\ s.do \notin {"create", "link"}
    <3>1. CASE s = Single("leave", o.gif)
      <4>1. s.do = "leave" /\ s.gif = o.gif
        BY <3>1, SingleSays
      <4> QED BY <1>1, <1>4, <4>1 DEF Fits
    <3>2. CASE s \in {Single("drop", g) : g \in GifsOf(o)}
                       \cup {Single("cascade", g) : g \in GifsOf(o)}
      <4>1. s.do \in {"drop", "cascade"} /\ s.gif \in GifsOf(o)
        BY <3>2, SingleSays
      <4> QED BY <1>4, <4>1 DEF Fits
    <3> QED BY <2>1, <3>1, <3>2
  <2>4. ASSUME NEW g \in GifsOf(o) PROVE HasGif(P, "drop", g)
    <3>1. Single("drop", g) \in P
      BY <2>1
    <3> QED BY <3>1, SingleSays DEF HasGif
  <2> QED BY <1>4, <2>1, <2>2, <2>3, <2>4 DEF P
<1>5. CASE o.op \in {"patch", "attach", "detach"}
  <2>1. /\ Asked(o, loaded) \subseteq Name
        /\ \A n \in Asked(o, loaded) : n \in tags \cup Asked(o, {})
        /\ \A n \in Asked(o, loaded) \ loaded : n \in Asked(o, {})
        /\ \A n \in loaded \ Asked(o, loaded) : n \notin Asked(o, {n})
    BY <1>1, <1>5 DEF Asked
  <2> DEFINE W == Asked(o, loaded)
             P == Range(Plan(o, loaded))
  <2>2. /\ P = All("find", o.gif, W) \cup All("unlink", o.gif, loaded \ W)
                 \cup All("keep", o.gif, W \cap loaded)
                 \cup All("link", o.gif, W \ loaded) \cup {Single("require", o.gif)}
        /\ Plan(o, loaded) \in Seq(Statement) /\ InOrder(Plan(o, loaded))
    BY <1>1, <1>5, EditPlan
  <2> HIDE DEF W, P
  <2>3. ASSUME NEW s \in P
        PROVE  /\ Fits(o, s) /\ s.do # "create"
               /\ s.do = "link" => /\ s.name \notin loaded /\ s.gif = o.gif
                                   /\ Has(P, "find", s.name)
    <3>1. CASE s \in All("find", o.gif, W)
      <4>1. s.do = "find" /\ s.gif = o.gif /\ s.name \in W
        BY <3>1, AllSay
      <4> QED BY <1>1, <1>5, <2>1, <4>1 DEF Fits, W
    <3>2. CASE s \in All("unlink", o.gif, loaded \ W)
      <4>1. s.do = "unlink" /\ s.gif = o.gif /\ s.name \in loaded \ W
        BY <3>2, AllSay
      <4> QED BY <1>1, <1>5, <2>1, <4>1 DEF Fits, W
    <3>3. CASE s \in All("keep", o.gif, W \cap loaded) \cup {Single("require", o.gif)}
      <4>1. s.do \in {"keep", "require"} /\ s.gif = o.gif
        BY <3>3, AllSay, SingleSays
      <4> QED BY <1>1, <1>5, <4>1 DEF Fits
    <3>4. CASE s \in All("link", o.gif, W \ loaded)
      <4>1. s.do = "link" /\ s.gif = o.gif /\ s.name \in W \ loaded
        BY <3>4, AllSay
      <4>2. Send("find", o.gif, s.name) \in P
        BY <2>2, <4>1 DEF All
      <4>3. Has(P, "find", s.name)
        BY <4>2 DEF Has, Send
      <4> QED BY <1>1, <2>1, <4>1, <4>3 DEF Fits, W
    <3> QED BY <2>2, <3>1, <3>2, <3>3, <3>4
  <2>4. ASSUME NEW n \in loaded \ W PROVE Has(P, "unlink", n)
    <3>1. Send("unlink", o.gif, n) \in P
      BY <2>2 DEF All
    <3> QED BY <3>1 DEF Has, Send
  <2>5. ASSUME NEW n \in W \ loaded PROVE Has(P, "link", n)
    <3>1. Send("link", o.gif, n) \in P
      BY <2>2 DEF All
    <3> QED BY <3>1 DEF Has, Send
  <2> QED BY <1>5, <2>2, <2>3, <2>4, <2>5 DEF W, P
<1> QED BY <1>1, <1>2, <1>3, <1>4, <1>5 DEF Ops

-----------------------------------------------------------------------------
(* Steps of one request that change no table.                              *)

\* The request r goes on, with the statements t to be sent and d done.
Moves(r, t, d) ==
    /\ UNCHANGED Database
    /\ job' \in [Request -> Job]
    /\ job'[r].state = "busy" /\ job'[r].order = job[r].order
    /\ job'[r].todo = t /\ job'[r].done = d /\ job'[r].met = job[r].met
    /\ \A q \in Request \ {r} : job'[q] = job[q]

\* What must be so of t and d for the invariant to go on.
ServesPlan(r, t, d) ==
    LET W == Range(t) \cup d
        o == job[r].order IN
    /\ InOrder(t)
    /\ \A s \in W : Fits(o, s)
    /\ \A e \in d : /\ e.do \notin Reading
                    /\ \A s \in Range(t) : Precedes(e, s)
                    /\ e.do = "link" => HasGif(W, "refer", e.gif)
    /\ \A s \in W : s.do = "link" =>
          s.name \in tags \/ Has(W, "create", s.name) \/ Has(W, "find", s.name)
    /\ o.op = "upload" => \E s \in W : s.do = "insert"

ServesLocks(r, d) ==
    \A e \in d : e.do \in {"refer", "drop"} =>
        /\ e.do = "refer" /\ job[r].order.op # "upload" => e.gif \in gifs
        /\ \A q \in Request : q # r /\ Busy(q) =>
              \A f \in job[q].done : f.gif = e.gif => {e.do, f.do} # {"refer", "drop"}

ServesCreates(r, t) ==
    \A s \in Range(t) : s.do = "create" /\ s.name \in tags =>
        \E p \in job[r].met : s.name \in Range(p.names)

ServesLone(r, t, d) ==
    LET W == Range(t) \cup d
        o == job[r].order
        list == gifTags[o.gif] IN
    /\ o.op \notin {"upload", "remove"} => o.gif \in gifs
    /\ o.op = "upload" =>
          /\ OwnerOf[o.gif] \in owners
          /\ (\E g \in gifs : SameFile(g, o.gif)) => \E s \in Range(t) : s.do = "dedupe"
    /\ o.op \in {"delete", "remove"} => \A g \in GifsOf(o) : g \in gifs => HasGif(W, "drop", g)
    /\ \A s \in W : s.do = "link" => s.name \notin gifTags[s.gif]
    /\ \A n \in list \ Asked(o, list) : o.op \in {"delete", "remove"} \/ Has(W, "unlink", n)
    /\ \A n \in Asked(o, list) \ list : Has(W, "link", n)

LEMMA MoveKeeps ==
    ASSUME TagInv, NEW r \in Request, Busy(r),
           NEW t \in Seq(Statement), NEW d \in SUBSET Statement, Moves(r, t, d),
           ServesPlan(r, t, d), ServesLocks(r, d), ServesCreates(r, t),
           Rivals(r) = {} => ServesLone(r, t, d)
    PROVE  TagInv'
<1>1. /\ owners' = owners /\ tags' = tags /\ gifs' = gifs /\ gifTags' = gifTags
      /\ job'[r].state = "busy" /\ job'[r].order = job[r].order
      /\ job'[r].todo = t /\ job'[r].done = d /\ job'[r].met = job[r].met
      /\ job[r].state = "busy"
  BY DEF Moves, Database, Busy
<1>2. ASSUME NEW q \in Request, q # r PROVE job'[q] = job[q]
  BY <1>2 DEF Moves
<1>3. ASSUME NEW q \in Request
      PROVE  /\ job'[q].state = job[q].state /\ job'[q].order = job[q].order
             /\ job'[q].met = job[q].met
  <2>1. CASE q = r
    BY <1>1, <2>1
  <2>2. CASE q # r
    BY <1>2, <2>2
  <2> QED BY <2>1, <2>2
<1>4. TagTypeOK'
  BY <1>1 DEF Moves, TagInv, TagTypeOK
<1>5. PlansOK'
  <2>1. ASSUME NEW q \in Request, q # r, Busy(q)' PROVE PlanOK(q)'
    <3>1. PlanOK(q)
      BY <1>2, <2>1 DEF TagInv, PlansOK, Busy
    <3> QED BY <1>1, <1>2, <2>1, <3>1 DEF PlanOK, Whole, Ahead, Fits
  <2>2. PlanOK(r)'
    BY <1>1 DEF ServesPlan, PlanOK, Whole, Ahead, Fits
  <2> QED BY <2>1, <2>2 DEF PlansOK
<1>6. LocksOK'
  <2> SUFFICES ASSUME NEW p \in Request, job'[p].state = "busy",
                      NEW e \in job'[p].done, e.do = "refer"
               PROVE  /\ job'[p].order.op # "upload" => e.gif \in gifs
                      /\ \A q \in Request : q # p /\ job'[q].state = "busy" =>
                            \A f \in job'[q].done : ~(f.do = "drop" /\ f.gif = e.gif)
    BY <1>1 DEF LocksOK, Busy, HasGif
  <2>1. CASE p = r
    <3>1. /\ job[r].order.op # "upload" => e.gif \in gifs
          /\ \A q \in Request : q # r /\ Busy(q) =>
                \A f \in job[q].done : f.gif = e.gif => {"refer", f.do} # {"refer", "drop"}
      BY <1>1, <2>1 DEF ServesLocks
    <3> QED BY <1>1, <1>2, <2>1, <3>1 DEF Busy
  <2>2. CASE p # r
    <3>1. /\ job'[p] = job[p] /\ Busy(p)
          /\ job[p].order.op # "upload" => e.gif \in gifs
          /\ \A q \in Request : q # p /\ Busy(q) => ~HasGif(job[q].done, "drop", e.gif)
      BY <1>2, <2>2 DEF TagInv, LocksOK, Busy
    <3>2. ASSUME NEW q \in Request, q # p, job'[q].state = "busy", NEW f \in job'[q].done
          PROVE  ~(f.do = "drop" /\ f.gif = e.gif)
      <4>1. CASE q = r
        <5>1. ASSUME f.do = "drop", f.gif = e.gif PROVE FALSE
          <6>1. f \in d /\ e \in job[p].done
            BY <1>1, <3>1, <3>2, <4>1
          <6>2. {f.do, e.do} # {"refer", "drop"}
            BY <2>2, <3>1, <5>1, <6>1 DEF ServesLocks
          <6> QED BY <5>1, <6>2
        <5> QED BY <5>1
      <4>2. CASE q # r
        BY <1>2, <3>1, <3>2, <4>2 DEF Busy, HasGif
      <4> QED BY <4>1, <4>2
    <3> QED BY <3>1, <3>2
  <2> QED BY <2>1, <2>2
<1>7. UploadsOK' /\ MeetsOK'
  BY <1>1, <1>3 DEF TagInv, UploadsOK, MeetsOK, Busy
<1>8. CreatesOK'
  <2>1. ASSUME NEW q \in Request, job'[q].state = "busy", NEW s \in Range(job'[q].todo),
               s.do = "create", s.name \in tags
        PROVE  \E o \in job'[q].met : s.name \in Range(o.names)
    <3>1. CASE q = r
      BY <1>1, <2>1, <3>1 DEF ServesCreates
    <3>2. CASE q # r
      BY <1>2, <2>1, <3>2 DEF TagInv, CreatesOK, Busy, Ahead
    <3> QED BY <3>1, <3>2
  <2> QED BY <1>1, <2>1 DEF CreatesOK, Busy, Ahead
<1>9. LonesOK'
  <2>1. ASSUME NEW q \in Request, q # r, Busy(q)', Rivals(q)' = {} PROVE LoneOK(q)'
    <3>1. LoneOK(q)
      BY <1>2, <2>1 DEF TagInv, LonesOK, Busy, Rivals
    <3> QED BY <1>1, <1>2, <2>1, <3>1 DEF LoneOK, Whole, Ahead
  <2>2. ASSUME Rivals(r)' = {} PROVE LoneOK(r)'
    <3>1. ServesLone(r, t, d)
      BY <1>1, <2>2 DEF Rivals
    <3> QED BY <1>1, <3>1 DEF ServesLone, LoneOK, Whole, Ahead
  <2> QED BY <2>1, <2>2 DEF LonesOK
<1> QED BY <1>4, <1>5, <1>6, <1>7, <1>8, <1>9 DEF TagInv

\* A request that is busy.
LEMMA BusyTypes ==
    ASSUME TagTypeOK, NEW r \in Request, Busy(r)
    PROVE  /\ job[r] \in [state: {"busy"}, order: Order, todo: Seq(Statement),
                          done: SUBSET Statement, met: SUBSET Order]
           /\ job[r].order \in Order /\ job[r].todo \in Seq(Statement)
           /\ job[r].done \subseteq Statement /\ job[r].met \subseteq Order
<1>1. job[r] \in Job /\ job[r].state = "busy"
  BY DEF TagTypeOK, Busy
<1>2. job[r] \notin {[New EXCEPT !.state = how] : how \in {"new"} \cup Outcomes}
  BY <1>1 DEF New, Outcomes
<1>3. job[r] \in [state: {"busy"}, order: Order, todo: Seq(Statement),
                  done: SUBSET Statement, met: SUBSET Order]
  BY <1>1, <1>2 DEF Job
<1> QED BY <1>3

\* A record with other statements is that of a request that goes on.
LEMMA MovesOn ==
    ASSUME TagTypeOK, NEW r \in Request, Busy(r), UNCHANGED Database,
           NEW t \in Seq(Statement), NEW d \in SUBSET Statement,
           job' = [job EXCEPT ![r] = [job[r] EXCEPT !.todo = t, !.done = d]]
    PROVE  Moves(r, t, d)
<1> DEFINE R == [state: {"busy"}, order: Order, todo: Seq(Statement),
                 done: SUBSET Statement, met: SUBSET Order]
           j == [job[r] EXCEPT !.todo = t, !.done = d]
<1>1. job[r] \in R /\ job \in [Request -> Job]
  BY BusyTypes DEF TagTypeOK
<1>2. /\ j \in R /\ j.state = "busy" /\ j.order = job[r].order
      /\ j.todo = t /\ j.done = d /\ j.met = job[r].met
  BY <1>1
<1>3. job' = [job EXCEPT ![r] = j] /\ j \in Job
  BY <1>2 DEF Job
<1> HIDE DEF j, R
<1>4. job'[r] = j /\ job' \in [Request -> Job] /\ \A q \in Request \ {r} : job'[q] = job[q]
  BY <1>1, <1>3
<1> QED BY <1>2, <1>4 DEF Moves

LEMMA SkipMoves ==
    ASSUME TagTypeOK, NEW r \in Request, Busy(r), job[r].todo # <<>>,
           Skip(r), UNCHANGED Database
    PROVE  Moves(r, Tail(job[r].todo), job[r].done)
<1>1. /\ job[r] \in [state: {"busy"}, order: Order, todo: Seq(Statement),
                     done: SUBSET Statement, met: SUBSET Order]
      /\ Tail(job[r].todo) \in Seq(Statement) /\ job \in [Request -> Job]
  BY BusyTypes, FirstAndRest DEF TagTypeOK
<1>2. [job[r] EXCEPT !.todo = Tail(job[r].todo)]
        = [job[r] EXCEPT !.todo = Tail(job[r].todo), !.done = job[r].done]
  BY <1>1
<1>3. job' = [job EXCEPT ![r] = [job[r] EXCEPT !.todo = Tail(job[r].todo)]]
  BY <1>1 DEF Skip
<1>4. job' = [job EXCEPT ![r] =
                 [job[r] EXCEPT !.todo = Tail(job[r].todo), !.done = job[r].done]]
  BY <1>2, <1>3
<1> QED BY <1>1, <1>4, MovesOn

LEMMA PerformMoves ==
    ASSUME TagTypeOK, NEW r \in Request, Busy(r), job[r].todo # <<>>,
           Perform(r), UNCHANGED Database
    PROVE  Moves(r, Tail(job[r].todo), job[r].done \cup {Head(job[r].todo)})
<1>1. /\ job[r] \in [state: {"busy"}, order: Order, todo: Seq(Statement),
                     done: SUBSET Statement, met: SUBSET Order]
      /\ Tail(job[r].todo) \in Seq(Statement) /\ job \in [Request -> Job]
      /\ job[r].done \cup {Head(job[r].todo)} \in SUBSET Statement
  BY BusyTypes, FirstAndRest DEF TagTypeOK
<1>2. job' = [job EXCEPT ![r] = [job[r] EXCEPT !.todo = Tail(job[r].todo),
                                              !.done = job[r].done \cup {Head(job[r].todo)}]]
  BY <1>1 DEF Perform
<1> QED BY <1>1, <1>2, MovesOn

\* The statement that comes in the place of the first one.
Instead(s, what) == [s EXCEPT !.do = what]

LEMMA GoOnMoves ==
    ASSUME TagTypeOK, NEW r \in Request, Busy(r), job[r].todo # <<>>,
           NEW what \in {"create", "own", "refer"}, NEW held \in SUBSET Statement,
           GoOn(r, what, held), UNCHANGED Database
    PROVE  LET c == Instead(Head(job[r].todo), what)
               t == <<c>> \o Tail(job[r].todo) IN
           /\ c \in Statement /\ c.do = what
           /\ c.gif = Head(job[r].todo).gif /\ c.name = Head(job[r].todo).name
           /\ t \in Seq(Statement)
           /\ Moves(r, t, job[r].done \cup held)
<1> DEFINE c == Instead(Head(job[r].todo), what)
           t == <<c>> \o Tail(job[r].todo)
<1>1. /\ job[r] \in [state: {"busy"}, order: Order, todo: Seq(Statement),
                     done: SUBSET Statement, met: SUBSET Order]
      /\ Tail(job[r].todo) \in Seq(Statement) /\ job \in [Request -> Job]
      /\ Head(job[r].todo) \in Statement
      /\ job[r].done \cup held \in SUBSET Statement
  BY BusyTypes, FirstAndRest DEF TagTypeOK
<1>2. /\ c \in Statement /\ c.do = what
      /\ c.gif = Head(job[r].todo).gif /\ c.name = Head(job[r].todo).name
  BY <1>1 DEF Instead, Statement
<1>3. job' = [job EXCEPT ![r] = [job[r] EXCEPT !.todo = t, !.done = job[r].done \cup held]]
  BY <1>1 DEF GoOn, Instead
<1> HIDE DEF c
<1>4. t \in Seq(Statement)
  BY <1>1, <1>2, ConcatProperties, OneStatement
<1> HIDE DEF t
<1>5. Moves(r, t, job[r].done \cup held)
  BY <1>1, <1>3, <1>4, MovesOn
<1> QED BY <1>2, <1>4, <1>5 DEF c, t


\* The locks that r holds already.
LEMMA HeldLocks ==
    ASSUME TagInv, NEW r \in Request, Busy(r)
    PROVE  ServesLocks(r, job[r].done)
<1>1. ASSUME NEW e \in job[r].done, e.do = "refer"
      PROVE  /\ job[r].order.op # "upload" => e.gif \in gifs
             /\ \A q \in Request : q # r /\ Busy(q) =>
                   \A f \in job[q].done : f.gif = e.gif => f.do # "drop"
  BY <1>1 DEF TagInv, LocksOK, HasGif
<1>2. ASSUME NEW e \in job[r].done, e.do = "drop",
             NEW q \in Request, q # r, Busy(q), NEW f \in job[q].done, f.gif = e.gif
      PROVE  f.do # "refer"
  BY <1>2 DEF TagInv, LocksOK, HasGif
<1> QED BY <1>1, <1>2 DEF ServesLocks

\* The plan of r and what is known of it.
LEMMA PlanFacts ==
    ASSUME TagInv, NEW r \in Request, Busy(r), job[r].todo # <<>>
    PROVE  LET s == Head(job[r].todo)
               rest == Range(Tail(job[r].todo)) IN
           /\ s \in Statement /\ rest \subseteq Statement
           /\ Range(job[r].todo) = {s} \cup rest
           /\ Whole(r) = {s} \cup rest \cup job[r].done
           /\ InOrder(Tail(job[r].todo))
           /\ \A u \in rest : Precedes(s, u)
           /\ PlanOK(r)
<1>1. PlanOK(r) /\ job[r].todo \in Seq(Statement)
  BY BusyTypes DEF TagInv, PlansOK
<1>2. InOrder(job[r].todo)
  BY <1>1 DEF PlanOK
<1>3. Range(Tail(job[r].todo)) \subseteq Statement
  BY <1>1, FirstAndRest, RangeOfSeq
<1> QED BY <1>1, <1>2, <1>3, FirstAndRest DEF Whole, Ahead

\* A statement that changes nothing is left out.
LEMMA SkipKeeps ==
    ASSUME TagInv, NEW r \in Request, Busy(r), job[r].todo # <<>>,
           Skip(r), UNCHANGED Database,
           NEW s, s = Head(job[r].todo),
           s.do \in {"dedupe", "find", "keep", "require", "unlink", "leave", "drop", "cascade"},
           s.do = "dedupe" => ~\E g \in gifs : SameFile(g, s.gif),
           s.do = "find" => s.name \in tags,
           s.do = "unlink" => s.name \notin gifTags[s.gif],
           s.do = "drop" => s.gif \notin gifs
    PROVE  TagInv'
<1> DEFINE t == Tail(job[r].todo)
           d == job[r].done
           o == job[r].order
           W == Range(t) \cup d
<1>1. /\ t \in Seq(Statement) /\ d \in SUBSET Statement /\ o \in Order
      /\ Range(job[r].todo) = {s} \cup Range(t)
      /\ Whole(r) = {s} \cup W
      /\ InOrder(t) /\ \A u \in Range(t) : Precedes(s, u)
      /\ PlanOK(r)
  BY PlanFacts, BusyTypes, FirstAndRest DEF TagInv
<1>2. Moves(r, t, d)
  BY SkipMoves DEF TagInv
<1>3. Fits(o, s) /\ (o.op # "remove" => s.gif = o.gif)
  <2>1. Fits(o, s)
    BY <1>1 DEF PlanOK
  <2> QED BY <1>1, <2>1, OrderTypes DEF Fits
<1>4. ServesLocks(r, d)
  BY HeldLocks
<1> HIDE DEF t, d
<1>5. ServesPlan(r, t, d)
  <2>1. /\ \A u \in W : Fits(o, u)
        /\ o.op = "upload" => \E u \in W : u.do = "insert"
        /\ \A e \in d : e.do \notin Reading /\ \A u \in Range(t) : Precedes(e, u)
    BY <1>1 DEF PlanOK, Ahead, d
  <2>2. \A e \in d : e.do = "link" => HasGif(W, "refer", e.gif)
    BY <1>1 DEF PlanOK, HasGif, d
  <2>3. ASSUME NEW u \in W, u.do = "link"
        PROVE  u.name \in tags \/ Has(W, "create", u.name) \/ Has(W, "find", u.name)
    BY <1>1, <2>3 DEF PlanOK, Has
  <2> QED BY <1>1, <2>1, <2>2, <2>3 DEF ServesPlan
<1>6. ServesCreates(r, t)
  BY <1>1 DEF TagInv, CreatesOK, Ahead, ServesCreates
<1>7. ASSUME Rivals(r) = {} PROVE ServesLone(r, t, d)
  <2> DEFINE list == gifTags[o.gif]
  <2>1. LoneOK(r)
    BY <1>7 DEF TagInv, LonesOK
  <2>2. o.op = "upload" =>
           /\ OwnerOf[o.gif] \in owners
           /\ (\E g \in gifs : SameFile(g, o.gif)) => \E u \in Range(t) : u.do = "dedupe"
    BY <1>1, <1>3, <2>1 DEF LoneOK, Ahead
  <2>3. o.op \in {"delete", "remove"} => \A g \in GifsOf(o) : g \in gifs => HasGif(W, "drop", g)
    BY <1>1, <2>1 DEF LoneOK, HasGif
  <2>4. \A n \in list \ Asked(o, list) : o.op \in {"delete", "remove"} \/ Has(W, "unlink", n)
    BY <1>1, <1>3, <2>1 DEF LoneOK, Has
  <2>5. \A n \in Asked(o, list) \ list : Has(W, "link", n)
    BY <1>1, <2>1 DEF LoneOK, Has
  <2>6. \A u \in W : u.do = "link" => u.name \notin gifTags[u.gif]
    BY <1>1, <2>1 DEF LoneOK
  <2> QED BY <2>1, <2>2, <2>3, <2>4, <2>5, <2>6 DEF LoneOK, ServesLone
<1> QED BY <1>1, <1>2, <1>4, <1>5, <1>6, <1>7, MoveKeeps

\* A statement is performed and takes its locks.
LEMMA PerformKeeps ==
    ASSUME TagInv, NEW r \in Request, Busy(r), job[r].todo # <<>>,
           Perform(r), UNCHANGED Database,
           NEW s, s = Head(job[r].todo),
           s.do \notin Reading \cup {"link", "insert"},
           ServesLocks(r, {s})
    PROVE  TagInv'
<1> DEFINE t == Tail(job[r].todo)
           d == job[r].done \cup {s}
           o == job[r].order
           W == Range(t) \cup d
<1>1. /\ t \in Seq(Statement) /\ d \in SUBSET Statement
      /\ Range(job[r].todo) = {s} \cup Range(t)
      /\ Whole(r) = W
      /\ InOrder(t) /\ \A u \in Range(t) : Precedes(s, u)
      /\ PlanOK(r)
  <2>1. /\ t \in Seq(Statement) /\ job[r].done \subseteq Statement /\ s \in Statement
        /\ Range(job[r].todo) = {s} \cup Range(t)
        /\ Whole(r) = {s} \cup Range(t) \cup job[r].done
        /\ InOrder(t) /\ \A u \in Range(t) : Precedes(s, u)
        /\ PlanOK(r)
    BY PlanFacts, BusyTypes, FirstAndRest DEF TagInv
  <2> QED BY <2>1
<1>2. Moves(r, t, d)
  BY PerformMoves DEF TagInv
<1>3. ServesPlan(r, t, d)
  <2>1. ASSUME NEW e \in d
        PROVE  /\ e.do \notin Reading
               /\ \A u \in Range(t) : Precedes(e, u)
               /\ e.do = "link" => HasGif(W, "refer", e.gif)
    <3>1. CASE e = s
      BY <1>1, <3>1
    <3>2. CASE e \in job[r].done
      <4> HIDE DEF t
      <4> QED BY <1>1, <3>2 DEF PlanOK, Ahead
    <3> QED BY <2>1, <3>1, <3>2
  <2> HIDE DEF t, d
  <2> QED BY <1>1, <2>1 DEF PlanOK, ServesPlan
<1>4. ServesLocks(r, d)
  BY HeldLocks DEF ServesLocks
<1> HIDE DEF t, d
<1>5. ServesCreates(r, t)
  BY <1>1 DEF TagInv, CreatesOK, Ahead, ServesCreates
<1>6. ASSUME Rivals(r) = {} PROVE ServesLone(r, t, d)
  <2>1. LoneOK(r)
    BY <1>6 DEF TagInv, LonesOK
  <2>2. (\E u \in Ahead(r) : u.do = "dedupe") => \E u \in Range(t) : u.do = "dedupe"
    BY <1>1 DEF Ahead, Reading
  <2> QED BY <1>1, <2>1, <2>2 DEF LoneOK, ServesLone
<1> QED BY <1>1, <1>2, <1>3, <1>4, <1>5, <1>6, MoveKeeps

\* What is sent next comes of what was sent: a name that was not found is going to
\* be inserted; a row that was entered has its foreign keys checked.
LEMMA GoOnKeeps ==
    ASSUME TagInv, NEW r \in Request, Busy(r), job[r].todo # <<>>,
           NEW what, NEW held, GoOn(r, what, held), UNCHANGED Database,
           NEW s, s = Head(job[r].todo),
           \/ s.do = "find" /\ what = "create" /\ held = {} /\ s.name \notin tags
           \/ s.do = "insert" /\ what = "own" /\ held = {s}
           \/ s.do = "link" /\ what = "refer" /\ held = {s}
    PROVE  TagInv'
<1> DEFINE c == Instead(s, what)
           rest == Tail(job[r].todo)
           t == <<c>> \o rest
           d == job[r].done \cup held
           o == job[r].order
           W == Range(t) \cup d
<1>1. /\ rest \in Seq(Statement) /\ job[r].done \in SUBSET Statement /\ s \in Statement
      /\ Range(job[r].todo) = {s} \cup Range(rest)
      /\ Whole(r) = {s} \cup Range(rest) \cup job[r].done
      /\ InOrder(rest) /\ \A u \in Range(rest) : Precedes(s, u)
      /\ PlanOK(r)
  BY PlanFacts, BusyTypes, FirstAndRest DEF TagInv
<1>2. /\ Fits(o, s)
      /\ \A e \in job[r].done : Precedes(e, s) /\ \A u \in Range(rest) : Precedes(e, u)
  BY <1>1 DEF PlanOK, Ahead
<1>3. held \in SUBSET Statement /\ what \in {"create", "own", "refer"}
  BY <1>1
<1>4. /\ c \in Statement /\ c.do = what /\ c.gif = s.gif /\ c.name = s.name
      /\ t \in Seq(Statement) /\ Moves(r, t, d) /\ d \in SUBSET Statement
  BY <1>1, <1>3, GoOnMoves DEF TagInv
<1> HIDE DEF c
<1>5. Range(t) = {c} \cup Range(rest) /\ InOrder(t)
  <2>1. \A u \in Range(rest) : Precedes(c, u)
    BY <1>1, <1>4 DEF Precedes, Naming
  <2>2. <<c>> \in Seq(Statement) /\ Range(<<c>>) = {c} /\ InOrder(<<c>>)
    BY <1>4, OneStatement
  <2> HIDE DEF rest
  <2> QED BY <1>1, <2>1, <2>2, OneAfterTheOther
<1>6. \A e \in d : Precedes(e, c) /\ \A u \in Range(rest) : Precedes(e, u)
  <2>1. ASSUME NEW e \in job[r].done PROVE Precedes(e, c)
    BY <1>2, <1>4 DEF Precedes, Naming
  <2>2. held # {} => Precedes(s, c)
    BY <1>4 DEF Precedes, Naming
  <2> HIDE DEF rest
  <2> QED BY <1>1, <1>2, <2>1, <2>2
<1> HIDE DEF t, rest
<1>7. /\ W = {c} \cup Range(rest) \cup d
      /\ Whole(r) = {s} \cup Range(rest) \cup job[r].done
      /\ s.do # "find" => s \in d
      /\ \A u \in W : u = c \/ u \in Whole(r)
      /\ \A u \in Whole(r) : u.do # "find" \/ u # s => u \in W
  BY <1>1, <1>5
<1>8. ServesPlan(r, t, d)
  <2>1. Fits(o, c)
    BY <1>2, <1>4 DEF Fits
  <2>2. \A u \in W : Fits(o, u)
    BY <1>1, <1>7, <2>1 DEF PlanOK
  <2>3. o.op = "upload" => \E u \in W : u.do = "insert"
    BY <1>1, <1>7 DEF PlanOK
  <2>4. \A e \in d : e.do \notin Reading /\ \A u \in Range(t) : Precedes(e, u)
    BY <1>1, <1>5, <1>6 DEF PlanOK, Reading
  <2>5. ASSUME NEW e \in d, e.do = "link" PROVE HasGif(W, "refer", e.gif)
    <3>1. CASE e = s
      <4>1. c.do = "refer" /\ c.gif = e.gif /\ c \in W
        BY <1>4, <1>7, <2>5, <3>1
      <4> QED BY <4>1 DEF HasGif
    <3>2. CASE e # s
      <4>1. e \in job[r].done
        BY <3>2
      <4> QED BY <1>1, <1>7, <2>5, <4>1 DEF PlanOK, HasGif
    <3> QED BY <3>1, <3>2
  <2>6. ASSUME NEW u \in W, u.do = "link"
        PROVE  u.name \in tags \/ Has(W, "create", u.name) \/ Has(W, "find", u.name)
    <3>1. u.name \in tags \/ Has(Whole(r), "create", u.name) \/ Has(Whole(r), "find", u.name)
      BY <1>1, <1>4, <1>7, <2>6 DEF PlanOK
    <3> HIDE DEF W, d
    <3>2. s.do = "find" => c.do = "create"
      BY <1>4
    <3> QED BY <1>4, <1>7, <3>1, <3>2 DEF Has
  <2> QED BY <1>5, <2>2, <2>3, <2>4, <2>5, <2>6 DEF ServesPlan
<1>9. ServesLocks(r, d)
  BY HeldLocks DEF ServesLocks
<1>10. ServesCreates(r, t)
  BY <1>1, <1>4, <1>5 DEF TagInv, CreatesOK, Ahead, ServesCreates
<1>11. ASSUME Rivals(r) = {} PROVE ServesLone(r, t, d)
  <2>1. LoneOK(r)
    BY <1>11 DEF TagInv, LonesOK
  <2>2. (\E u \in Ahead(r) : u.do = "dedupe") => \E u \in Range(t) : u.do = "dedupe"
    BY <1>1, <1>5 DEF Ahead
  <2>3. \A g : HasGif(Whole(r), "drop", g) => HasGif(W, "drop", g)
    BY <1>7 DEF HasGif
  <2>4. \A n : /\ Has(Whole(r), "unlink", n) => Has(W, "unlink", n)
               /\ Has(Whole(r), "link", n) => Has(W, "link", n)
    BY <1>7 DEF Has
  <2>5. \A u \in W : u.do = "link" => u \in Whole(r)
    BY <1>4, <1>7
  <2> HIDE DEF W, d
  <2> QED BY <2>1, <2>2, <2>3, <2>4, <2>5 DEF LoneOK, ServesLone, W
<1> QED BY <1>4, <1>8, <1>9, <1>10, <1>11, MoveKeeps

-----------------------------------------------------------------------------
(* Requests that end and requests that arrive.                             *)

\* The request is over, the others are as they were.
LEMMA EndTypes ==
    ASSUME TagTypeOK, NEW r \in Request, NEW how \in Outcomes, End(r, how)
    PROVE  /\ job' \in [Request -> Job] /\ job'[r].state = how /\ how # "busy"
           /\ \A q \in Request \ {r} : job'[q] = job[q]
<1> DEFINE j == [New EXCEPT !.state = how]
<1>1. j \in Job /\ j.state = how /\ how # "busy"
  BY DEF Job, New, Outcomes
<1>2. job \in [Request -> Job] /\ job' = [job EXCEPT ![r] = j]
  BY DEF TagTypeOK, End
<1> HIDE DEF j
<1> QED BY <1>1, <1>2

LEMMA EndKeeps ==
    ASSUME TagInv, NEW r \in Request, NEW how \in Outcomes, End(r, how), UNCHANGED Database
    PROVE  TagInv'
<1>1. /\ owners' = owners /\ tags' = tags /\ gifs' = gifs /\ gifTags' = gifTags
      /\ job' \in [Request -> Job] /\ job'[r].state # "busy"
      /\ \A q \in Request \ {r} : job'[q] = job[q]
  BY EndTypes DEF TagInv, Database
<1>2. ASSUME NEW q \in Request, job'[q].state = "busy"
      PROVE  q # r /\ job'[q] = job[q] /\ Busy(q)
  BY <1>1, <1>2 DEF Busy
<1>3. TagTypeOK'
  BY <1>1 DEF TagInv, TagTypeOK
<1>4. PlansOK'
  <2>1. ASSUME NEW q \in Request, Busy(q)' PROVE PlanOK(q)'
    <3>1. PlanOK(q)
      BY <1>2, <2>1 DEF TagInv, PlansOK, Busy
    <3> QED BY <1>1, <1>2, <2>1, <3>1 DEF PlanOK, Whole, Ahead, Fits, Busy
  <2> QED BY <2>1 DEF PlansOK
<1>5. LocksOK'
  BY <1>1, <1>2 DEF TagInv, LocksOK, Busy
<1>6. UploadsOK' /\ MeetsOK'
  BY <1>1, <1>2 DEF TagInv, UploadsOK, MeetsOK, Busy
<1>7. CreatesOK'
  BY <1>1, <1>2 DEF TagInv, CreatesOK, Busy, Ahead
<1>8. LonesOK'
  <2>1. ASSUME NEW q \in Request, Busy(q)', Rivals(q)' = {} PROVE LoneOK(q)'
    <3>1. LoneOK(q) /\ job'[q] = job[q]
      BY <1>2, <2>1 DEF TagInv, LonesOK, Busy, Rivals
    <3> QED BY <1>1, <3>1 DEF LoneOK, Whole, Ahead
  <2> QED BY <2>1 DEF LonesOK
<1> QED BY <1>3, <1>4, <1>5, <1>6, <1>7, <1>8 DEF TagInv

\* What a name has to do with what was asked depends on that name only.
LEMMA AskedEach ==
    ASSUME NEW o \in Order, NEW list, NEW n
    PROVE  /\ n \in list => (n \in Asked(o, list) <=> n \in Asked(o, {n}))
           /\ n \notin list => (n \in Asked(o, list) <=> n \in Asked(o, {}))
           /\ Asked(o, {}) \subseteq Range(o.names)
  BY OrderTypes DEF Asked, Ops

\* What a commit writes: names the request created, and for its GIFs what it asked.
LEMMA CommitWrites ==
    ASSUME TagInv, NEW r \in Request, Commit(r)
    PROVE  LET o == job[r].order IN
           /\ Busy(r) /\ Whole(r) = job[r].done /\ PlanOK(r) /\ o \in Order
           /\ owners' \subseteq owners
           /\ \A a \in owners \ owners' : o.op = "remove" /\ a = OwnerOf[o.gif]
           /\ tags \subseteq tags' /\ tags' \subseteq Name
           /\ \A n \in tags' : n \in tags \/ n \in Range(o.names)
           /\ gifs' \subseteq Gif
           /\ \A h \in gifs' \ gifs : o.op = "upload" /\ h = o.gif
           /\ \A h \in gifs \ gifs' : h \in Gone(r)
           /\ \A h \in Gone(r) : /\ h \in GifsOf(o) /\ h \notin gifs'
                                 /\ o.op \in {"delete", "remove"}
           /\ o.op = "upload" => o.gif \in gifs'
           /\ gifTags' \in [Gif -> SUBSET tags']
           /\ \A h \in Gif : gifTags'[h] = ListAfter(r, h)
           /\ \A h \in Gif \ GifsOf(o) : gifTags'[h] = gifTags[h]
           /\ \A h \in Gif : gifTags'[h] # {} => h \in gifs'
<1> DEFINE o == job[r].order
           D == job[r].done
<1>1. /\ Busy(r) /\ o \in Order /\ job[r].todo = <<>> /\ D \subseteq Statement
      /\ PlanOK(r) /\ o.gif \in Gif
      /\ GifsOf(o) \subseteq Gif /\ (o.op # "remove" => GifsOf(o) = {o.gif})
  BY BusyTypes, OrderTypes DEF Commit, TagInv, PlansOK
<1>2. Whole(r) = D
  <2>1. Range(job[r].todo) = {}
    <3>1. \A i : i \notin 1..0
      OBVIOUS
    <3>2. Len(job[r].todo) = 0 /\ job[r].todo \in Seq(Statement)
      BY <1>1
    <3> QED BY <3>1, <3>2, RangeEquality
  <2> QED BY <2>1 DEF Whole, Ahead
<1>3. /\ owners' = owners \ {OwnerOf[d.gif] : d \in Did(r, "leave")}
      /\ tags' = tags \cup {d.name : d \in Did(r, "create")}
      /\ gifs' = (gifs \ Gone(r)) \cup {d.gif : d \in Did(r, "insert")}
      /\ gifTags' = [g \in Gif |-> ListAfter(r, g)]
  BY DEF Commit
<1>4. /\ tags \subseteq Name /\ gifs \subseteq Gif /\ gifTags \in [Gif -> SUBSET tags]
      /\ \A h \in Gif : gifTags[h] # {} => h \in gifs
  BY DEF TagInv, TagTypeOK
<1>5. /\ \A d \in D : Fits(o, d) /\ d.gif \in GifsOf(o)
      /\ o.op = "upload" => \E d \in D : d.do = "insert"
  BY <1>1, <1>2 DEF PlanOK, Fits
<1>6. ASSUME NEW d \in Did(r, "create") PROVE d.name \in Name /\ d.name \in Range(o.names)
  <2>1. d \in D /\ d.do = "create"
    BY DEF Did
  <2> QED BY <1>1, <1>5, <2>1, AskedEach DEF Fits
<1>7. ASSUME NEW a \in owners \ owners' PROVE o.op = "remove" /\ a = OwnerOf[o.gif]
  <2>1. PICK d \in D : d.do = "leave" /\ a = OwnerOf[d.gif]
    BY <1>3 DEF Did
  <2>2. o.op = "remove" /\ d.gif \in GifsOf(o)
    BY <1>5, <2>1 DEF Fits
  <2> QED BY <2>1, <2>2 DEF GifsOf
<1>8. /\ \A d \in Did(r, "insert") : d.gif = o.gif /\ o.op = "upload"
      /\ o.op = "upload" => \E d \in Did(r, "insert") : d.gif = o.gif
      /\ \A h \in Gone(r) : h \in GifsOf(o) /\ o.op \in {"delete", "remove"}
  <2>1. \A d \in Did(r, "insert") : o.op = "upload" /\ d.gif \in GifsOf(o)
    BY <1>5 DEF Did, Fits
  <2>2. o.op = "upload" => \E d \in Did(r, "insert") : d.gif \in GifsOf(o)
    BY <1>5 DEF Did
  <2>3. \A h \in Gone(r) : h \in GifsOf(o) /\ o.op \in {"delete", "remove"}
    BY <1>5 DEF Gone, Did, Fits
  <2> QED BY <1>1, <2>1, <2>2, <2>3
<1>9. ASSUME NEW h \in Gif, NEW n \in Rows(r, "link", h)
      PROVE  /\ n \in tags' /\ h \in GifsOf(o)
             /\ o.op # "upload" => h \in gifs
  <2>1. PICK s \in D : s.do = "link" /\ s.name = n /\ s.gif = h
    BY DEF Rows, Did
  <2>2. n \in tags \/ Has(D, "create", n) \/ Has(D, "find", n)
    BY <1>1, <1>2, <2>1 DEF PlanOK
  <2>3. ~Has(D, "find", n)
    BY <1>1 DEF PlanOK, Has, Reading
  <2>4. Has(D, "create", n) => n \in tags'
    BY <1>3 DEF Did, Has
  <2>5. HasGif(D, "refer", h)
    BY <1>1, <1>2, <2>1 DEF PlanOK
  <2>6. o.op # "upload" => h \in gifs
    BY <1>1, <2>5 DEF HasGif, TagInv, LocksOK
  <2> QED BY <1>3, <1>5, <2>1, <2>2, <2>3, <2>4, <2>6
<1>10. ASSUME NEW h \in Gif
       PROVE  /\ ListAfter(r, h) \subseteq tags' /\ gifTags'[h] = ListAfter(r, h)
              /\ h \notin GifsOf(o) => ListAfter(r, h) = gifTags[h]
              /\ ListAfter(r, h) # {} => h \in gifs'
  <2>1. gifTags'[h] = ListAfter(r, h) /\ gifTags[h] \subseteq tags
    BY <1>3, <1>4
  <2>2. ListAfter(r, h) \subseteq tags'
    BY <1>3, <1>9, <2>1 DEF ListAfter
  <2>3. ASSUME h \notin GifsOf(o) PROVE ListAfter(r, h) = gifTags[h]
    <3>1. h \notin Gone(r) /\ Rows(r, "link", h) = {}
      BY <1>8, <1>9, <2>3
    <3>2. Rows(r, "unlink", h) = {}
      BY <1>5, <2>3 DEF Rows, Did
    <3> QED BY <3>1, <3>2 DEF ListAfter
  <2>4. ASSUME ListAfter(r, h) # {} PROVE h \in gifs'
    <3>1. h \notin Gone(r)
      BY <2>4 DEF ListAfter
    <3>2. gifTags[h] # {} \/ \E n : n \in Rows(r, "link", h)
      BY <2>4, <3>1 DEF ListAfter
    <3>3. CASE h \in gifs
      BY <1>3, <3>1, <3>3
    <3>4. CASE h \notin gifs
      <4>1. o.op = "upload" /\ h \in GifsOf(o)
        BY <1>4, <1>9, <3>2, <3>4
      <4> QED BY <1>1, <1>3, <1>8, <4>1
    <3> QED BY <3>3, <3>4
  <2> QED BY <2>1, <2>2, <2>3, <2>4
<1>11. gifTags' \in [Gif -> SUBSET tags']
  BY <1>3, <1>10
<1>12. /\ tags \subseteq tags' /\ tags' \subseteq Name
       /\ \A n \in tags' : n \in tags \/ n \in Range(o.names)
  BY <1>3, <1>4, <1>6
<1>13. /\ gifs' \subseteq Gif
       /\ \A h \in gifs' \ gifs : o.op = "upload" /\ h = o.gif
       /\ \A h \in gifs \ gifs' : h \in Gone(r)
       /\ \A h \in Gone(r) : h \notin gifs'
       /\ o.op = "upload" => o.gif \in gifs'
  BY <1>1, <1>3, <1>4, <1>8
<1>14. owners' \subseteq owners
  BY <1>3
<1> HIDE DEF D
<1> QED BY <1>1, <1>2, <1>7, <1>8, <1>10, <1>11, <1>12, <1>13, <1>14 DEF D

LEMMA CommitKeeps ==
    ASSUME TagInv, NEW r \in Request, Commit(r)
    PROVE  TagInv'
<1> DEFINE o == job[r].order
<1>1. /\ Busy(r) /\ o \in Order
      /\ owners' \subseteq owners
      /\ \A a \in owners \ owners' : o.op = "remove" /\ a = OwnerOf[o.gif]
      /\ tags \subseteq tags' /\ tags' \subseteq Name
      /\ \A n \in tags' : n \in tags \/ n \in Range(o.names)
      /\ gifs' \subseteq Gif
      /\ \A h \in gifs' \ gifs : o.op = "upload" /\ h = o.gif
      /\ \A h \in gifs \ gifs' : h \in Gone(r)
      /\ \A h \in Gone(r) : h \in GifsOf(o)
      /\ gifTags' \in [Gif -> SUBSET tags']
      /\ \A h \in Gif \ GifsOf(o) : gifTags'[h] = gifTags[h]
      /\ \A h \in Gif : gifTags'[h] # {} => h \in gifs'
  BY CommitWrites
<1>2. /\ job' \in [Request -> Job] /\ job'[r].state # "busy"
      /\ \A q \in Request \ {r} : job'[q] = job[q]
  BY EndTypes DEF TagInv, Commit, Outcomes
<1>3. ASSUME NEW q \in Request, job'[q].state = "busy"
      PROVE  q # r /\ job'[q] = job[q] /\ Busy(q) /\ o \in job[q].met /\ job[q].order \in Order
  BY <1>1, <1>2, <1>3, BusyTypes DEF Busy, TagInv, MeetsOK
<1>4. TagTypeOK'
  BY <1>1, <1>2 DEF TagInv, TagTypeOK
<1>5. PlansOK'
  <2>1. ASSUME NEW q \in Request, Busy(q)' PROVE PlanOK(q)'
    <3>1. PlanOK(q) /\ job'[q] = job[q]
      BY <1>3, <2>1 DEF TagInv, PlansOK, Busy
    <3> QED BY <1>1, <3>1 DEF PlanOK, Whole, Ahead, Fits
  <2> QED BY <2>1 DEF PlansOK
<1>6. LocksOK'
  <2> SUFFICES ASSUME NEW p \in Request, job'[p].state = "busy",
                      NEW e \in job'[p].done, e.do = "refer"
               PROVE  /\ job'[p].order.op # "upload" => e.gif \in gifs'
                      /\ \A q \in Request : q # p /\ job'[q].state = "busy" =>
                            ~HasGif(job'[q].done, "drop", e.gif)
    BY DEF LocksOK, Busy
  <2>1. p # r /\ job'[p] = job[p] /\ Busy(p)
    BY <1>3
  <2>2. /\ job[p].order.op # "upload" => e.gif \in gifs
        /\ \A q \in Request : q # p /\ Busy(q) => ~HasGif(job[q].done, "drop", e.gif)
    BY <2>1 DEF TagInv, LocksOK
  <2>3. e.gif \notin Gone(r)
    BY <1>1, <2>1, <2>2 DEF Gone, Did, HasGif
  <2>4. job[p].order.op # "upload" => e.gif \in gifs'
    BY <1>1, <2>2, <2>3
  <2> QED BY <1>3, <2>1, <2>2, <2>4
<1>7. UploadsOK'
  <2>1. ASSUME NEW q \in Request, job'[q].state = "busy", job'[q].order.op = "upload"
        PROVE  /\ job'[q].order.gif \notin gifs'
               /\ \A p \in Request : p # q /\ job'[p].state = "busy"
                                       /\ job'[p].order.op # "remove" =>
                     job'[p].order.gif # job'[q].order.gif
    <3>1. /\ q # r /\ job'[q] = job[q] /\ job[q].order.gif \notin gifs
          /\ \A p \in Request : p # q /\ Busy(p) /\ job[p].order.op # "remove" =>
                job[p].order.gif # job[q].order.gif
      BY <1>3, <2>1 DEF TagInv, UploadsOK
    <3>2. job[q].order.gif \notin gifs'
      BY <1>1, <3>1
    <3> QED BY <1>3, <3>1, <3>2
  <2> QED BY <2>1 DEF UploadsOK, Busy
<1>8. MeetsOK'
  BY <1>3 DEF TagInv, MeetsOK, Busy
<1>9. CreatesOK'
  <2>1. ASSUME NEW q \in Request, job'[q].state = "busy", NEW s \in Range(job'[q].todo),
               s.do = "create", s.name \in tags'
        PROVE  \E p \in job'[q].met : s.name \in Range(p.names)
    <3>1. CASE s.name \in tags
      BY <1>3, <2>1, <3>1 DEF TagInv, CreatesOK, Ahead
    <3>2. CASE s.name \notin tags
      BY <1>1, <1>3, <2>1, <3>2
    <3> QED BY <3>1, <3>2
  <2> QED BY <2>1 DEF CreatesOK, Busy, Ahead
<1>10. LonesOK'
  <2> SUFFICES ASSUME NEW q \in Request, Busy(q)', Rivals(q)' = {} PROVE LoneOK(q)'
    BY DEF LonesOK
  <2> DEFINE oq == job[q].order
  <2>1. /\ job'[q] = job[q] /\ Busy(q) /\ o \in job[q].met /\ oq \in Order /\ PlanOK(q)
        /\ oq.gif \in GifsOf(oq) /\ oq.gif \in Gif /\ GifsOf(oq) \subseteq Gif
        /\ o.gif \in GifsOf(o)
    BY <1>1, <1>3, OrderTypes DEF Busy, TagInv, PlansOK
  <2>2. Rivals(q) = {} /\ LoneOK(q)
    BY <2>1 DEF TagInv, LonesOK, Rivals
  <2>3. ~Touches(oq, o)
    BY <2>1, <2>2 DEF Rivals
  <2>4. /\ \A g \in GifsOf(oq) : g \notin GifsOf(o)
        /\ oq.op = "upload" => \A h \in GifsOf(o) : ~SameFile(oq.gif, h)
    BY <2>1, <2>3 DEF Touches
  <2>5. \A g \in GifsOf(oq) : gifTags'[g] = gifTags[g] /\ (g \in gifs <=> g \in gifs')
    BY <1>1, <2>1, <2>4
  <2>6. ASSUME oq.op = "upload"
        PROVE  /\ OwnerOf[oq.gif] \in owners'
               /\ (\E g \in gifs' : SameFile(g, oq.gif)) => \E s \in Ahead(q) : s.do = "dedupe"
    <3>1. /\ OwnerOf[oq.gif] \in owners
          /\ (\E g \in gifs : SameFile(g, oq.gif)) => \E s \in Ahead(q) : s.do = "dedupe"
      BY <2>2, <2>6 DEF LoneOK
    <3>2. OwnerOf[oq.gif] \in owners'
      <4>1. o.op = "remove" => OwnerOf[oq.gif] # OwnerOf[o.gif]
        BY <2>1, <2>4 DEF GifsOf
      <4> QED BY <1>1, <3>1, <4>1
    <3>3. ASSUME NEW g \in gifs', SameFile(g, oq.gif) PROVE g \in gifs
      <4>1. SameFile(oq.gif, g)
        BY <3>3 DEF SameFile
      <4> QED BY <1>1, <2>1, <2>4, <2>6, <4>1
    <3> QED BY <3>1, <3>2, <3>3
  <2>7. \A s \in Whole(q) : s.gif \in GifsOf(oq)
    BY <2>1 DEF PlanOK, Fits
  <2>8. /\ oq.op \notin {"upload", "remove"} => oq.gif \in gifs'
        /\ oq.op \in {"delete", "remove"} =>
              \A g \in GifsOf(oq) : g \in gifs' => HasGif(Whole(q), "drop", g)
        /\ \A s \in Whole(q) : s.do = "link" => s.name \notin gifTags'[s.gif]
        /\ LET list == gifTags'[oq.gif] IN
           /\ \A n \in list \ Asked(oq, list) :
                 oq.op \in {"delete", "remove"} \/ Has(Whole(q), "unlink", n)
           /\ \A n \in Asked(oq, list) \ list : Has(Whole(q), "link", n)
    BY <2>1, <2>2, <2>5, <2>7 DEF LoneOK
  <2>9. Whole(q)' = Whole(q) /\ Ahead(q)' = Ahead(q) /\ job'[q].order = oq
    BY <2>1 DEF Whole, Ahead
  <2> HIDE DEF oq
  <2> QED BY <2>6, <2>8, <2>9 DEF LoneOK
<1> QED BY <1>4, <1>5, <1>6, <1>7, <1>8, <1>9, <1>10 DEF TagInv

\* A request that arrives meets all that are busy, and they meet it.
LEMMA AcceptChanges ==
    ASSUME TagInv, NEW r \in Request, NEW o \in Order, Accept(r, o)
    PROVE  /\ owners' = owners /\ tags' = tags /\ gifs' = gifs /\ gifTags' = gifTags
           /\ o.gif \in Gif /\ gifTags[o.gif] \in SUBSET tags /\ ~Busy(r) /\ Reads(o)
           /\ o.op = "upload" =>
                 /\ o.gif \notin gifs /\ gifTags[o.gif] = {}
                 /\ \A q \in Request : Busy(q) /\ job[q].order.op # "remove" =>
                       job[q].order.gif # o.gif
           /\ Plan(o, gifTags[o.gif]) \in Seq(Statement)
           /\ job' \in [Request -> Job]
           /\ job'[r].state = "busy" /\ job'[r].order = o
           /\ job'[r].todo = Plan(o, gifTags[o.gif]) /\ job'[r].done = {}
           /\ \A q \in Request : Busy(q) => job[q].order \in job'[r].met
           /\ \A q \in Request : q # r =>
                 /\ job'[q].state = job[q].state /\ job'[q].order = job[q].order
                 /\ job'[q].todo = job[q].todo /\ job'[q].done = job[q].done
                 /\ Busy(q) => job'[q].met = job[q].met \cup {o}
<1> DEFINE R == [state: {"busy"}, order: Order, todo: Seq(Statement),
                 done: SUBSET Statement, met: SUBSET Order]
           plan == Plan(o, gifTags[o.gif])
           j == [state |-> "busy", order |-> o, todo |-> plan, done |-> {},
                 met |-> {job[p].order : p \in Others}]
<1>1. /\ owners' = owners /\ tags' = tags /\ gifs' = gifs /\ gifTags' = gifTags
      /\ job[r] = New /\ Reads(o)
      /\ o.op = "upload" =>
            /\ o.gif \notin gifs \cup Old
            /\ \A q \in Others : job[q].order.op # "remove" => job[q].order.gif # o.gif
      /\ job' = [q \in Request |->
            IF q = r THEN j
            ELSE IF q \in Others THEN [job[q] EXCEPT !.met = @ \cup {o}]
            ELSE job[q]]
  BY DEF Accept, Database
<1>2. o.gif \in Gif /\ gifTags[o.gif] \in SUBSET tags /\ tags \subseteq Name
      /\ (o.gif \notin gifs => gifTags[o.gif] = {})
      /\ job \in [Request -> Job]
  BY OrderTypes DEF TagInv, TagTypeOK
<1>3. ~Busy(r)
  BY <1>1 DEF Busy, New
<1>4. plan \in Seq(Statement)
  BY <1>1, <1>2, PlanServesOrder
<1> HIDE DEF plan
<1>5. {job[p].order : p \in Others} \in SUBSET Order
  BY BusyTypes DEF Others, TagInv
<1>6. /\ j \in R /\ j.state = "busy" /\ j.order = o /\ j.todo = plan /\ j.done = {}
      /\ j.met = {job[p].order : p \in Others}
  BY <1>4, <1>5
<1>7. ASSUME NEW q \in Others
      PROVE  LET k == [job[q] EXCEPT !.met = @ \cup {o}] IN
             /\ k \in R /\ k.state = job[q].state /\ k.order = job[q].order
             /\ k.todo = job[q].todo /\ k.done = job[q].done /\ k.met = job[q].met \cup {o}
  <2>1. q \in Request /\ Busy(q)
    BY DEF Others
  <2>2. job[q] \in R
    BY <2>1, BusyTypes DEF TagInv
  <2> QED BY <2>2
<1> HIDE DEF j
<1>8. job'[r] = j
  BY <1>1
<1>9. ASSUME NEW q \in Request, q # r
      PROVE  /\ job'[q] \in Job
             /\ job'[q].state = job[q].state /\ job'[q].order = job[q].order
             /\ job'[q].todo = job[q].todo /\ job'[q].done = job[q].done
             /\ Busy(q) => job'[q].met = job[q].met \cup {o}
  <2>1. CASE q \in Others
    <3>1. job'[q] = [job[q] EXCEPT !.met = @ \cup {o}]
      BY <1>1, <1>9, <2>1
    <3> QED BY <1>7, <2>1, <3>1 DEF Job
  <2>2. CASE q \notin Others
    <3>1. job'[q] = job[q] /\ ~Busy(q)
      BY <1>1, <1>9, <2>2 DEF Others
    <3> QED BY <1>2, <3>1
  <2> QED BY <2>1, <2>2
<1>10. job' \in [Request -> Job]
  <2>1. \A q \in Request : job'[q] \in Job
    BY <1>6, <1>8, <1>9 DEF Job
  <2>2. job' = [q \in Request |-> job'[q]]
    BY <1>1
  <2> QED BY <2>1, <2>2
<1>11. \A q \in Request : Busy(q) => job[q].order \in job'[r].met
  BY <1>6, <1>8 DEF Others
<1>12. o.op = "upload" =>
          \A q \in Request : Busy(q) /\ job[q].order.op # "remove" => job[q].order.gif # o.gif
  BY <1>1 DEF Others
<1> QED BY <1>1, <1>2, <1>3, <1>4, <1>6, <1>8, <1>9, <1>10, <1>11, <1>12 DEF plan

LEMMA AcceptKeeps ==
    ASSUME TagInv, NEW r \in Request, NEW o \in Order, Accept(r, o)
    PROVE  TagInv'
<1> DEFINE list == gifTags[o.gif]
           P == Range(Plan(o, list))
<1>1. /\ owners' = owners /\ tags' = tags /\ gifs' = gifs /\ gifTags' = gifTags
      /\ o.gif \in Gif /\ list \in SUBSET tags /\ ~Busy(r) /\ Reads(o)
      /\ o.op = "upload" =>
            /\ o.gif \notin gifs /\ list = {}
            /\ \A q \in Request : Busy(q) /\ job[q].order.op # "remove" =>
                  job[q].order.gif # o.gif
      /\ job' \in [Request -> Job]
      /\ job'[r].state = "busy" /\ job'[r].order = o
      /\ job'[r].todo = Plan(o, list) /\ job'[r].done = {}
      /\ \A q \in Request : Busy(q) => job[q].order \in job'[r].met
  BY AcceptChanges
<1>2. ASSUME NEW q \in Request, q # r
      PROVE  /\ job'[q].state = job[q].state /\ job'[q].order = job[q].order
             /\ job'[q].todo = job[q].todo /\ job'[q].done = job[q].done
             /\ Busy(q) => job'[q].met = job[q].met \cup {o}
  BY <1>2, AcceptChanges
<1>3. /\ InOrder(Plan(o, list))
      /\ \A s \in P : /\ Fits(o, s)
                      /\ s.do # "create"
                      /\ s.do = "link" => /\ s.name \notin list /\ s.gif = o.gif
                                          /\ Has(P, "find", s.name)
      /\ o.op = "upload" => (\E s \in P : s.do = "insert") /\ \E s \in P : s.do = "dedupe"
      /\ o.op \in {"delete", "remove"} => \A g \in GifsOf(o) : HasGif(P, "drop", g)
      /\ \A n \in list \ Asked(o, list) : o.op \in {"delete", "remove"} \/ Has(P, "unlink", n)
      /\ \A n \in Asked(o, list) \ list : Has(P, "link", n)
  BY <1>1, PlanServesOrder DEF TagInv, TagTypeOK
<1> HIDE DEF P
<1>4. Whole(r)' = P /\ Ahead(r)' = P
  BY <1>1 DEF Whole, Ahead, P
<1>5. TagTypeOK'
  BY <1>1 DEF TagInv, TagTypeOK
<1>6. PlansOK'
  <2>1. ASSUME NEW q \in Request, q # r, Busy(q)' PROVE PlanOK(q)'
    <3>1. PlanOK(q)
      BY <1>2, <2>1 DEF TagInv, PlansOK, Busy
    <3> QED BY <1>1, <1>2, <2>1, <3>1 DEF PlanOK, Whole, Ahead, Fits
  <2>2. PlanOK(r)'
    BY <1>1, <1>3, <1>4 DEF PlanOK, Fits
  <2> QED BY <2>1, <2>2 DEF PlansOK
<1>7. LocksOK'
  <2> SUFFICES ASSUME NEW p \in Request, job'[p].state = "busy",
                      NEW e \in job'[p].done, e.do = "refer"
               PROVE  /\ job'[p].order.op # "upload" => e.gif \in gifs
                      /\ \A q \in Request : q # p /\ job'[q].state = "busy" =>
                            ~HasGif(job'[q].done, "drop", e.gif)
    BY <1>1 DEF LocksOK, Busy
  <2>1. p # r
    BY <1>1
  <2>2. Busy(p) /\ e \in job[p].done /\ job'[p].order = job[p].order
    BY <1>2, <2>1 DEF Busy
  <2>3. /\ job[p].order.op # "upload" => e.gif \in gifs
        /\ \A q \in Request : q # p /\ Busy(q) => ~HasGif(job[q].done, "drop", e.gif)
    BY <2>2 DEF TagInv, LocksOK
  <2>4. ASSUME NEW q \in Request, q # p, job'[q].state = "busy"
        PROVE  ~HasGif(job'[q].done, "drop", e.gif)
    <3>1. CASE q = r
      BY <1>1, <3>1 DEF HasGif
    <3>2. CASE q # r
      BY <1>2, <2>3, <2>4, <3>2 DEF Busy
    <3> QED BY <3>1, <3>2
  <2> QED BY <2>2, <2>3, <2>4
<1>8. UploadsOK'
  <2>1. ASSUME NEW q \in Request, job'[q].state = "busy", job'[q].order.op = "upload"
        PROVE  /\ job'[q].order.gif \notin gifs
               /\ \A p \in Request : p # q /\ job'[p].state = "busy"
                                       /\ job'[p].order.op # "remove" =>
                     job'[p].order.gif # job'[q].order.gif
    <3>1. CASE q = r
      BY <1>1, <1>2, <2>1, <3>1 DEF Busy
    <3>2. CASE q # r
      <4>1. /\ Busy(q) /\ job'[q].order = job[q].order /\ job[q].order.gif \notin gifs
            /\ \A p \in Request : p # q /\ Busy(p) /\ job[p].order.op # "remove" =>
                  job[p].order.gif # job[q].order.gif
        BY <1>2, <2>1, <3>2 DEF TagInv, UploadsOK, Busy
      <4>2. ASSUME NEW p \in Request, p # q, job'[p].state = "busy",
                   job'[p].order.op # "remove"
            PROVE  job'[p].order.gif # job'[q].order.gif
        <5>1. CASE p = r
          <6>1. o.op # "remove" /\ (o.op # "upload" => o.gif \in gifs)
            BY <1>1, <4>2, <5>1 DEF Reads
          <6> QED BY <1>1, <2>1, <4>1, <5>1, <6>1
        <5>2. CASE p # r
          BY <1>2, <4>1, <4>2, <5>2 DEF Busy
        <5> QED BY <5>1, <5>2
      <4> QED BY <4>1, <4>2
    <3> QED BY <3>1, <3>2
  <2> QED BY <1>1, <2>1 DEF UploadsOK, Busy
<1>9. MeetsOK'
  <2>1. ASSUME NEW p \in Request, NEW q \in Request, p # q,
               job'[p].state = "busy", job'[q].state = "busy"
        PROVE  job'[q].order \in job'[p].met
    <3>1. CASE p = r
      BY <1>1, <1>2, <2>1, <3>1 DEF Busy
    <3>2. CASE q = r
      BY <1>1, <1>2, <2>1, <3>2 DEF Busy
    <3>3. CASE p # r /\ q # r
      BY <1>2, <2>1, <3>3 DEF TagInv, MeetsOK, Busy
    <3> QED BY <3>1, <3>2, <3>3
  <2> QED BY <2>1 DEF MeetsOK, Busy
<1>10. CreatesOK'
  <2>1. ASSUME NEW q \in Request, job'[q].state = "busy", NEW s \in Range(job'[q].todo),
               s.do = "create", s.name \in tags
        PROVE  \E p \in job'[q].met : s.name \in Range(p.names)
    <3>1. q # r
      BY <1>1, <1>3, <2>1 DEF P
    <3>2. Busy(q) /\ s \in Ahead(q) /\ job'[q].met = job[q].met \cup {o}
      BY <1>2, <2>1, <3>1 DEF Busy, Ahead
    <3> QED BY <2>1, <3>2 DEF TagInv, CreatesOK
  <2> QED BY <1>1, <2>1 DEF CreatesOK, Busy, Ahead
<1>11. LonesOK'
  <2>1. ASSUME NEW q \in Request, q # r, Busy(q)', Rivals(q)' = {} PROVE LoneOK(q)'
    <3>1. Busy(q) /\ job'[q].met = job[q].met \cup {o} /\ job'[q].order = job[q].order
      BY <1>2, <2>1 DEF Busy
    <3>2. LoneOK(q)
      BY <2>1, <3>1 DEF TagInv, LonesOK, Rivals
    <3> QED BY <1>1, <1>2, <2>1, <3>2 DEF LoneOK, Whole, Ahead
  <2>2. LoneOK(r)'
    <3>1. /\ o.op \notin {"upload", "remove"} => o.gif \in gifs
          /\ o.op = "upload" => OwnerOf[o.gif] \in owners
      BY <1>1 DEF Reads
    <3> QED BY <1>1, <1>3, <1>4, <3>1 DEF LoneOK
  <2> QED BY <2>1, <2>2 DEF LonesOK
<1> QED BY <1>5, <1>6, <1>7, <1>8, <1>9, <1>10, <1>11 DEF TagInv

-----------------------------------------------------------------------------
(* Every step keeps the invariant.                                         *)

LEMMA TagStart == TagInit => TagInv
<1> SUFFICES ASSUME TagInit PROVE TagInv
  OBVIOUS
<1>1. \A r \in Request : job[r] = New /\ ~Busy(r)
  BY DEF TagInit, Busy, New
<1>2. TagTypeOK
  <2>1. New \in Job
    <3>1. New = [New EXCEPT !.state = "new"]
      BY DEF New
    <3> QED BY <3>1 DEF Job
  <2>2. job \in [Request -> Job]
    BY <2>1 DEF TagInit
  <2>3. /\ gifTags \in [Gif -> SUBSET Name] /\ \A g \in Gif : gifTags[g] \subseteq tags
        /\ \A g \in Gif \ Old : gifTags[g] = {}
        /\ tags \subseteq Name /\ gifs = Old /\ owners = Account
    BY DEF TagInit
  <2> QED BY <2>2, <2>3, TagAssumption DEF TagTypeOK
<1> QED BY <1>1, <1>2
     DEF TagInv, PlansOK, LocksOK, UploadsOK, MeetsOK, CreatesOK, LonesOK

\* What is sent next is one statement.
LEMMA SendsOne ==
    ASSUME NEW r \in Request, NEW what, Sends(r, what)
    PROVE  /\ Busy(r) /\ job[r].todo # <<>> /\ Head(job[r].todo).do = what
           /\ Argument(r) = Head(job[r].todo).name /\ Target(r) = Head(job[r].todo).gif
  BY DEF Sends, Argument, Target

\* A statement about no lock of a GIF.
LEMMA NoLocks ==
    ASSUME NEW r \in Request, NEW s, s.do \notin {"refer", "drop"}
    PROVE  ServesLocks(r, {s})
  BY DEF ServesLocks

\* Who does not wait for a GIF holds no lock against another.
LEMMA FreeOfLocks ==
    ASSUME NEW r \in Request, NEW what \in {"refer", "drop"}, Sends(r, what), ~Waits(r),
           what = "refer" /\ job[r].order.op # "upload" => Target(r) \in gifs
    PROVE  ServesLocks(r, {Head(job[r].todo)})
<1> DEFINE s == Head(job[r].todo)
<1>1. Busy(r) /\ job[r].todo # <<>> /\ s.do = what /\ Target(r) = s.gif
  BY SendsOne
<1>2. ASSUME NEW q \in Request, q # r, Busy(q), NEW f \in job[q].done, f.gif = s.gif
      PROVE  {s.do, f.do} # {"refer", "drop"}
  <2>1. ~WaitsFor(r, q)
    BY DEF Waits
  <2>2. ~Blocks(s, f)
    BY <1>1, <1>2, <2>1 DEF WaitsFor
  <2>3. <<s.do, f.do>> \notin SameGif
    BY <1>2, <2>2 DEF Blocks
  <2> QED BY <2>3 DEF SameGif
<1> QED BY <1>1, <1>2 DEF ServesLocks

LEMMA FindKeeps == ASSUME TagInv, NEW r \in Request, Find(r) PROVE TagInv'
<1>1. Sends(r, "find") /\ UNCHANGED Database
  BY DEF Find
<1>2. CASE Argument(r) \in tags
  BY <1>1, <1>2, SendsOne, SkipKeeps DEF Find
<1>3. CASE Argument(r) \notin tags
  <2>1. GoOn(r, "create", {})
    BY <1>3 DEF Find
  <2> QED BY <1>1, <1>3, <2>1, SendsOne, GoOnKeeps
<1> QED BY <1>2, <1>3

LEMMA ReadingKeeps ==
    ASSUME TagInv, NEW r \in Request, Dedupe(r) \/ Require(r) \/ Keep(r)
    PROVE  TagInv'
<1>1. CASE Dedupe(r)
  <2>1. Sends(r, "dedupe") /\ UNCHANGED Database
    BY <1>1 DEF Dedupe
  <2>2. CASE \E g \in gifs : SameFile(g, Target(r))
    BY <1>1, <2>1, <2>2, EndKeeps DEF Dedupe, Outcomes
  <2>3. CASE ~\E g \in gifs : SameFile(g, Target(r))
    BY <1>1, <2>1, <2>3, SendsOne, SkipKeeps DEF Dedupe
  <2> QED BY <2>2, <2>3
<1>2. CASE Require(r)
  <2>1. Sends(r, "require") /\ UNCHANGED Database
    BY <1>2 DEF Require
  <2>2. CASE Target(r) \in gifs
    BY <1>2, <2>1, <2>2, SendsOne, SkipKeeps DEF Require
  <2>3. CASE Target(r) \notin gifs
    BY <1>2, <2>1, <2>3, EndKeeps DEF Require, Outcomes
  <2> QED BY <2>2, <2>3
<1>3. CASE Keep(r)
  BY <1>3, SendsOne, SkipKeeps DEF Keep
<1> QED BY <1>1, <1>2, <1>3

LEMMA CreateKeeps == ASSUME TagInv, NEW r \in Request, Create(r) PROVE TagInv'
<1>1. Sends(r, "create") /\ UNCHANGED Database
  BY DEF Create
<1>2. CASE Argument(r) \in tags
  BY <1>1, <1>2, EndKeeps DEF Create, Outcomes
<1>3. CASE Argument(r) \notin tags
  <2>1. Perform(r)
    BY <1>3 DEF Create
  <2>2. ServesLocks(r, {Head(job[r].todo)})
    BY <1>1, SendsOne, NoLocks
  <2> QED BY <1>1, <2>1, <2>2, SendsOne, PerformKeeps DEF Reading
<1> QED BY <1>2, <1>3

LEMMA UnlinkKeeps == ASSUME TagInv, NEW r \in Request, Unlink(r) PROVE TagInv'
<1>1. Sends(r, "unlink") /\ UNCHANGED Database
  BY DEF Unlink
<1>2. CASE Argument(r) \in gifTags[Target(r)]
  <2>1. Perform(r)
    BY <1>2 DEF Unlink
  <2>2. ServesLocks(r, {Head(job[r].todo)})
    BY <1>1, SendsOne, NoLocks
  <2> QED BY <1>1, <2>1, <2>2, SendsOne, PerformKeeps DEF Reading
<1>3. CASE Argument(r) \notin gifTags[Target(r)]
  <2>1. Skip(r)
    BY <1>3 DEF Unlink
  <2> QED BY <1>1, <1>3, <2>1, SendsOne, SkipKeeps
<1> QED BY <1>2, <1>3

LEMMA InsertKeeps == ASSUME TagInv, NEW r \in Request, Insert(r) PROVE TagInv'
<1>1. Sends(r, "insert") /\ UNCHANGED Database
  BY DEF Insert
<1>2. CASE \E g \in gifs : SameFile(g, Target(r))
  BY <1>1, <1>2, EndKeeps DEF Insert, Outcomes
<1>3. CASE ~\E g \in gifs : SameFile(g, Target(r))
  <2>1. GoOn(r, "own", {Head(job[r].todo)})
    BY <1>3 DEF Insert
  <2> QED BY <1>1, <2>1, SendsOne, GoOnKeeps
<1> QED BY <1>2, <1>3

LEMMA OwnKeeps == ASSUME TagInv, NEW r \in Request, Own(r) PROVE TagInv'
<1>1. Sends(r, "own") /\ UNCHANGED Database
  BY DEF Own
<1>2. CASE OwnerOf[Target(r)] \in owners
  <2>1. Perform(r)
    BY <1>2 DEF Own
  <2>2. ServesLocks(r, {Head(job[r].todo)})
    BY <1>1, SendsOne, NoLocks
  <2> QED BY <1>1, <2>1, <2>2, SendsOne, PerformKeeps DEF Reading
<1>3. CASE OwnerOf[Target(r)] \notin owners
  BY <1>1, <1>3, EndKeeps DEF Own, Outcomes
<1> QED BY <1>2, <1>3

LEMMA LinkKeeps == ASSUME TagInv, NEW r \in Request, Link(r) PROVE TagInv'
<1>1. Sends(r, "link") /\ UNCHANGED Database
  BY DEF Link
<1>2. CASE Argument(r) \in gifTags[Target(r)]
  BY <1>1, <1>2, EndKeeps DEF Link, Outcomes
<1>3. CASE Argument(r) \notin gifTags[Target(r)]
  <2>1. GoOn(r, "refer", {Head(job[r].todo)})
    BY <1>3 DEF Link
  <2> QED BY <1>1, <2>1, SendsOne, GoOnKeeps
<1> QED BY <1>2, <1>3

LEMMA ReferKeeps == ASSUME TagInv, NEW r \in Request, Refer(r) PROVE TagInv'
<1>1. Sends(r, "refer") /\ ~Waits(r) /\ UNCHANGED Database
  BY DEF Refer
<1> DEFINE there == job[r].order.op = "upload" \/ Target(r) \in gifs
<1>2. CASE there
  <2>1. Perform(r)
    BY <1>2 DEF Refer
  <2>2. ServesLocks(r, {Head(job[r].todo)})
    BY <1>1, <1>2, FreeOfLocks
  <2> QED BY <1>1, <2>1, <2>2, SendsOne, PerformKeeps DEF Reading
<1>3. CASE ~there
  <2>1. End(r, "failed")
    BY <1>3 DEF Refer
  <2> QED BY <1>1, <2>1, EndKeeps DEF Outcomes
<1> QED BY <1>2, <1>3

LEMMA LeaveKeeps == ASSUME TagInv, NEW r \in Request, Leave(r) PROVE TagInv'
<1>1. Sends(r, "leave") /\ UNCHANGED Database
  BY DEF Leave
<1>2. CASE OwnerOf[Target(r)] \in owners
  <2>1. Perform(r)
    BY <1>2 DEF Leave
  <2>2. ServesLocks(r, {Head(job[r].todo)})
    BY <1>1, SendsOne, NoLocks
  <2> QED BY <1>1, <2>1, <2>2, SendsOne, PerformKeeps DEF Reading
<1>3. CASE OwnerOf[Target(r)] \notin owners
  <2>1. Skip(r)
    BY <1>3 DEF Leave
  <2> QED BY <1>1, <2>1, SendsOne, SkipKeeps
<1> QED BY <1>2, <1>3

LEMMA DropKeeps == ASSUME TagInv, NEW r \in Request, Drop(r) PROVE TagInv'
<1>1. ~Waits(r) /\ UNCHANGED Database
  BY DEF Drop
<1>2. PICK what \in {"drop", "cascade"} : Sends(r, what)
  BY DEF Drop
<1>3. CASE Target(r) \in gifs
  <2>1. Perform(r)
    BY <1>3 DEF Drop
  <2>2. ServesLocks(r, {Head(job[r].todo)})
    <3>1. CASE what = "drop"
      BY <1>1, <1>2, <3>1, FreeOfLocks
    <3>2. CASE what = "cascade"
      BY <1>2, <3>2, SendsOne, NoLocks
    <3> QED BY <3>1, <3>2
  <2> QED BY <1>1, <1>2, <2>1, <2>2, SendsOne, PerformKeeps DEF Reading
<1>4. CASE Target(r) \notin gifs
  <2>1. Skip(r)
    BY <1>4 DEF Drop
  <2> QED BY <1>1, <1>2, <1>4, <2>1, SendsOne, SkipKeeps
<1> QED BY <1>3, <1>4

LEMMA TagStep == TagInv /\ [TagNext]_tagVars => TagInv'
<1> SUFFICES ASSUME TagInv, [TagNext]_tagVars PROVE TagInv'
  OBVIOUS
<1>1. CASE UNCHANGED tagVars
  <2>1. owners' = owners /\ tags' = tags /\ gifs' = gifs /\ gifTags' = gifTags /\ job' = job
    BY <1>1 DEF tagVars
  <2>2. TagTypeOK' /\ MeetsOK' /\ UploadsOK' /\ LocksOK' /\ CreatesOK'
    BY <2>1 DEF TagInv, TagTypeOK, MeetsOK, UploadsOK, LocksOK, CreatesOK, Ahead, Busy
  <2>3. PlansOK'
    BY <2>1 DEF TagInv, PlansOK, PlanOK, Whole, Ahead, Fits, Busy
  <2>4. LonesOK'
    BY <2>1 DEF TagInv, LonesOK, LoneOK, Whole, Ahead, Busy, Rivals
  <2> QED BY <2>2, <2>3, <2>4 DEF TagInv
<1>2. ASSUME NEW r \in Request, Step(r) PROVE TagInv'
  <2>1. CASE Deadlock(r)
    BY <2>1, EndKeeps DEF Deadlock, Outcomes
  <2> QED BY <1>2, <2>1, FindKeeps, ReadingKeeps, CreateKeeps, UnlinkKeeps, InsertKeeps,
             OwnKeeps, LinkKeeps, ReferKeeps, LeaveKeeps, DropKeeps, CommitKeeps DEF Step
<1>3. ASSUME NEW r \in Request, Lose(r) PROVE TagInv'
  BY <1>3, EndKeeps DEF Lose, Outcomes
<1>4. ASSUME NEW r \in Request, NEW o \in Order, Refuse(r, o) PROVE TagInv'
  BY <1>4, EndKeeps DEF Refuse, Outcomes
<1> QED BY <1>1, <1>2, <1>3, <1>4, AcceptKeeps DEF TagNext

THEOREM TagInvariant == TagSpec => []TagInv
  BY TagStart, TagStep, PTL DEF TagSpec

\* Tables and requests have their types; a row of "gif_tags" always refers to rows
\* of "tags" and "gifs" that are there.
THEOREM TagTypes == TagSpec => []TagTypeOK
<1>1. TagInv => TagTypeOK
  BY DEF TagInv
<1> QED BY <1>1, TagInvariant, PTL

-----------------------------------------------------------------------------
(* How a request ends.                                                     *)

\* It fails at an INSERT or the check of a foreign key, or is aborted.
Fails(r) ==
    \/ Sends(r, "create") /\ Argument(r) \in tags
    \/ Sends(r, "insert") /\ \E g \in gifs : SameFile(g, Target(r))
    \/ Sends(r, "own") /\ OwnerOf[Target(r)] \notin owners
    \/ Sends(r, "link") /\ Argument(r) \in gifTags[Target(r)]
    \/ Sends(r, "refer") /\ job[r].order.op # "upload" /\ Target(r) \notin gifs
    \/ InCircle(r)

\* While its plan changes, a request is busy.
LEMMA StaysBusy ==
    ASSUME TagInv, NEW r \in Request, Busy(r),
           \/ \E t : job' = [job EXCEPT ![r].todo = t]
           \/ \E t, d : job' = [job EXCEPT ![r].todo = t, ![r].done = d]
    PROVE  job'[r].state = "busy" /\ \A q \in Request \ {r} : job'[q] = job[q]
<1>1. /\ job[r] \in [state: {"busy"}, order: Order, todo: Seq(Statement),
                     done: SUBSET Statement, met: SUBSET Order]
      /\ job \in [Request -> Job]
  BY BusyTypes DEF TagInv, TagTypeOK
<1>2. CASE \E t : job' = [job EXCEPT ![r].todo = t]
  <2>1. PICK t : job' = [job EXCEPT ![r].todo = t]
    BY <1>2
  <2> QED BY <1>1, <2>1
<1>3. CASE \E t, d : job' = [job EXCEPT ![r].todo = t, ![r].done = d]
  <2>1. PICK t, d : job' = [job EXCEPT ![r].todo = t, ![r].done = d]
    BY <1>3
  <2> QED BY <1>1, <2>1
<1> QED BY <1>2, <1>3

LEMMA GoesOn ==
    ASSUME TagInv, NEW r \in Request, Busy(r),
           Skip(r) \/ Perform(r) \/ \E what, held : GoOn(r, what, held)
    PROVE  job'[r].state = "busy" /\ \A q \in Request \ {r} : job'[q] = job[q]
<1>1. CASE Skip(r)
  <2>1. job' = [job EXCEPT ![r].todo = Tail(job[r].todo)]
    BY <1>1 DEF Skip, TagInv, TagTypeOK
  <2> QED BY <2>1, StaysBusy
<1>2. CASE Perform(r)
  <2>1. job' = [job EXCEPT ![r].todo = Tail(job[r].todo),
                          ![r].done = job[r].done \cup {Head(job[r].todo)}]
    BY <1>2 DEF Perform, TagInv, TagTypeOK
  <2> QED BY <2>1, StaysBusy
<1>3. ASSUME NEW what, NEW held, GoOn(r, what, held)
      PROVE  job'[r].state = "busy" /\ \A q \in Request \ {r} : job'[q] = job[q]
  <2>1. job' = [job EXCEPT
                   ![r].todo = <<[Head(job[r].todo) EXCEPT !.do = what]>> \o Tail(job[r].todo),
                   ![r].done = job[r].done \cup held]
    BY <1>3 DEF GoOn, TagInv, TagTypeOK
  <2> QED BY <2>1, StaysBusy
<1> QED BY <1>1, <1>2, <1>3

\* What a step that is no commit and no circle comes to.
LEMMA StatementShape ==
    ASSUME TagInv, NEW r \in Request,
           \/ Dedupe(r) \/ Find(r) \/ Create(r) \/ Require(r) \/ Keep(r) \/ Insert(r) \/ Own(r)
           \/ Unlink(r) \/ Link(r) \/ Refer(r) \/ Leave(r) \/ Drop(r)
    PROVE  /\ Busy(r) /\ UNCHANGED Database
           /\ \/ Skip(r) \/ Perform(r) \/ \E what, held : GoOn(r, what, held)
              \/ End(r, "found") \/ End(r, "refused") \/ (End(r, "failed") /\ Fails(r))
<1>1. CASE Dedupe(r) \/ Require(r) \/ Keep(r)
  BY <1>1 DEF Dedupe, Require, Keep, Sends
<1>2. CASE Unlink(r) \/ Leave(r) \/ Drop(r)
  BY <1>2 DEF Unlink, Leave, Drop, Sends
<1>3. CASE Find(r)
  BY <1>3 DEF Find, Sends
<1>4. CASE Create(r)
  BY <1>4 DEF Create, Sends, Fails
<1>5. CASE Insert(r)
  BY <1>5 DEF Insert, Sends, Fails
<1>6. CASE Own(r)
  BY <1>6 DEF Own, Sends, Fails
<1>7. CASE Link(r)
  BY <1>7 DEF Link, Sends, Fails
<1>8. CASE Refer(r)
  BY <1>8 DEF Refer, Sends, Fails
<1> QED BY <1>1, <1>2, <1>3, <1>4, <1>5, <1>6, <1>7, <1>8

LEMMA StepShape ==
    ASSUME TagInv, NEW r \in Request, Step(r)
    PROVE  /\ Busy(r)
           /\ \A q \in Request \ {r} : job'[q] = job[q]
           /\ \/ job'[r].state \in {"busy", "found", "refused"} /\ UNCHANGED Database
              \/ job'[r].state = "failed" /\ UNCHANGED Database /\ Fails(r)
              \/ job'[r].state = "done" /\ Commit(r)
<1>1. ASSUME NEW how \in {"found", "refused", "failed", "done"}, End(r, how)
      PROVE  job'[r].state = how /\ \A q \in Request \ {r} : job'[q] = job[q]
  BY <1>1, EndTypes DEF TagInv, Outcomes
<1>2. CASE Commit(r)
  BY <1>1, <1>2 DEF Commit
<1>3. CASE Deadlock(r)
  <2>1. InCircle(r) /\ End(r, "failed") /\ UNCHANGED Database
    BY <1>3 DEF Deadlock
  <2>2. Busy(r)
    <3>1. CASE \E q \in Request : WaitsFor(r, q)
      BY <3>1 DEF WaitsFor
    <3>2. CASE \A q \in Request : ~WaitsFor(r, q)
      <4>1. r \in {}
        BY <2>1, <3>2 DEF InCircle
      <4> QED BY <4>1
    <3> QED BY <3>1, <3>2
  <2> QED BY <1>1, <2>1, <2>2 DEF Fails
<1>4. CASE ~Commit(r) /\ ~Deadlock(r)
  <2>1. /\ Busy(r) /\ UNCHANGED Database
        /\ \/ Skip(r) \/ Perform(r) \/ \E what, held : GoOn(r, what, held)
           \/ End(r, "found") \/ End(r, "refused") \/ (End(r, "failed") /\ Fails(r))
    BY <1>4, StatementShape DEF Step
  <2>2. CASE Skip(r) \/ Perform(r) \/ \E what, held : GoOn(r, what, held)
    BY <2>1, <2>2, GoesOn
  <2>3. CASE End(r, "found") \/ End(r, "refused") \/ (End(r, "failed") /\ Fails(r))
    BY <1>1, <2>1, <2>3
  <2> QED BY <2>1, <2>2, <2>3
<1> QED BY <1>2, <1>3, <1>4

\* Who ends, ends by a step of its own; and only by a commit tables change.
LEMMA EndsBy ==
    ASSUME TagInv, [TagNext]_tagVars
    PROVE  /\ \A r \in Request : Ends(r, "done") => Commit(r)
           /\ \A r \in Request : Ends(r, "failed") => Fails(r)
           /\ UNCHANGED Database \/ \E r \in Request : Commit(r) /\ Ends(r, "done")
<1> USE DEF Ends
<1>1. CASE UNCHANGED tagVars
  BY <1>1 DEF tagVars, Database, Busy
<1>2. ASSUME NEW p \in Request, Step(p)
      PROVE  /\ \A r \in Request : Ends(r, "done") => Commit(r)
             /\ \A r \in Request : Ends(r, "failed") => Fails(r)
             /\ UNCHANGED Database \/ \E r \in Request : Commit(r) /\ Ends(r, "done")
  BY <1>2, StepShape DEF Busy
<1>3. ASSUME NEW p \in Request, Lose(p) \/ \E o \in Order : Refuse(p, o)
      PROVE  /\ UNCHANGED Database
             /\ \A r \in Request : ~Ends(r, "done") /\ ~Ends(r, "failed")
  <2>1. PICK how \in {"lost", "refused"} : End(p, how) /\ UNCHANGED Database
    BY <1>3 DEF Lose, Refuse
  <2>2. job'[p].state = how /\ \A q \in Request \ {p} : job'[q] = job[q]
    BY <2>1, EndTypes DEF TagInv, Outcomes
  <2> QED BY <2>1, <2>2 DEF Busy
<1>4. ASSUME NEW p \in Request, NEW o \in Order, Accept(p, o)
      PROVE  /\ UNCHANGED Database
             /\ \A r \in Request : ~Ends(r, "done") /\ ~Ends(r, "failed")
  <2>1. /\ owners' = owners /\ tags' = tags /\ gifs' = gifs /\ gifTags' = gifTags
        /\ job'[p].state = "busy"
        /\ \A q \in Request : q # p => job'[q].state = job[q].state
    BY <1>4, AcceptChanges
  <2> QED BY <2>1 DEF Busy, Database
<1> QED BY <1>1, <1>2, <1>3, <1>4 DEF TagNext

-----------------------------------------------------------------------------
(* What comes of an edit.                                                  *)

\* A committed list differs from the one before only in what was asked.
LEMMA CommitOnlyAsked ==
    ASSUME TagInv, NEW r \in Request, Commit(r), NEW g \in Gif, NEW n,
           (n \in gifTags[g]) # (n \in gifTags'[g])
    PROVE  /\ g \in GifsOf(job[r].order)
           /\ n \in gifTags'[g] <=> n \in Asked(job[r].order, gifTags[g])
<1> DEFINE o == job[r].order
           old == gifTags[g]
<1>1. /\ o \in Order /\ Whole(r) = job[r].done /\ PlanOK(r)
      /\ gifTags'[g] = ListAfter(r, g)
      /\ g \notin GifsOf(o) => gifTags'[g] = gifTags[g]
      /\ \A h \in Gone(r) : o.op \in {"delete", "remove"}
  BY CommitWrites
<1>2. g \in GifsOf(o)
  BY <1>1
<1>3. \A s \in job[r].done : Fits(o, s)
  BY <1>1 DEF PlanOK
<1>4. CASE n \in old /\ n \notin gifTags'[g]
  <2>1. CASE g \in Gone(r)
    BY <1>1, <1>4, <2>1 DEF Asked
  <2>2. CASE g \notin Gone(r)
    <3>1. n \in Rows(r, "unlink", g)
      BY <1>1, <1>4, <2>2 DEF ListAfter
    <3>2. PICK s \in job[r].done : s.do = "unlink" /\ s.name = n
      BY <3>1 DEF Rows, Did
    <3>3. n \notin Asked(o, {n})
      BY <1>3, <3>2 DEF Fits
    <3> QED BY <1>1, <1>4, <3>3, AskedEach
  <2> QED BY <2>1, <2>2
<1>5. CASE n \notin old /\ n \in gifTags'[g]
  <2>1. n \in Rows(r, "link", g)
    BY <1>1, <1>5 DEF ListAfter
  <2>2. PICK s \in job[r].done : s.do = "link" /\ s.name = n
    BY <2>1 DEF Rows, Did
  <2>3. n \in Asked(o, {})
    BY <1>3, <2>2 DEF Fits
  <2> QED BY <1>1, <1>5, <2>3, AskedEach
<1>6. (n \in old /\ n \notin gifTags'[g]) \/ (n \notin old /\ n \in gifTags'[g])
  OBVIOUS
<1> QED BY <1>2, <1>4, <1>5, <1>6

\* For any library and any requests at the same time: a tag comes to a GIF or
\* leaves it only by the commit of a request about that GIF that asked for it.
THEOREM TagsChangeAsAsked == TagSpec => OnlyAskedChanges
<1>1. ASSUME TagInv, [TagNext]_tagVars, NEW g \in Gif, NEW n \in Name,
             (n \in gifTags[g]) # (n \in gifTags'[g])
      PROVE  \E r \in Request : /\ Ends(r, "done") /\ g \in GifsOf(job[r].order)
                                /\ (n \in gifTags'[g]) = (n \in Asked(job[r].order, gifTags[g]))
  <2>1. PICK r \in Request : Commit(r) /\ Ends(r, "done")
    BY <1>1, EndsBy DEF Database
  <2>2. /\ g \in GifsOf(job[r].order)
        /\ n \in gifTags'[g] <=> n \in Asked(job[r].order, gifTags[g])
    BY <1>1, <2>1, CommitOnlyAsked
  <2> QED BY <2>1, <2>2
<1>2. TagInv /\ [TagNext]_tagVars =>
        [\A g \in Gif, n \in Name :
            (n \in gifTags[g]) # (n \in gifTags'[g]) =>
                \E r \in Request : /\ Ends(r, "done") /\ g \in GifsOf(job[r].order)
                                  /\ (n \in gifTags'[g]) = (n \in Asked(job[r].order, gifTags[g]))
        ]_tagVars
  BY <1>1
<1> QED BY <1>2, TagInvariant, PTL DEF TagSpec, OnlyAskedChanges

\* The result of a request that met no other for its GIFs.
LoneResult(r) ==
    LET o == job[r].order IN
    /\ \A g \in GifsOf(o) : /\ gifTags'[g] = Asked(o, gifTags[g])
                            /\ g \in gifs' => o.op \notin {"delete", "remove"}
    /\ o.op \notin {"delete", "remove"} => o.gif \in gifs'
    /\ o.op = "upload" => \A g \in gifs : ~SameFile(g, o.gif)

LEMMA LoneCommit ==
    ASSUME TagInv, NEW r \in Request, Commit(r), Rivals(r) = {}
    PROVE  LoneResult(r)
<1> DEFINE o == job[r].order
           D == job[r].done
<1>1. /\ o \in Order /\ Busy(r) /\ Whole(r) = D /\ PlanOK(r)
      /\ \A h \in gifs' \ gifs : o.op = "upload"
      /\ \A h \in gifs \ gifs' : h \in Gone(r)
      /\ \A h \in Gone(r) : h \notin gifs' /\ o.op \in {"delete", "remove"}
      /\ o.op = "upload" => o.gif \in gifs'
      /\ \A h \in Gif : gifTags'[h] = ListAfter(r, h) /\ (gifTags'[h] # {} => h \in gifs')
  BY CommitWrites
<1>2. \A s \in D : Fits(o, s) /\ s.do \notin Reading
  BY <1>1 DEF PlanOK
<1>3. /\ o.op \in Ops /\ o.gif \in Gif /\ GifsOf(o) \subseteq Gif
      /\ o.op # "remove" => GifsOf(o) = {o.gif}
  BY <1>1, OrderTypes
<1>4. LoneOK(r)
  BY <1>1 DEF TagInv, LonesOK
<1>5. o.op = "upload" => \A g \in gifs : ~SameFile(g, o.gif)
  <2>1. Ahead(r) \subseteq D
    BY <1>1 DEF Whole
  <2> QED BY <1>2, <1>4, <2>1 DEF LoneOK, Reading
<1>6. CASE o.op \in {"delete", "remove"}
  <2>1. ASSUME NEW g \in GifsOf(o) PROVE gifTags'[g] = {} /\ g \notin gifs'
    <3>1. g \in gifs => g \in Gone(r)
      BY <1>1, <1>4, <1>6, <2>1 DEF LoneOK, HasGif, Gone, Did
    <3>2. g \notin gifs'
      BY <1>1, <1>6, <3>1
    <3> QED BY <1>1, <1>3, <3>2
  <2>2. \A list : Asked(o, list) = {}
    BY <1>6 DEF Asked
  <2> QED BY <1>5, <1>6, <2>1, <2>2 DEF LoneResult
<1>7. CASE o.op \notin {"delete", "remove"}
  <2> DEFINE g == o.gif
             old == gifTags[g]
             U == Rows(r, "unlink", g)
             L == Rows(r, "link", g)
  <2>1. ListAfter(r, g) = (old \ U) \cup L /\ g \notin Gone(r)
    BY <1>1, <1>7 DEF ListAfter
  <2>2. g \in gifs'
    BY <1>1, <1>4, <1>7, <2>1 DEF LoneOK
  <2>3. /\ \A s \in D : s.gif = g
        /\ \A s \in D : s.do = "link" => s.name \notin old
        /\ \A n \in old \ Asked(o, old) : Has(D, "unlink", n)
        /\ \A n \in Asked(o, old) \ old : Has(D, "link", n)
    <3>1. \A s \in D : s.gif = g
      BY <1>2, <1>3, <1>7 DEF Fits
    <3> QED BY <1>1, <1>4, <1>7, <3>1 DEF LoneOK
  <2>4. ASSUME NEW n
        PROVE  /\ n \in U <=> \E s \in D : s.do = "unlink" /\ s.name = n
               /\ n \in L <=> \E s \in D : s.do = "link" /\ s.name = n
    BY <2>3 DEF Rows, Did
  <2> HIDE DEF old, D, U, L
  <2>5. ASSUME NEW n \in L PROVE n \in Asked(o, old) /\ n \notin old
    <3>1. PICK s \in D : s.do = "link" /\ s.name = n
      BY <2>4, <2>5
    <3>2. n \in Asked(o, {}) /\ n \notin old
      BY <1>2, <2>3, <3>1 DEF Fits
    <3> QED BY <1>1, <3>2, AskedEach
  <2>6. ASSUME NEW n \in old, n \in U PROVE n \notin Asked(o, old)
    <3>1. PICK s \in D : s.do = "unlink" /\ s.name = n
      BY <2>4, <2>6
    <3>2. n \notin Asked(o, {n})
      BY <1>2, <3>1 DEF Fits
    <3> QED BY <1>1, <2>6, <3>2, AskedEach
  <2>7. ASSUME NEW n \in Asked(o, old) \ old PROVE n \in L
    BY <2>3, <2>4, <2>7 DEF Has
  <2>8. ASSUME NEW n \in old \ Asked(o, old) PROVE n \in U
    BY <2>3, <2>4, <2>8 DEF Has
  <2>9. (old \ U) \cup L = Asked(o, old)
    BY <2>5, <2>6, <2>7, <2>8
  <2>10. gifTags'[g] = Asked(o, old)
    BY <1>1, <1>3, <2>1, <2>9
  <2> QED BY <1>3, <1>5, <1>7, <2>2, <2>10 DEF LoneResult, old
<1> QED BY <1>6, <1>7

\* For any library, and whatever goes on at other GIFs with the same names: who
\* met no other request for its GIFs leaves exactly what it asked for.
THEOREM LoneEdits == TagSpec => LoneEditsExact
<1>1. ASSUME TagInv, [TagNext]_tagVars, NEW r \in Request, Ends(r, "done"), Rivals(r) = {}
      PROVE  LoneResult(r)
  BY <1>1, EndsBy, LoneCommit
<1>2. TagInv /\ [TagNext]_tagVars =>
        [\A r \in Request : Ends(r, "done") /\ Rivals(r) = {} =>
          /\ \A g \in GifsOf(job[r].order) :
                /\ gifTags'[g] = Asked(job[r].order, gifTags[g])
                /\ g \in gifs' => job[r].order.op \notin {"delete", "remove"}
          /\ job[r].order.op \notin {"delete", "remove"} => job[r].order.gif \in gifs'
          /\ job[r].order.op = "upload" =>
                \A g \in gifs : ~SameFile(g, job[r].order.gif)
        ]_tagVars
  BY <1>1 DEF LoneResult
<1> QED BY <1>2, TagInvariant, PTL DEF TagSpec, LoneEditsExact

\* A statement serves what was asked, with the names and GIFs of it.
LEMMA StatementsFit ==
    ASSUME TagInv, NEW r \in Request, Busy(r)
    PROVE  /\ job[r].order \in Order
           /\ \A d \in job[r].done : Fits(job[r].order, d) /\ d.do \notin Reading
           /\ job[r].todo # <<>> =>
                 /\ Head(job[r].todo) \in Ahead(r)
                 /\ Fits(job[r].order, Head(job[r].todo))
                 /\ \A d \in job[r].done : Precedes(d, Head(job[r].todo))
<1>1. PlanOK(r) /\ job[r].order \in Order
  BY BusyTypes DEF TagInv, PlansOK
<1>2. job[r].todo # <<>> => Head(job[r].todo) \in Ahead(r)
  BY PlanFacts DEF Ahead
<1> QED BY <1>1, <1>2 DEF PlanOK, Whole

\* Who waits, waits for a request it met, about one of its GIFs, or the same bytes,
\* or with a common name.
LEMMA WaitsForRival ==
    ASSUME TagInv, NEW r \in Request, NEW q \in Request, WaitsFor(r, q)
    PROVE  /\ job[q].order \in job[r].met
           /\ \/ Touches(job[r].order, job[q].order)
              \/ Range(job[q].order.names) \cap Range(job[r].order.names) # {}
<1> DEFINE s == Head(job[r].todo)
           o == job[r].order
           p == job[q].order
<1>1. Busy(r) /\ Busy(q) /\ q # r /\ job[r].todo # <<>>
  BY DEF WaitsFor
<1>2. p \in job[r].met
  BY <1>1 DEF TagInv, MeetsOK
<1>3. PICK d \in job[q].done : Blocks(s, d)
  BY DEF WaitsFor
<1>4. o \in Order /\ p \in Order /\ Fits(o, s) /\ Fits(p, d)
  BY <1>1, StatementsFit
<1>5. /\ s.gif \in GifsOf(o) /\ d.gif \in GifsOf(p)
      /\ s.do \in {"insert", "own"} => o.op = "upload" /\ s.gif = o.gif
      /\ s.do = "leave" => o.op = "remove"
      /\ d.do = "leave" => p.op = "remove"
  BY <1>4, OrderTypes DEF Fits
<1>6. s.gif \in Gif /\ d.gif \in Gif
  BY <1>4, <1>5, OrderTypes
<1> DEFINE pair == <<s.do, d.do>>
<1>7. CASE pair \in SameName /\ s.name = d.name
  <2>1. s.do = "create" /\ d.do = "create"
    BY <1>7 DEF SameName
  <2>2. s.name \in Asked(o, {}) /\ d.name \in Asked(p, {})
    BY <1>4, <2>1 DEF Fits
  <2>3. s.name \in Range(o.names) /\ d.name \in Range(p.names)
    BY <1>4, <2>2, AskedEach
  <2> QED BY <1>2, <1>7, <2>3
<1>8. CASE s.gif = d.gif
  BY <1>2, <1>5, <1>8 DEF Touches
<1>9. CASE pair \in SameBytes /\ SameFile(s.gif, d.gif)
  <2>1. s.do = "insert"
    BY <1>9 DEF SameBytes
  <2> QED BY <1>2, <1>5, <1>9, <2>1 DEF Touches
<1>10. CASE pair \in SameOwner /\ OwnerOf[s.gif] = OwnerOf[d.gif]
  <2>1. s.do = "leave" \/ d.do = "leave"
    BY <1>10 DEF SameOwner
  <2>2. s.do = "leave" => d.gif \in GifsOf(o)
    BY <1>5, <1>6, <1>10 DEF GifsOf
  <2>3. d.do = "leave" => s.gif \in GifsOf(p)
    BY <1>5, <1>6, <1>10 DEF GifsOf
  <2> QED BY <1>2, <1>5, <2>1, <2>2, <2>3 DEF Touches
<1> QED BY <1>3, <1>7, <1>8, <1>9, <1>10 DEF Blocks

\* Who is in a circle of waits waits for somebody.
LEMMA CircleWaits ==
    ASSUME NEW r \in Request, InCircle(r)
    PROVE  \E q \in Request : WaitsFor(r, q)
<1>1. ASSUME \A q \in Request : ~WaitsFor(r, q) PROVE FALSE
  <2>1. r \in {}
    BY <1>1 DEF InCircle
  <2> QED BY <2>1
<1> QED BY <1>1

\* Alone at its GIFs a request fails at no row.
LEMMA LoneRowsFit ==
    ASSUME TagInv, NEW r \in Request, Busy(r), LoneOK(r)
    PROVE  /\ ~(Sends(r, "insert") /\ \E g \in gifs : SameFile(g, Target(r)))
           /\ ~(Sends(r, "own") /\ OwnerOf[Target(r)] \notin owners)
           /\ ~(Sends(r, "link") /\ Argument(r) \in gifTags[Target(r)])
           /\ ~(Sends(r, "refer") /\ job[r].order.op # "upload" /\ Target(r) \notin gifs)
<1> DEFINE s == Head(job[r].todo)
           o == job[r].order
<1> SUFFICES ASSUME NEW what \in {"insert", "own", "link", "refer"}, Sends(r, what)
             PROVE  /\ what = "insert" => ~\E g \in gifs : SameFile(g, Target(r))
                    /\ what = "own" => OwnerOf[Target(r)] \in owners
                    /\ what = "link" => Argument(r) \notin gifTags[Target(r)]
                    /\ what = "refer" => o.op = "upload" \/ Target(r) \in gifs
  OBVIOUS
<1>1. /\ job[r].todo # <<>> /\ s.do = what /\ Argument(r) = s.name /\ Target(r) = s.gif
  BY SendsOne
<1>2. o \in Order /\ Fits(o, s) /\ s \in Ahead(r) /\ s \in Whole(r)
  BY <1>1, StatementsFit DEF Whole
<1>3. /\ what \in {"insert", "own"} => o.op = "upload"
      /\ what = "refer" => o.op \notin {"delete", "remove"}
      /\ o.op # "remove" => s.gif = o.gif
  BY <1>1, <1>2, OrderTypes DEF Fits, Asked
<1>4. CASE what = "insert"
  <2>1. \A u \in Ahead(r) : u.do # "dedupe"
    <3>1. ASSUME NEW u \in Ahead(r), u.do = "dedupe" PROVE FALSE
      <4>1. u = s \/ Precedes(s, u)
        BY <1>1, PlanFacts DEF Ahead
      <4> QED BY <1>1, <1>4, <3>1, <4>1 DEF Precedes
    <3> QED BY <3>1
  <2> QED BY <1>1, <1>3, <1>4, <2>1 DEF LoneOK
<1>5. CASE what = "own"
  BY <1>1, <1>3, <1>5 DEF LoneOK
<1>6. CASE what = "link"
  BY <1>1, <1>2, <1>6 DEF LoneOK
<1>7. CASE what = "refer"
  BY <1>1, <1>3, <1>7 DEF LoneOK
<1> QED BY <1>4, <1>5, <1>6, <1>7

\* For any library and any number of requests: a failure needs a request at the
\* same time, about one of its GIFs or the same bytes, or with a common name.
THEOREM FailureHasRival == TagSpec => FailuresNeedRival
<1>1. ASSUME TagInv, [TagNext]_tagVars, NEW r \in Request, Ends(r, "failed")
      PROVE  \E p \in job[r].met :
                \/ Touches(job[r].order, p)
                \/ Range(p.names) \cap Range(job[r].order.names) # {}
  <2>1. Fails(r) /\ Busy(r)
    BY <1>1, EndsBy DEF Ends
  <2>2. CASE Sends(r, "create") /\ Argument(r) \in tags
    <3>1. /\ job[r].todo # <<>> /\ Head(job[r].todo).do = "create"
          /\ Argument(r) = Head(job[r].todo).name
      BY <2>2, SendsOne
    <3>2. /\ Head(job[r].todo) \in Ahead(r) /\ Fits(job[r].order, Head(job[r].todo))
          /\ job[r].order \in Order
      BY <1>1, <2>1, <3>1, StatementsFit
    <3>3. PICK o \in job[r].met : Argument(r) \in Range(o.names)
      BY <1>1, <2>1, <2>2, <3>1, <3>2 DEF TagInv, CreatesOK
    <3>4. Argument(r) \in Asked(job[r].order, {})
      BY <3>1, <3>2 DEF Fits
    <3> QED BY <3>2, <3>3, <3>4, AskedEach
  <2>3. CASE InCircle(r)
    <3>1. PICK q \in Request : WaitsFor(r, q)
      BY <2>3, CircleWaits
    <3> QED BY <1>1, <3>1, WaitsForRival
  <2>4. CASE /\ ~(Sends(r, "create") /\ Argument(r) \in tags)
             /\ ~InCircle(r)
    <3>1. ~LoneOK(r)
      BY <1>1, <2>1, <2>4, LoneRowsFit DEF Fails
    <3>2. Rivals(r) # {}
      BY <1>1, <2>1, <3>1 DEF TagInv, LonesOK
    <3> QED BY <3>2 DEF Rivals
  <2> QED BY <2>2, <2>3, <2>4
<1>2. TagInv /\ [TagNext]_tagVars =>
        [\A r \in Request : Ends(r, "failed") =>
          \E p \in job[r].met :
              \/ Touches(job[r].order, p)
              \/ Range(p.names) \cap Range(job[r].order.names) # {}
        ]_tagVars
  BY <1>1
<1> QED BY <1>2, TagInvariant, PTL DEF TagSpec, FailuresNeedRival

-----------------------------------------------------------------------------
(* Circles of waits.                                                       *)

\* For a request that holds nothing nobody waits.
LEMMA NothingHeld ==
    ASSUME NEW r \in Request, job[r].done = {}
    PROVE  ~InCircle(r)
<1> DEFINE S == Request \ {r}
<1>1. \A p \in S \cup {r}, q \in Request : WaitsFor(p, q) => q \in S
  BY DEF WaitsFor
<1>2. S \in SUBSET Request /\ r \notin S
  OBVIOUS
<1> HIDE DEF S
<1> QED BY <1>1, <1>2 DEF InCircle

\* All that is held except names.
Late == {"insert", "own", "unlink", "link", "refer", "leave", "drop", "cascade"}

\* Who has written a row has all its names, and waits only for others that have.
LEMMA LateWaitForLate ==
    ASSUME TagInv, NEW p \in Request, NEW q \in Request, WaitsFor(p, q),
           Head(job[p].todo).do = "link" \/ \E d \in job[p].done : d.do \in Late
    PROVE  \E e \in job[q].done : e.do \in Late
<1> DEFINE s == Head(job[p].todo)
<1>1. Busy(p) /\ job[p].todo # <<>>
  BY DEF WaitsFor
<1>2. s.do # "create"
  <2>1. CASE s.do = "link"
    BY <2>1
  <2>2. ASSUME NEW d \in job[p].done, d.do \in Late PROVE s.do # "create"
    <3>1. Precedes(d, s)
      BY <1>1, StatementsFit
    <3> QED BY <2>2, <3>1 DEF Precedes, Naming, Late
  <2> QED BY <2>1, <2>2
<1>3. PICK e \in job[q].done : Blocks(s, e)
  BY DEF WaitsFor
<1>4. e.do \in Late
  BY <1>2, <1>3
     DEF Blocks, SameName, SameRow, SameGif, Cascaded, SameBytes, SameOwner, Late
<1> QED BY <1>4

\* One tag is attached or detached: the name, if it is not there, is created while
\* nothing else is held, and while that is held it is waited only for rows.
LEMMA SingleEditInCircle ==
    ASSUME TagInv, NEW r \in Request, InCircle(r), job[r].order.op \in {"attach", "detach"}
    PROVE  /\ Sends(r, "refer")
           /\ \A q \in Request : WaitsFor(r, q) => job[q].order.op \in {"delete", "remove"}
<1> DEFINE s == Head(job[r].todo)
           o == job[r].order
<1>1. PICK q \in Request : WaitsFor(r, q)
  BY CircleWaits
<1>2. PICK b \in job[q].done : Blocks(s, b)
  BY <1>1 DEF WaitsFor
<1>3. /\ Busy(r) /\ job[r].todo # <<>> /\ o \in Order /\ Fits(o, s)
      /\ \A d \in job[r].done : Fits(o, d) /\ Precedes(d, s) /\ d.do \notin Reading
  <2>1. Busy(r) /\ job[r].todo # <<>>
    BY <1>1 DEF WaitsFor
  <2> QED BY <2>1, StatementsFit
<1>4. \A n, m \in Range(o.names) : n = m
  BY <1>3, OrderTypes
<1>5. /\ \A n \in Asked(o, {}) : n \in Range(o.names) /\ o.op = "attach"
      /\ \A n : n \notin Asked(o, {n}) => n \in Range(o.names) /\ o.op = "detach"
  BY DEF Asked
<1>6. /\ s.do \in {"create", "link", "refer"} => s.name \in Range(o.names) /\ o.op = "attach"
      /\ s.do = "unlink" => s.name \in Range(o.names) /\ o.op = "detach"
      /\ s.do \notin {"insert", "own", "leave", "drop", "cascade"}
  BY <1>3, <1>5 DEF Fits
<1>7. s.do \in {"create", "unlink", "link", "refer"}
  BY <1>2, <1>6 DEF Blocks, SameName, SameRow, SameGif, Cascaded, SameBytes, SameOwner
<1>8. ASSUME NEW d \in job[r].done
      PROVE  /\ d.do \in {"create", "link", "refer"} =>
                   d.name \in Range(o.names) /\ o.op = "attach"
             /\ d.do = "unlink" => d.name \in Range(o.names) /\ o.op = "detach"
             /\ d.do \notin {"insert", "own", "leave", "drop", "cascade"} \cup Reading
             /\ Precedes(d, s)
  BY <1>3, <1>5 DEF Fits
<1>9. ASSUME NEW d \in job[r].done, s.do \in {"create", "link"} PROVE d.do \notin Late
  <2>1. d.do # "unlink"
    BY <1>6, <1>8, <1>9
  <2>2. d.do \in {"link", "refer"} => d.name = s.name
    BY <1>4, <1>6, <1>8, <1>9
  <2>3. ~(d.do \in {"link", "refer"})
    BY <1>8, <1>9, <2>2 DEF Precedes, Naming
  <2> QED BY <1>8, <2>1, <2>3 DEF Late
<1>10. CASE s.do = "create"
  <2>1. ASSUME NEW d \in job[r].done PROVE FALSE
    <3>1. d.do \in Naming
      BY <1>8, <1>10, <2>1 DEF Precedes, Naming, Reading
    <3>2. d.do = "create"
      BY <1>8, <2>1, <3>1 DEF Naming, Reading
    <3>3. d.name = s.name
      BY <1>4, <1>6, <1>8, <1>10, <2>1, <3>2
    <3> QED BY <1>8, <1>10, <2>1, <3>1, <3>3 DEF Precedes, Naming
  <2>2. job[r].done = {}
    BY <2>1
  <2> QED BY <2>2, NothingHeld
<1>11. CASE s.do = "unlink"
  <2>1. ASSUME NEW d \in job[r].done, d.do = "unlink" PROVE FALSE
    <3>1. d.name = s.name
      BY <1>4, <1>6, <1>8, <1>11, <2>1
    <3> QED BY <1>8, <1>11, <2>1, <3>1 DEF Precedes
  <2>2. ASSUME NEW d \in job[r].done PROVE FALSE
    <3>1. d.do \notin {"create", "link", "refer"}
      BY <1>6, <1>8, <1>11, <2>2
    <3>2. d.do \in {"dedupe", "find", "create", "require", "insert", "own", "unlink", "link",
                    "refer", "keep", "leave", "drop", "cascade"}
      BY <1>3, <2>2, BusyTypes DEF Statement, TagInv
    <3> QED BY <1>8, <2>1, <2>2, <3>1, <3>2 DEF Reading
  <2>3. job[r].done = {}
    BY <2>2
  <2> QED BY <2>3, NothingHeld
<1>12. CASE s.do = "link"
  <2> DEFINE S == {p \in Request : \E d \in job[p].done : d.do \in Late}
  <2>1. r \notin S
    BY <1>9, <1>12
  <2>2. ASSUME NEW p \in S \cup {r}, NEW w \in Request, WaitsFor(p, w) PROVE w \in S
    BY <1>12, <2>2, LateWaitForLate
  <2>3. S \in SUBSET Request
    OBVIOUS
  <2> HIDE DEF S
  <2> QED BY <2>1, <2>2, <2>3 DEF InCircle
<1>13. CASE s.do = "refer"
  <2>1. Sends(r, "refer")
    BY <1>3, <1>13 DEF Sends
  <2>2. ASSUME NEW p \in Request, WaitsFor(r, p) PROVE job[p].order.op \in {"delete", "remove"}
    <3>1. PICK d \in job[p].done : Blocks(s, d)
      BY <2>2 DEF WaitsFor
    <3>2. d.do = "drop"
      BY <1>13, <3>1 DEF Blocks, SameName, SameRow, SameGif, Cascaded, SameBytes, SameOwner
    <3>3. Busy(p)
      BY <2>2 DEF WaitsFor
    <3>4. Fits(job[p].order, d)
      BY <3>1, <3>3, StatementsFit
    <3> QED BY <3>2, <3>4 DEF Fits
  <2> QED BY <2>1, <2>2
<1> QED BY <1>7, <1>10, <1>11, <1>12, <1>13

\* For any library and any number of requests of every kind: one tag attached or
\* detached is in a circle of waits only when its row is entered and its GIF is
\* being deleted.
THEOREM SingleEditsSafe == TagSpec => []SingleEditsStopForDeletions
<1>1. TagInv => SingleEditsStopForDeletions
  BY SingleEditInCircle DEF SingleEditsStopForDeletions
<1> QED BY <1>1, TagInvariant, PTL

\* No circle is overlooked: of the requests under way one can always go on, since
\* it waits for nobody or is in a circle, where it is aborted.  (A set closed under
\* waiting and as small as possible contains only requests in a circle.)
THEOREM SomebodyGoesOn ==
    ASSUME IsFiniteSet(Request), Others # {}
    PROVE  \E r \in Others : ~Waits(r) \/ InCircle(r)
<1> DEFINE Closed(S) == \A p \in S, q \in Request : WaitsFor(p, q) => q \in S
           T == {S \in SUBSET Others : S # {} /\ Closed(S)}
           R == StrictSubsetOrdering(Request)
<1> SUFFICES ASSUME \A r \in Others : Waits(r) PROVE \E r \in Others : InCircle(r)
  OBVIOUS
<1>1. PICK S \in T : \A C \in T : <<C, S>> \notin R
  <2>1. Others \subseteq Request /\ \A p, q \in Request : WaitsFor(p, q) => q \in Others
    BY DEF Others, WaitsFor
  <2>2. Others \in T
    BY <2>1
  <2>3. T \subseteq SUBSET Request /\ T # {}
    BY <2>1, <2>2
  <2>4. IsWellFoundedOn(R, SUBSET Request)
    BY FS_FiniteSubsetsOfFinite, FS_StrictSubsetOrderingWellFounded
  <2> HIDE DEF T, R
  <2> QED BY <2>3, <2>4, WFMin
<1>2. PICK r \in S : TRUE
  BY <1>1
<1>3. r \in Request /\ r \in Others /\ S \subseteq Request /\ S \subseteq Others
  BY <1>1, <1>2 DEF Others
<1>4. ASSUME NEW C \in SUBSET Request, r \notin C,
             \A p \in C \cup {r}, q \in Request : WaitsFor(p, q) => q \in C
      PROVE  FALSE
  <2> DEFINE D == C \cap S
  <2>1. Closed(D)
    BY <1>1, <1>3, <1>4
  <2>2. D # {}
    <3>1. PICK q \in Request : WaitsFor(r, q)
      BY <1>3 DEF Waits
    <3> QED BY <1>1, <1>2, <1>4, <3>1
  <2>3. D \in T
    BY <1>3, <2>1, <2>2
  <2>4. <<D, S>> \in R
    BY <1>2, <1>3, <1>4 DEF StrictSubsetOrdering
  <2> HIDE DEF D, T, R
  <2> QED BY <1>1, <2>3, <2>4
<1>5. InCircle(r)
  BY <1>4 DEF InCircle
<1> QED BY <1>3, <1>5
=============================================================================
