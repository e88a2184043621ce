---------------------------- MODULE MediaStoreProofs ----------------------------
(***************************************************************************)
(* Proofs about MediaStore, for any number of owners, contents, GIFs,      *)
(* workers and overlapping requests, with and without crashes.             *)
(***************************************************************************)
EXTENDS MediaStore, TLAPS

-----------------------------------------------------------------------------
(* The inductive invariant.                                                *)

RequestType == [pc: Steps, worker: Worker \cup {NoWorker}, owner: Owner \cup {NoOwner},
                content: Content \cup {NoContent}, gif: Gif \cup {NoGif},
                fd: Inode \cup {NoInode}]

Uploads == {"upload_exists", "upload_open", "upload_write", "upload_replace",
            "upload_flush", "upload_commit"}
Deletes == {"delete_flush", "delete_check", "delete_unlink", "delete_commit"}

Writing(q) == At(q, "upload_write")
\* Between opening the temporary file and moving it.
Using(q) == At(q, "upload_write") \/ At(q, "upload_replace")
Stored(q) == At(q, "upload_flush") \/ At(q, "upload_commit")

RecordInv(rec) ==
    /\ rec.pc \in Uploads => rec.owner \in Owner /\ rec.content \in Content
    /\ rec.pc \in Deletes => rec.gif \in Gif /\ rec.content \in Content
    /\ rec.pc \in {"raw_read", "raw_reply"} => rec.content \in Content
    /\ rec.pc = "upload_write" => rec.fd \in Inode

RequestInv == \A q \in Request : RecordInv(req[q])

\* A row about to be committed has an id and a pair of owner and content of its
\* own, and an owner who cannot be deleted before.
InsertInv == \A p \in Request : At(p, "upload_commit") =>
    /\ req[p].gif \in Gif \ Rows
    /\ req[p].owner \in owners
    /\ \A g \in RowsOf(req[p].content) : gifs[g].owner_id # req[p].owner
    /\ \A q \in Request \ {p} : At(q, "upload_commit") =>
          /\ req[q].gif # req[p].gif
          /\ req[q].owner # req[p].owner \/ req[q].content # req[p].content

\* A path names an inode of its own, and what an upload has open is at no path of
\* another content.
PathInv ==
    /\ \A c, d \in Content : target[c] = target[d] /\ target[c] # NoInode => c = d
    /\ \A c, d \in Content : tmp[c] = tmp[d] /\ tmp[c] # NoInode => c = d
    /\ \A c, d \in Content : target[c] = tmp[d] => target[c] = NoInode
    /\ \A q \in Request, c \in Content :
          Writing(q) /\ req[q].fd \in {target[c], tmp[c]} => req[q].content = c

\* Two uploads use one temporary file only if that is on record, and so does an
\* upload whose file was moved away while it writes.
SharedInv ==
    /\ \A p, q \in Request :
          Using(p) /\ Using(q) /\ req[p].content = req[q].content =>
              p = q \/ req[p].content \in shared
    /\ \A q \in Request :
          Writing(q) /\ target[req[q].content] = req[q].fd => req[q].content \in shared

\* A torn temporary file that somebody may move has a writer.
TornInv ==
    /\ TornFileIsBeingWritten
    /\ \A q \in Request :
          LET c == req[q].content IN
          Using(q) /\ c \notin orphaned /\ tmp[c] \notin whole \cup {NoInode} =>
              \E r \in Request : Writing(r) /\ req[r].fd = tmp[c]

\* No upload relies on a file that is bound to be unlinked, unless that is on record.
\* While it is not: what an upload found or stored is there, and a row without its
\* file is about to go.
FileInv ==
    /\ \A p, q \in Request :
          Stored(p) /\ At(q, "delete_unlink") /\ req[p].content = req[q].content =>
              req[p].content \in undercut
    /\ \A q \in Request :
          Stored(q) /\ req[q].content \notin undercut => target[req[q].content] # NoInode
    /\ \A q \in Request :
          At(q, "delete_unlink") /\ req[q].content \notin undercut =>
              RowsOf(req[q].content) \subseteq {req[q].gif}
    /\ \A c \in Content \ undercut : target[c] = NoInode =>
          \A g \in RowsOf(c) : \E q \in Request :
              At(q, "delete_commit") /\ req[q].gif = g /\ req[q].content = c

MediaInv ==
    /\ TypeOK
    /\ RequestInv
    /\ InsertInv /\ OneRowPerOwnerAndContent
    /\ PathInv /\ SharedInv /\ TornInv /\ WholeUnlessShared
    /\ FileInv

-----------------------------------------------------------------------------
(* Requests.                                                               *)

\* The sentinels are not values.
LEMMA Sentinels == /\ NoRow \notin Row /\ NoGif \notin Gif /\ NoInode \notin Inode
                   /\ NoContent \notin Content /\ NoOwner \notin Owner
  BY MediaAssumption

\* What a step that replaces r's record does to the requests.
LEMMA PutOnly ==
    ASSUME TypeOK, NEW r \in Request, NEW rec \in RequestType, Put(r, rec)
    PROVE  /\ req' \in [Request -> RequestType]
           /\ req'[r] = rec
           /\ \A q \in Request \ {r} : req'[q] = req[q]
  BY DEF TypeOK, RequestType, Put

\* A request that ends keeps its type.
LEMMA IdleType == Idle \in RequestType /\ Idle.pc = "idle" /\ RecordInv(Idle)
<1>1. Idle \in RequestType /\ Idle.pc = "idle"
  BY DEF Idle, RequestType, Steps
<1>2. RecordInv(Idle)
  BY <1>1 DEF RecordInv, Uploads, Deletes
<1> QED BY <1>1, <1>2

\* The record of a request has its type, and its fields what its step needs.
LEMMA RecordType ==
    ASSUME TypeOK, NEW r \in Request
    PROVE  req[r] \in RequestType
  BY DEF TypeOK, RequestType

\* A request that goes on keeps the fields of its record.
LEMMA GotoRecord ==
    ASSUME TypeOK, NEW r \in Request, NEW step \in Steps
    PROVE  LET rec == Moved(r, step) IN
           /\ rec \in RequestType
           /\ rec.pc = step
           /\ rec.content = req[r].content /\ rec.owner = req[r].owner
           /\ rec.gif = req[r].gif /\ rec.fd = req[r].fd
<1>1. req[r] \in RequestType
  BY RecordType
<1> QED BY <1>1 DEF RequestType, Moved

\* Every request keeps its type and its fields when the new record of r has them.
LEMMA RequestsKept ==
    ASSUME MediaInv, NEW r \in Request, NEW rec \in RequestType, Put(r, rec), RecordInv(rec)
    PROVE  RequestInv'
<1>1. /\ req'[r] = rec
      /\ \A q \in Request \ {r} : req'[q] = req[q]
  BY PutOnly DEF MediaInv
<1>2. \A q \in Request : RecordInv(req[q])
  BY DEF MediaInv, RequestInv
<1>3. \A q \in Request : RecordInv(req'[q])
  BY <1>1, <1>2
<1>4. RequestInv' <=> \A q \in Request : RecordInv(req'[q])
  BY DEF RequestInv, RecordInv
<1> QED BY <1>3, <1>4

-----------------------------------------------------------------------------
(* What a step keeps, one lemma per group of conjuncts.                    *)

\* Rows that go, and no new insertion, leave each pair of owner and content one
\* row, when the owners of rows and insertions stay.
LEMMA RowsKept ==
    ASSUME MediaInv, NEW r \in Request, NEW rec \in RequestType, Put(r, rec),
           rec.pc # "upload_commit",
           \A g \in Gif : gifs'[g] \in {gifs[g], NoRow},
           \A g \in Gif : gifs'[g] # NoRow => gifs'[g].owner_id \in owners',
           \A q \in Request : At(q, "upload_commit") => req[q].owner \in owners' \/ q = r
    PROVE  InsertInv' /\ OneRowPerOwnerAndContent'
<1>1. /\ req'[r] = rec
      /\ \A q \in Request \ {r} : req'[q] = req[q]
  BY PutOnly DEF MediaInv
<1>2. /\ Rows' \subseteq Rows
      /\ \A g \in Rows' : gifs'[g] = gifs[g] /\ gifs'[g].owner_id \in owners'
      /\ \A c : RowsOf(c)' \subseteq RowsOf(c)
  BY DEF Rows, RowsOf
<1>3. OneRowPerOwnerAndContent'
  BY <1>2 DEF MediaInv, OneRowPerOwnerAndContent
<1>4. \A q \in Request : At(q, "upload_commit")' => q # r /\ At(q, "upload_commit")
  BY <1>1 DEF At
<1>5. InsertInv'
  <2> SUFFICES ASSUME NEW p \in Request, At(p, "upload_commit")'
               PROVE  /\ req'[p].gif \in Gif \ Rows'
                      /\ req'[p].owner \in owners'
                      /\ \A g \in RowsOf(req[p].content)' : gifs'[g].owner_id # req'[p].owner
                      /\ \A q \in Request \ {p} : At(q, "upload_commit")' =>
                            /\ req'[q].gif # req'[p].gif
                            /\ req'[q].owner # req'[p].owner \/ req'[q].content # req'[p].content
    BY DEF InsertInv
  <2>1. p # r /\ At(p, "upload_commit") /\ req'[p] = req[p]
    BY <1>1, <1>4
  <2>2. /\ req[p].gif \in Gif \ Rows
        /\ \A g \in RowsOf(req[p].content) : gifs[g].owner_id # req[p].owner
        /\ \A q \in Request \ {p} : At(q, "upload_commit") =>
              /\ req[q].gif # req[p].gif
              /\ req[q].owner # req[p].owner \/ req[q].content # req[p].content
    BY <2>1 DEF MediaInv, InsertInv
  <2>3. req'[p].owner \in owners'
    BY <2>1
  <2>4. \A g \in RowsOf(req[p].content)' : gifs'[g].owner_id # req'[p].owner
    <3>1. RowsOf(req[p].content)' \subseteq RowsOf(req[p].content) /\ RowsOf(req[p].content)' \subseteq Rows'
      BY <2>1 DEF RowsOf, Rows
    <3> QED BY <1>2, <2>1, <2>2, <3>1
  <2> QED BY <1>1, <1>2, <1>4, <2>1, <2>2, <2>3, <2>4
<1> QED BY <1>3, <1>5

\* The common case: no row and no owner changes.
LEMMA RowsSame ==
    ASSUME MediaInv, NEW r \in Request, NEW rec \in RequestType, Put(r, rec),
           rec.pc # "upload_commit", UNCHANGED <<owners, gifs>>
    PROVE  InsertInv' /\ OneRowPerOwnerAndContent'
<1>1. \A g \in Gif : gifs'[g] # NoRow => gifs'[g].owner_id \in owners'
  BY DEF MediaInv, OneRowPerOwnerAndContent, Rows
<1>2. \A q \in Request : At(q, "upload_commit") => req[q].owner \in owners'
  BY DEF MediaInv, InsertInv
<1> QED BY <1>1, <1>2, RowsKept

FilesInv == PathInv /\ SharedInv /\ TornInv /\ WholeUnlessShared

\* No file is written or moved; one may be removed, and a writer may die if the
\* contents of a shared temporary file it leaves torn are on record.
LEMMA FilesKept ==
    ASSUME MediaInv, NEW r \in Request, NEW rec \in RequestType, Put(r, rec),
           rec.pc \notin {"upload_write", "upload_replace"},
           UNCHANGED <<tmp, whole, shared>>, orphaned \subseteq orphaned',
           \A c \in Content : target'[c] \in {target[c], NoInode},
           Writing(r) /\ req[r].content \in shared => req[r].content \in orphaned',
           rec.pc = "raw_reply" /\ rec.fd # NoInode => rec.content \in shared
    PROVE  FilesInv'
<1>1. /\ req'[r] = rec
      /\ \A q \in Request \ {r} : req'[q] = req[q]
  BY PutOnly DEF MediaInv
<1>2. \A q \in Request :
        /\ req'[q].pc \in {"upload_write", "upload_replace"} => q # r /\ Using(q) /\ req'[q] = req[q]
        /\ req'[q].pc = "upload_write" => q # r /\ Writing(q) /\ req'[q] = req[q]
  BY <1>1 DEF Using, Writing, At
<1>3. \A q \in Request \ {r} : Writing(q) => Writing(q)'
  BY <1>1 DEF Writing, At
<1>4. RequestInv /\ PathInv /\ SharedInv /\ TornInv /\ WholeUnlessShared
  BY DEF MediaInv
<1>5. \A q \in Request : Writing(q) => req[q].fd \in Inode /\ req[q].content \in Content
  BY <1>4 DEF RequestInv, RecordInv, Writing, At, Uploads
<1>6. PathInv'
  <2>1. /\ \A c, d \in Content : target'[c] = target'[d] /\ target'[c] # NoInode => c = d
        /\ \A c, d \in Content : tmp'[c] = tmp'[d] /\ tmp'[c] # NoInode => c = d
        /\ \A c, d \in Content : target'[c] = tmp'[d] => target'[c] = NoInode
    BY <1>4 DEF PathInv
  <2>2. \A q \in Request, c \in Content :
          req'[q].pc = "upload_write" /\ req'[q].fd \in {target'[c], tmp'[c]} => req'[q].content = c
    BY <1>2, <1>4, <1>5, Sentinels DEF PathInv
  <2> QED BY <2>1, <2>2 DEF PathInv, Using, Writing, At
<1>7. SharedInv'
  <2>1. ASSUME NEW p \in Request, NEW q \in Request, req'[p].content = req'[q].content,
               req'[p].pc \in {"upload_write", "upload_replace"},
               req'[q].pc \in {"upload_write", "upload_replace"}
        PROVE  p = q \/ req'[p].content \in shared
    BY <1>2, <1>4, <2>1 DEF SharedInv
  <2>2. \A q \in Request :
          req'[q].pc = "upload_write" /\ target'[req'[q].content] = req'[q].fd => req'[q].content \in shared
    BY <1>2, <1>4, <1>5, Sentinels DEF SharedInv
  <2> QED BY <2>1, <2>2 DEF SharedInv, Using, Writing, At
<1>8. TornInv'
  <2>1. TornFileIsBeingWritten'
    <3> SUFFICES ASSUME NEW c \in Content \ orphaned', target'[c] \notin whole \cup {NoInode}
                 PROVE  \E p \in Request : Writing(p)' /\ req'[p].fd = target'[c]
      BY DEF TornFileIsBeingWritten, Writing
    <3>1. target'[c] = target[c] /\ c \notin orphaned
      OBVIOUS
    <3>2. PICK p \in Request : Writing(p) /\ req[p].fd = target[c]
      BY <1>4, <3>1 DEF TornInv, TornFileIsBeingWritten, Writing
    <3>3. req[p].content = c
      BY <1>4, <3>2 DEF PathInv
    <3>4. c \in shared
      BY <1>4, <3>2, <3>3 DEF SharedInv
    <3>5. p # r
      BY <3>2, <3>3, <3>4
    <3> QED BY <1>1, <1>3, <3>1, <3>2, <3>5
  <2>2. ASSUME NEW q \in Request, NEW c, c = req'[q].content,
               req'[q].pc \in {"upload_write", "upload_replace"}, c \notin orphaned', tmp[c] \notin whole \cup {NoInode}
        PROVE  \E p \in Request : Writing(p)' /\ req'[p].fd = tmp[c]
    <3>1. q # r /\ Using(q) /\ c = req[q].content
      BY <1>2, <2>2
    <3>11. c \in Content
      BY <1>4, <3>1 DEF RequestInv, RecordInv, Using, At, Uploads
    <3>2. PICK p \in Request : Writing(p) /\ req[p].fd = tmp[c]
      BY <1>4, <2>2, <3>1 DEF TornInv
    <3>3. req[p].content = c /\ Using(p)
      BY <1>4, <3>11, <3>2 DEF PathInv, Using, Writing
    <3>4. p = r => c \in shared
      BY <1>4, <3>1, <3>3 DEF SharedInv
    <3>5. p # r
      BY <2>2, <3>2, <3>3, <3>4
    <3> QED BY <1>1, <1>3, <3>2, <3>5
  <2> QED BY <2>1, <2>2 DEF TornInv, Using, Writing, At
<1>9. WholeUnlessShared'
  BY <1>1, <1>4 DEF WholeUnlessShared, At
<1> QED BY <1>6, <1>7, <1>8, <1>9 DEF FilesInv

\* Uploads and deletions that undercut each other are on record, what is stored is
\* there, a file about to be removed serves one row; no row is new.
LEMMA LossKept ==
    ASSUME MediaInv, NEW r \in Request, NEW rec \in RequestType, Put(r, rec),
           undercut \subseteq undercut',
           \A g \in Gif : gifs'[g] \in {gifs[g], NoRow},
           \A c \in Content : target[c] # NoInode => target'[c] # NoInode,
           rec.pc \in {"upload_flush", "upload_commit"} =>
               /\ target'[rec.content] # NoInode \/ rec.content \in undercut'
               /\ \A q \in Request : At(q, "delete_unlink") /\ req[q].content = rec.content =>
                     rec.content \in undercut',
           rec.pc = "delete_unlink" =>
               /\ RowsOf(rec.content) \subseteq {rec.gif} \/ rec.content \in undercut'
               /\ \A q \in Request : Stored(q) /\ req[q].content = rec.content =>
                     rec.content \in undercut',
           At(r, "delete_commit") => \/ req[r].content \in undercut'
                                    \/ target'[req[r].content] # NoInode
                                    \/ gifs'[req[r].gif] = NoRow
    PROVE  FileInv'
<1>1. /\ req'[r] = rec
      /\ \A q \in Request \ {r} : req'[q] = req[q]
  BY PutOnly DEF MediaInv
<1>2. FileInv /\ RequestInv
  BY DEF MediaInv
<1>3. ASSUME NEW p \in Request, NEW q \in Request,
             Stored(p)', At(q, "delete_unlink")', req'[p].content = req'[q].content
      PROVE  req'[p].content \in undercut'
  <2>1. CASE p = r
    BY <1>1, <1>3, <2>1 DEF Stored, At
  <2>2. CASE p # r /\ q = r
    BY <1>1, <1>3, <2>2 DEF Stored, At
  <2>3. CASE p # r /\ q # r
    BY <1>1, <1>2, <1>3, <2>3 DEF FileInv, Stored, At
  <2> QED BY <2>1, <2>2, <2>3
<1>4. ASSUME NEW q \in Request, Stored(q)', req'[q].content \notin undercut'
      PROVE  target'[req'[q].content] # NoInode
  <2>1. CASE q = r
    BY <1>1, <1>4, <2>1 DEF Stored, At
  <2>2. CASE q # r
    <3>1. Stored(q) /\ req'[q] = req[q] /\ req[q].content \in Content
      BY <1>1, <1>2, <1>4, <2>2 DEF Stored, At, RequestInv, RecordInv, Uploads
    <3> QED BY <1>2, <1>4, <3>1 DEF FileInv
  <2> QED BY <2>1, <2>2
<1>5. \A c : RowsOf(c)' \subseteq RowsOf(c)
  BY DEF RowsOf, Rows
<1>6. ASSUME NEW q \in Request, At(q, "delete_unlink")', req'[q].content \notin undercut'
      PROVE  RowsOf(req[q].content)' \subseteq {req'[q].gif}
  <2>1. RowsOf(req'[q].content) \subseteq {req'[q].gif}
    BY <1>1, <1>2, <1>6 DEF FileInv, At
  <2>2. RowsOf(req[q].content)' \subseteq RowsOf(req'[q].content)
    BY DEF RowsOf, Rows
  <2> QED BY <2>1, <2>2
<1>7. ASSUME NEW c \in Content \ undercut', target'[c] = NoInode, NEW g \in RowsOf(c)'
      PROVE  \E q \in Request : At(q, "delete_commit")' /\ req'[q].gif = g /\ req'[q].content = c
  <2>1. g \in RowsOf(c) /\ gifs'[g] # NoRow /\ target[c] = NoInode
    BY <1>5, <1>7 DEF RowsOf, Rows
  <2>2. PICK q \in Request : At(q, "delete_commit") /\ req[q].gif = g /\ req[q].content = c
    BY <1>2, <2>1 DEF FileInv
  <2>3. q # r
    BY <1>7, <2>1, <2>2
  <2> QED BY <1>1, <2>2, <2>3 DEF At
<1> QED BY <1>3, <1>4, <1>6, <1>7 DEF FileInv

-----------------------------------------------------------------------------
(* The steps that write or move a file.                                    *)

\* The temporary file is opened: it is torn now, and r is its writer.
LEMMA OpenFiles ==
    ASSUME MediaInv, NEW r \in Request, UploadOpen(r)
    PROVE  FilesInv'
<1> DEFINE c0 == req[r].content
<1>1. At(r, "upload_open") /\ RequestInv /\ PathInv /\ SharedInv /\ TornInv /\ WholeUnlessShared
  BY DEF MediaInv, UploadOpen
<1>2. c0 \in Content
  BY <1>1 DEF RequestInv, RecordInv, At, Uploads
<1>3. PICK n \in IF tmp[c0] # NoInode THEN {tmp[c0]} ELSE FreeInodes :
        /\ tmp' = [tmp EXCEPT ![c0] = n]
        /\ whole' = whole \ {n}
        /\ Put(r, [req[r] EXCEPT !.pc = "upload_write", !.fd = n])
  BY DEF UploadOpen
<1>4. target' = target /\ orphaned' = orphaned /\ shared' \in {shared, shared \cup {c0}}
  BY DEF UploadOpen, Shares
<1>5. n \in Inode
  BY <1>2, <1>3 DEF MediaInv, TypeOK, FreeInodes
<1> DEFINE rec == [req[r] EXCEPT !.pc = "upload_write", !.fd = n]
<1>6. rec \in RequestType /\ rec.pc = "upload_write" /\ rec.fd = n /\ rec.content = c0
  BY <1>5, RecordType DEF MediaInv, RequestType, Steps
<1>7. /\ req'[r] = rec
      /\ \A q \in Request \ {r} : req'[q] = req[q]
  BY <1>3, <1>6, PutOnly DEF MediaInv
<1> HIDE DEF rec
<1>8. \A d \in Content : target[d] # n /\ (tmp[d] = n => d = c0)
  BY <1>1, <1>2, <1>3, <1>5, Sentinels DEF PathInv, FreeInodes
<1>9. \A q \in Request : Writing(q) => /\ req[q].fd \in Inode /\ req[q].content \in Content
                                       /\ req[q].fd = n => req[q].content = c0
  <2>1. \A q \in Request : Writing(q) => req[q].fd \in Inode /\ req[q].content \in Content
    BY <1>1 DEF RequestInv, RecordInv, Writing, At, Uploads
  <2>2. ASSUME NEW q \in Request, Writing(q), req[q].fd = n
        PROVE  req[q].content = c0
    BY <1>1, <1>2, <1>3, <2>2 DEF PathInv, FreeInodes
  <2> QED BY <2>1, <2>2
<1>10. /\ tmp'[c0] = n
       /\ \A d \in Content : d # c0 => tmp'[d] = tmp[d]
  BY <1>2, <1>3 DEF MediaInv, TypeOK
<1>11. \A q \in Request \ {r} :
         /\ req'[q].pc \in {"upload_write", "upload_replace"} => Using(q) /\ req'[q] = req[q]
         /\ req'[q].pc = "upload_write" => Writing(q) /\ req'[q] = req[q]
  BY <1>7 DEF Using, Writing, At
<1>12. PathInv'
  <2>1. \A c, d \in Content : target'[c] = target'[d] /\ target'[c] # NoInode => c = d
    BY <1>1, <1>4 DEF PathInv
  <2>2. \A c, d \in Content : tmp'[c] = tmp'[d] /\ tmp'[c] # NoInode => c = d
    BY <1>1, <1>8, <1>10 DEF PathInv
  <2>3. \A c, d \in Content : target'[c] = tmp'[d] => target'[c] = NoInode
    BY <1>1, <1>4, <1>8, <1>10 DEF PathInv
  <2>4. ASSUME NEW q \in Request, NEW c \in Content, req'[q].pc = "upload_write",
               req'[q].fd \in {target'[c], tmp'[c]}
        PROVE  req'[q].content = c
    <3>1. CASE q = r
      <4>1. req'[q].fd = n /\ req'[q].content = c0
        BY <1>6, <1>7, <3>1
      <4> QED BY <1>4, <1>8, <1>10, <2>4, <4>1
    <3>2. CASE q # r
      <4>1. Writing(q) /\ req'[q] = req[q]
        BY <1>11, <2>4, <3>2
      <4> QED BY <1>1, <1>4, <1>9, <1>10, <2>4, <4>1 DEF PathInv
    <3> QED BY <3>1, <3>2
  <2> QED BY <2>1, <2>2, <2>3, <2>4 DEF PathInv, Writing, At
<1>13. SharedInv'
  <2>1. \A q \in Request \ {r} : Using(q) /\ req[q].content = c0 => c0 \in shared'
    BY DEF UploadOpen, Shares, Using, At
  <2>2. ASSUME NEW p \in Request, NEW q \in Request, req'[p].content = req'[q].content,
               req'[p].pc \in {"upload_write", "upload_replace"},
               req'[q].pc \in {"upload_write", "upload_replace"}
        PROVE  p = q \/ req'[p].content \in shared'
    <3>1. CASE p # r /\ q # r
      BY <1>1, <1>4, <1>11, <2>2, <3>1 DEF SharedInv
    <3>2. CASE p = r /\ q # r
      BY <1>6, <1>7, <1>11, <2>1, <2>2, <3>2
    <3>3. CASE p # r /\ q = r
      BY <1>6, <1>7, <1>11, <2>1, <2>2, <3>3
    <3> QED BY <3>1, <3>2, <3>3
  <2>3. ASSUME NEW q \in Request, req'[q].pc = "upload_write",
               target'[req'[q].content] = req'[q].fd
        PROVE  req'[q].content \in shared'
    <3>1. CASE q = r
      BY <1>2, <1>4, <1>6, <1>7, <1>8, <2>3, <3>1
    <3>2. CASE q # r
      BY <1>1, <1>4, <1>11, <2>3, <3>2 DEF SharedInv
    <3> QED BY <3>1, <3>2
  <2> QED BY <2>2, <2>3 DEF SharedInv, Using, Writing, At
<1>14. \A p \in Request : Writing(p) => p # r /\ req'[p] = req[p]
  BY <1>1, <1>7 DEF Writing, At
<1>15. TornInv'
  <2>1. ASSUME NEW c \in Content \ orphaned', target'[c] \notin whole' \cup {NoInode}
        PROVE  \E p \in Request : req'[p].pc = "upload_write" /\ req'[p].fd = target'[c]
    <3>1. target[c] \notin whole \cup {NoInode}
      BY <1>3, <1>4, <1>8, <2>1
    <3>2. PICK p \in Request : Writing(p) /\ req[p].fd = target[c]
      BY <1>1, <1>4, <2>1, <3>1 DEF TornInv, TornFileIsBeingWritten, Writing
    <3> QED BY <1>4, <1>14, <3>2 DEF Writing, At
  <2>2. ASSUME NEW q \in Request, NEW c, c = req'[q].content,
               req'[q].pc \in {"upload_write", "upload_replace"},
               c \notin orphaned', tmp'[c] \notin whole' \cup {NoInode}
        PROVE  \E p \in Request : req'[p].pc = "upload_write" /\ req'[p].fd = tmp'[c]
    <3>1. CASE c = c0
      BY <1>6, <1>7, <1>10, <3>1
    <3>2. CASE c # c0
      <4>1. q # r /\ Using(q) /\ c = req[q].content
        BY <1>6, <1>7, <1>11, <2>2, <3>2
      <4>2. c \in Content
        BY <1>1, <4>1 DEF RequestInv, RecordInv, Using, At, Uploads
      <4>3. tmp'[c] = tmp[c] /\ tmp[c] \notin whole \cup {NoInode}
        BY <1>3, <1>8, <1>10, <2>2, <3>2, <4>2
      <4>4. PICK p \in Request : Writing(p) /\ req[p].fd = tmp[c]
        BY <1>1, <1>4, <2>2, <4>1, <4>3 DEF TornInv
      <4> QED BY <1>14, <4>3, <4>4 DEF Writing, At
    <3> QED BY <3>1, <3>2
  <2> QED BY <2>1, <2>2 DEF TornInv, TornFileIsBeingWritten, Using, Writing, At
<1>16. WholeUnlessShared'
  BY <1>1, <1>4, <1>6, <1>7 DEF WholeUnlessShared, At
<1> QED BY <1>12, <1>13, <1>15, <1>16 DEF FilesInv

\* A writer that is done leaves its file whole.
LEMMA WriteFiles ==
    ASSUME MediaInv, NEW r \in Request, UploadWrite(r)
    PROVE  FilesInv'
<1>1. Writing(r) /\ RequestInv /\ PathInv /\ SharedInv /\ TornInv /\ WholeUnlessShared
  BY DEF MediaInv, UploadWrite, Writing
<1>2. whole' = whole \cup {req[r].fd} /\ UNCHANGED <<target, tmp, shared, orphaned>>
  BY DEF UploadWrite, NoData, history
<1> DEFINE rec == [req[r] EXCEPT !.pc = "upload_replace", !.fd = NoInode]
<1>3. rec \in RequestType /\ rec.pc = "upload_replace" /\ rec.content = req[r].content
  BY RecordType DEF MediaInv, RequestType, Steps
<1>4. /\ req'[r] = rec
      /\ \A q \in Request \ {r} : req'[q] = req[q]
  BY <1>3, PutOnly DEF MediaInv, UploadWrite
<1> HIDE DEF rec
<1>5. \A q \in Request :
        /\ req'[q].pc \in {"upload_write", "upload_replace"} =>
              Using(q) /\ req'[q].content = req[q].content
        /\ req'[q].pc = "upload_write" => q # r /\ Writing(q) /\ req'[q] = req[q]
  BY <1>1, <1>3, <1>4 DEF Using, Writing, At
<1>6. PathInv'
  <2>1. /\ \A c, d \in Content : target'[c] = target'[d] /\ target'[c] # NoInode => c = d
        /\ \A c, d \in Content : tmp'[c] = tmp'[d] /\ tmp'[c] # NoInode => c = d
        /\ \A c, d \in Content : target'[c] = tmp'[d] => target'[c] = NoInode
    BY <1>1, <1>2 DEF PathInv
  <2>2. \A q \in Request, c \in Content :
          req'[q].pc = "upload_write" /\ req'[q].fd \in {target'[c], tmp'[c]} => req'[q].content = c
    BY <1>1, <1>2, <1>5 DEF PathInv
  <2> QED BY <2>1, <2>2 DEF PathInv, Writing, At
<1>7. SharedInv'
  <2>1. ASSUME NEW p \in Request, NEW q \in Request, req'[p].content = req'[q].content,
               req'[p].pc \in {"upload_write", "upload_replace"},
               req'[q].pc \in {"upload_write", "upload_replace"}
        PROVE  p = q \/ req'[p].content \in shared'
    BY <1>1, <1>2, <1>5, <2>1 DEF SharedInv
  <2>2. \A q \in Request :
          req'[q].pc = "upload_write" /\ target'[req'[q].content] = req'[q].fd =>
              req'[q].content \in shared'
    BY <1>1, <1>2, <1>5 DEF SharedInv
  <2> QED BY <2>1, <2>2 DEF SharedInv, Using, Writing, At
<1>8. \A p \in Request : Writing(p) /\ req[p].fd \notin whole' =>
        req'[p].pc = "upload_write" /\ req'[p].fd = req[p].fd
  BY <1>2, <1>4 DEF Writing, At
<1>9. TornInv'
  <2>1. ASSUME NEW c \in Content \ orphaned', target'[c] \notin whole' \cup {NoInode}
        PROVE  \E p \in Request : req'[p].pc = "upload_write" /\ req'[p].fd = target'[c]
    <3>1. PICK p \in Request : Writing(p) /\ req[p].fd = target[c]
      BY <1>1, <1>2, <2>1 DEF TornInv, TornFileIsBeingWritten, Writing
    <3> QED BY <1>2, <1>8, <2>1, <3>1
  <2>2. ASSUME NEW q \in Request, NEW c, c = req'[q].content,
               req'[q].pc \in {"upload_write", "upload_replace"},
               c \notin orphaned', tmp'[c] \notin whole' \cup {NoInode}
        PROVE  \E p \in Request : req'[p].pc = "upload_write" /\ req'[p].fd = tmp'[c]
    <3>1. PICK p \in Request : Writing(p) /\ req[p].fd = tmp[c]
      BY <1>1, <1>2, <1>5, <2>2 DEF TornInv
    <3> QED BY <1>2, <1>8, <2>2, <3>1
  <2> QED BY <2>1, <2>2 DEF TornInv, TornFileIsBeingWritten, Using, Writing, At
<1>10. WholeUnlessShared'
  BY <1>1, <1>2, <1>3, <1>4 DEF WholeUnlessShared, At
<1> QED BY <1>6, <1>7, <1>9, <1>10 DEF FilesInv

\* A torn temporary file moved to its target has a writer still, which is another.
LEMMA ReplaceFiles ==
    ASSUME MediaInv, NEW r \in Request, UploadReplace(r), tmp[req[r].content] # NoInode
    PROVE  FilesInv'
<1> DEFINE c0 == req[r].content
<1>1. /\ At(r, "upload_replace") /\ Using(r)
      /\ RequestInv /\ PathInv /\ SharedInv /\ TornInv /\ WholeUnlessShared
  BY DEF MediaInv, UploadReplace, Using
<1>2. c0 \in Content
  BY <1>1 DEF RequestInv, RecordInv, At, Uploads
<1>3. UNCHANGED <<whole, shared, orphaned>>
  BY DEF UploadReplace, NoData, history
<1>4. /\ target'[c0] = tmp[c0] /\ tmp'[c0] = NoInode
      /\ \A c \in Content : c # c0 => target'[c] = target[c] /\ tmp'[c] = tmp[c]
  BY <1>2 DEF MediaInv, TypeOK, UploadReplace
<1> DEFINE rec == Moved(r, "upload_flush")
<1>5. rec \in RequestType /\ rec.pc = "upload_flush"
  BY GotoRecord DEF MediaInv, Steps
<1>6. /\ req'[r] = rec
      /\ \A q \in Request \ {r} : req'[q] = req[q]
  BY <1>5, PutOnly DEF MediaInv, UploadReplace, Goto
<1> HIDE DEF rec
<1>7. \A q \in Request :
        /\ req'[q].pc \in {"upload_write", "upload_replace"} => q # r /\ Using(q) /\ req'[q] = req[q]
        /\ req'[q].pc = "upload_write" => q # r /\ Writing(q) /\ Using(q) /\ req'[q] = req[q]
  BY <1>5, <1>6 DEF Using, Writing, At
<1>8. \A q \in Request : Writing(q) => /\ req[q].fd \in Inode /\ req[q].content \in Content
                                       /\ q # r /\ req'[q] = req[q] /\ req'[q].pc = "upload_write"
  <2>1. \A q \in Request : Writing(q) => req[q].fd \in Inode /\ req[q].content \in Content
    BY <1>1 DEF RequestInv, RecordInv, Writing, At, Uploads
  <2> QED BY <1>1, <1>6, <2>1 DEF Writing, At
<1>9. PathInv'
  <2>1. \A c, d \in Content : target'[c] = target'[d] /\ target'[c] # NoInode => c = d
    BY <1>1, <1>2, <1>4 DEF PathInv
  <2>2. \A c, d \in Content : tmp'[c] = tmp'[d] /\ tmp'[c] # NoInode => c = d
    BY <1>1, <1>4 DEF PathInv
  <2>3. \A c, d \in Content : target'[c] = tmp'[d] => target'[c] = NoInode
    BY <1>1, <1>2, <1>4 DEF PathInv
  <2>4. \A q \in Request, c \in Content :
          req'[q].pc = "upload_write" /\ req'[q].fd \in {target'[c], tmp'[c]} => req'[q].content = c
    BY <1>1, <1>2, <1>4, <1>7, <1>8, Sentinels DEF PathInv
  <2> QED BY <2>1, <2>2, <2>3, <2>4 DEF PathInv, Writing, At
<1>10. SharedInv'
  <2>1. ASSUME NEW p \in Request, NEW q \in Request, req'[p].content = req'[q].content,
               req'[p].pc \in {"upload_write", "upload_replace"},
               req'[q].pc \in {"upload_write", "upload_replace"}
        PROVE  p = q \/ req'[p].content \in shared'
    BY <1>1, <1>3, <1>7, <2>1 DEF SharedInv
  <2>2. ASSUME NEW q \in Request, req'[q].pc = "upload_write",
               target'[req'[q].content] = req'[q].fd
        PROVE  req'[q].content \in shared'
    <3>1. q # r /\ Writing(q) /\ Using(q) /\ req'[q] = req[q]
      BY <1>7, <2>2
    <3>2. CASE req[q].content = c0
      BY <1>1, <1>3, <3>1, <3>2 DEF SharedInv
    <3>3. CASE req[q].content # c0
      BY <1>1, <1>3, <1>4, <1>8, <2>2, <3>1, <3>3 DEF SharedInv
    <3> QED BY <3>2, <3>3
  <2> QED BY <2>1, <2>2 DEF SharedInv, Using, Writing, At
<1>11. TornInv'
  <2>1. ASSUME NEW c \in Content \ orphaned', target'[c] \notin whole' \cup {NoInode}
        PROVE  \E p \in Request : req'[p].pc = "upload_write" /\ req'[p].fd = target'[c]
    <3>1. CASE c = c0
      <4>1. PICK p \in Request : Writing(p) /\ req[p].fd = tmp[c0]
        BY <1>1, <1>3, <1>4, <2>1, <3>1 DEF TornInv
      <4> QED BY <1>4, <1>8, <3>1, <4>1
    <3>2. CASE c # c0
      <4>1. PICK p \in Request : Writing(p) /\ req[p].fd = target[c]
        BY <1>1, <1>3, <1>4, <2>1, <3>2 DEF TornInv, TornFileIsBeingWritten, Writing
      <4> QED BY <1>4, <1>8, <3>2, <4>1
    <3> QED BY <3>1, <3>2
  <2>2. ASSUME NEW q \in Request, NEW c, c = req'[q].content,
               req'[q].pc \in {"upload_write", "upload_replace"},
               c \notin orphaned', tmp'[c] \notin whole' \cup {NoInode}
        PROVE  \E p \in Request : req'[p].pc = "upload_write" /\ req'[p].fd = tmp'[c]
    <3>1. Using(q) /\ c = req[q].content /\ c # c0
      BY <1>4, <1>7, <2>2
    <3>2. c \in Content
      BY <1>1, <3>1 DEF RequestInv, RecordInv, Using, At, Uploads
    <3>3. PICK p \in Request : Writing(p) /\ req[p].fd = tmp[c]
      BY <1>1, <1>3, <1>4, <2>2, <3>1, <3>2 DEF TornInv
    <3> QED BY <1>4, <1>8, <3>1, <3>2, <3>3
  <2> QED BY <2>1, <2>2 DEF TornInv, TornFileIsBeingWritten, Using, Writing, At
<1>12. WholeUnlessShared'
  BY <1>1, <1>3, <1>5, <1>6 DEF WholeUnlessShared, At
<1> QED BY <1>9, <1>10, <1>11, <1>12 DEF FilesInv

-----------------------------------------------------------------------------
(* Steps that change one request only.                                     *)

\* What leaves rows and files alone, but may go on record.
LEMMA MeetKeeps ==
    ASSUME MediaInv, NEW r \in Request, NEW rec \in RequestType, Put(r, rec), RecordInv(rec),
           UNCHANGED <<owners, gifs, shared, orphaned>>, UNCHANGED files,
           undercut \subseteq undercut', undercut' \subseteq Content,
           ~Writing(r), ~At(r, "delete_commit"),
           rec.pc \notin {"upload_write", "upload_replace", "upload_commit"},
           rec.pc = "upload_flush" =>
               /\ target[rec.content] # NoInode
               /\ \A q \in Request : At(q, "delete_unlink") /\ req[q].content = rec.content =>
                     rec.content \in undercut',
           rec.pc = "delete_unlink" =>
               /\ RowsOf(rec.content) \subseteq {rec.gif}
               /\ \A q \in Request : Stored(q) /\ req[q].content = rec.content =>
                     rec.content \in undercut',
           rec.pc = "raw_reply" /\ rec.fd # NoInode => rec.content \in shared
    PROVE  MediaInv'
<1>1. UNCHANGED <<owners, gifs, target, tmp, whole, shared, orphaned>>
  BY DEF files
<1>2. req' \in [Request -> RequestType]
  BY PutOnly DEF MediaInv
<1>3. TypeOK'
  BY <1>1, <1>2 DEF MediaInv, TypeOK, RequestType
<1>4. RequestInv'
  BY RequestsKept
<1>5. InsertInv' /\ OneRowPerOwnerAndContent'
  BY <1>1, RowsSame
<1>6. FilesInv'
  BY <1>1, FilesKept
<1>7. FileInv'
  BY <1>1, LossKept
<1> QED BY <1>3, <1>4, <1>5, <1>6, <1>7 DEF MediaInv, FilesInv

\* What is under way goes on, ends, or is not about files.
LEMMA QuietKeeps ==
    ASSUME MediaInv, NEW r \in Request, NEW rec \in RequestType, Put(r, rec), RecordInv(rec),
           NoData, UNCHANGED files, ~Writing(r), ~At(r, "delete_commit"),
           rec.pc \notin {"upload_write", "upload_replace", "upload_flush", "upload_commit",
                          "delete_unlink"},
           rec.pc = "raw_reply" /\ rec.fd # NoInode => rec.content \in shared
    PROVE  MediaInv'
<1>1. UNCHANGED <<owners, gifs, undercut, shared, orphaned>>
  BY DEF NoData, history
<1>2. undercut' \subseteq Content
  BY <1>1 DEF MediaInv, TypeOK
<1> QED BY <1>1, <1>2, MeetKeeps

\* A request that fails or is answered.
LEMMA EndKeeps ==
    ASSUME MediaInv, NEW r \in Request, End(r), NoData, UNCHANGED files,
           ~Writing(r), ~At(r, "delete_commit")
    PROVE  MediaInv'
<1>1. Idle.pc = "idle" /\ Idle \in RequestType /\ RecordInv(Idle) /\ Put(r, Idle)
  BY IdleType DEF End
<1> QED BY <1>1, QuietKeeps

\* A file that exists is taken to hold the content; otherwise the upload opens one.
LEMMA ExistsKeeps ==
    ASSUME MediaInv, NEW r \in Request, UploadExists(r)
    PROVE  MediaInv'
<1> DEFINE c == req[r].content
           step == IF target[c] # NoInode THEN "upload_flush" ELSE "upload_open"
<1>0. step \in Steps
  BY DEF Steps
<1>2. /\ At(r, "upload_exists") /\ Put(r, Moved(r, step))
      /\ UNCHANGED <<owners, gifs, shared, orphaned>> /\ UNCHANGED files
  BY DEF UploadExists, Goto
<1>3. c \in Content /\ req[r].owner \in Owner /\ ~Writing(r) /\ ~At(r, "delete_commit")
  BY <1>2 DEF MediaInv, RequestInv, RecordInv, Uploads, Writing, At
<1>7. /\ undercut \subseteq undercut' /\ undercut' \subseteq Content
      /\ step = "upload_flush" => \A q \in Request : At(q, "delete_unlink") /\ req[q].content = c =>
            c \in undercut'
  BY <1>3 DEF UploadExists, Meets, Unlinking, At, MediaInv, TypeOK
<1>8. step \in {"upload_flush", "upload_open"} /\ (step = "upload_flush" => target[c] # NoInode)
  OBVIOUS
<1> HIDE DEF step
<1> DEFINE rec == Moved(r, step)
<1>1. rec \in RequestType /\ rec.pc = step /\ rec.content = c /\ rec.owner = req[r].owner
  BY <1>0, GotoRecord DEF MediaInv
<1>4. RecordInv(rec)
  BY <1>1, <1>3, <1>8 DEF RecordInv, Uploads, Deletes
<1>5. Put(r, rec)
  BY <1>2
<1> HIDE DEF rec
<1> QED BY <1>1, <1>2, <1>3, <1>4, <1>5, <1>7, <1>8, MeetKeeps

\* The second look at the row, and the wait for its lock.
LEMMA DeleteFlushKeeps ==
    ASSUME MediaInv, NEW r \in Request, DeleteFlush(r)
    PROVE  MediaInv'
<1> DEFINE rec == Moved(r, "delete_check")
<1>1. rec \in RequestType /\ rec.pc = "delete_check"
      /\ rec.content = req[r].content /\ rec.gif = req[r].gif
  BY GotoRecord DEF MediaInv, Steps
<1>2. At(r, "delete_flush") /\ Put(r, rec) /\ NoData /\ UNCHANGED files
  BY DEF DeleteFlush, Goto
<1>3. /\ ~Writing(r) /\ ~At(r, "delete_commit")
      /\ req[r].gif \in Gif /\ req[r].content \in Content
  BY <1>2 DEF MediaInv, RequestInv, RecordInv, Deletes, Writing, At
<1>4. RecordInv(rec)
  BY <1>1, <1>3 DEF RecordInv, Uploads, Deletes
<1> HIDE DEF rec
<1> QED BY <1>1, <1>2, <1>3, <1>4, QuietKeeps

\* A file is removed only if no other row has its content.
LEMMA CheckKeeps ==
    ASSUME MediaInv, NEW r \in Request, DeleteCheck(r)
    PROVE  MediaInv'
<1> DEFINE c == req[r].content
           step == IF StillUsed(req[r].gif, c) THEN "delete_commit" ELSE "delete_unlink"
<1>0. step \in Steps
  BY DEF Steps
<1>2. /\ At(r, "delete_check") /\ Put(r, Moved(r, step))
      /\ UNCHANGED <<owners, gifs, shared, orphaned>> /\ UNCHANGED files
  BY DEF DeleteCheck, Goto
<1>3. c \in Content /\ req[r].gif \in Gif /\ ~Writing(r) /\ ~At(r, "delete_commit")
  BY <1>2 DEF MediaInv, RequestInv, RecordInv, Deletes, Writing, At
<1>7. /\ undercut \subseteq undercut' /\ undercut' \subseteq Content
      /\ step = "delete_unlink" =>
            \A q \in Request : Stored(q) /\ req[q].content = c => c \in undercut'
  BY <1>3 DEF DeleteCheck, Meets, Relying, Stored, At, MediaInv, TypeOK
<1>8. /\ step \in {"delete_commit", "delete_unlink"}
      /\ step = "delete_unlink" => RowsOf(c) \subseteq {req[r].gif}
  BY DEF StillUsed
<1> HIDE DEF step
<1> DEFINE rec == Moved(r, step)
<1>1. rec \in RequestType /\ rec.pc = step /\ rec.content = c /\ rec.gif = req[r].gif
  BY <1>0, GotoRecord DEF MediaInv
<1>4. RecordInv(rec)
  BY <1>1, <1>3, <1>8 DEF RecordInv, Uploads, Deletes
<1>5. Put(r, rec)
  BY <1>2
<1> HIDE DEF rec
<1> QED BY <1>1, <1>2, <1>3, <1>4, <1>5, <1>7, <1>8, MeetKeeps

\* A download has found its row.
LEMMA RawKeeps ==
    ASSUME MediaInv, NEW r \in Request, NEW w \in Worker, NEW g \in Gif, Raw(r, w, g)
    PROVE  MediaInv'
<1> DEFINE rec == [Idle EXCEPT !.pc = "raw_read", !.worker = w, !.content = gifs[g].content_hash]
<1>1. At(r, "idle") /\ g \in Rows /\ Put(r, rec) /\ NoData /\ UNCHANGED files
  BY DEF Raw
<1>2. gifs[g].content_hash \in Content
  BY <1>1 DEF MediaInv, TypeOK, Rows, Row
<1>3. rec \in RequestType /\ rec.pc = "raw_read" /\ rec.content \in Content
  BY <1>2, IdleType DEF RequestType, Steps, Idle
<1> HIDE DEF rec
<1>4. RecordInv(rec) /\ rec.pc \notin Uploads /\ rec.pc \notin Deletes
  BY <1>3 DEF RecordInv, Uploads, Deletes
<1>5. ~Writing(r) /\ ~At(r, "delete_commit")
  BY <1>1 DEF Writing, At
<1> QED BY <1>1, <1>3, <1>4, <1>5, QuietKeeps

\* What is read torn comes from a writer of a shared temporary file, or from one
\* that died.
LEMMA RawReadKeeps ==
    ASSUME MediaInv, NEW r \in Request, RawRead(r)
    PROVE  MediaInv'
<1> DEFINE c == req[r].content
           n == target[c]
<1>1. At(r, "raw_read") /\ NoData /\ UNCHANGED files
  BY DEF RawRead
<1>2. ~Writing(r) /\ ~At(r, "delete_commit")
  BY <1>1 DEF Writing, At
<1>3. c \in Content
  BY <1>1 DEF MediaInv, RequestInv, RecordInv, At
<1>4. CASE n = NoInode
  BY <1>1, <1>2, <1>4, EndKeeps DEF RawRead
<1>5. CASE n # NoInode
  <2> DEFINE rec == [Moved(r, "raw_reply") EXCEPT !.fd = IF n \in whole THEN NoInode ELSE n]
  <2>1. Put(r, rec)
    BY <1>5 DEF RawRead
  <2>2. n \in Inode
    BY <1>3, <1>5 DEF MediaInv, TypeOK
  <2>3. rec \in RequestType /\ rec.pc = "raw_reply" /\ rec.content = c
        /\ rec.fd = IF n \in whole THEN NoInode ELSE n
    BY <2>2, GotoRecord DEF MediaInv, RequestType, Steps
  <2> HIDE DEF rec
  <2>4. RecordInv(rec) /\ rec.pc \notin Uploads /\ rec.pc \notin Deletes
    BY <1>3, <2>3 DEF RecordInv, Uploads, Deletes
  <2>5. ASSUME n \notin whole
        PROVE  c \in shared
    <3>1. CASE c \in orphaned
      BY <3>1 DEF MediaInv, TypeOK
    <3>2. CASE c \notin orphaned
      <4>1. PICK q \in Request : Writing(q) /\ req[q].fd = n
        BY <1>3, <1>5, <2>5, <3>2 DEF MediaInv, TornInv, TornFileIsBeingWritten, Writing
      <4>2. req[q].content = c
        BY <1>3, <4>1 DEF MediaInv, PathInv
      <4> QED BY <4>1, <4>2 DEF MediaInv, SharedInv
    <3> QED BY <3>1, <3>2
  <2> QED BY <1>1, <1>2, <2>1, <2>3, <2>4, <2>5, QuietKeeps
<1> QED BY <1>4, <1>5

\* The deletion of an account begins.
LEMMA DeleteOwnerKeeps ==
    ASSUME MediaInv, NEW r \in Request, NEW o \in Owner, DeleteOwner(r, o)
    PROVE  MediaInv'
<1> DEFINE rec == [Idle EXCEPT !.pc = "owner_commit", !.owner = o]
<1>1. At(r, "idle") /\ Put(r, rec) /\ NoData /\ UNCHANGED files
  BY DEF DeleteOwner
<1>2. rec \in RequestType /\ rec.pc = "owner_commit"
  BY IdleType DEF RequestType, Steps, Idle
<1> HIDE DEF rec
<1>3. RecordInv(rec) /\ rec.pc \notin Uploads /\ rec.pc \notin Deletes
  BY <1>2 DEF RecordInv, Uploads, Deletes
<1>4. ~Writing(r) /\ ~At(r, "delete_commit")
  BY <1>1 DEF Writing, At
<1> QED BY <1>1, <1>2, <1>3, <1>4, QuietKeeps

-----------------------------------------------------------------------------
(* Uploads.                                                                *)

\* An upload begins.
LEMMA UploadKeeps ==
    ASSUME MediaInv, NEW r \in Request, NEW w \in Worker, NEW o \in Owner, NEW c \in Content,
           Upload(r, w, o, c)
    PROVE  MediaInv'
<1> DEFINE rec == [Idle EXCEPT !.pc = "upload_exists", !.worker = w, !.owner = o, !.content = c]
<1>1. At(r, "idle") /\ Put(r, rec) /\ NoData /\ UNCHANGED files
  BY DEF Upload
<1>2. rec \in RequestType /\ rec.pc = "upload_exists" /\ rec.content = c /\ rec.owner = o
  BY IdleType DEF RequestType, Steps, Idle
<1> HIDE DEF rec
<1>3. RecordInv(rec)
  BY <1>2 DEF RecordInv, Uploads, Deletes
<1>4. ~Writing(r) /\ ~At(r, "delete_commit")
  BY <1>1 DEF Writing, At
<1> QED BY <1>1, <1>2, <1>3, <1>4, QuietKeeps

\* Opening the temporary file touches no target and no row.
LEMMA OpenKeeps ==
    ASSUME MediaInv, NEW r \in Request, UploadOpen(r)
    PROVE  MediaInv'
<1> DEFINE c == req[r].content
<1>1. At(r, "upload_open") /\ UNCHANGED <<owners, gifs, target, undercut, orphaned>>
  BY DEF UploadOpen
<1>2. PICK n \in IF tmp[c] # NoInode THEN {tmp[c]} ELSE FreeInodes :
        /\ tmp' = [tmp EXCEPT ![c] = n]
        /\ whole' = whole \ {n}
        /\ Put(r, [req[r] EXCEPT !.pc = "upload_write", !.fd = n])
  BY DEF UploadOpen
<1>3. req[r].owner \in Owner /\ c \in Content /\ ~At(r, "delete_commit")
  BY <1>1 DEF MediaInv, RequestInv, RecordInv, At, Uploads
<1>4. n \in Inode
  BY <1>2, <1>3 DEF MediaInv, TypeOK, FreeInodes
<1> DEFINE rec == [req[r] EXCEPT !.pc = "upload_write", !.fd = n]
<1>5. rec \in RequestType /\ rec.pc = "upload_write" /\ rec.fd = n
      /\ rec.content = c /\ rec.owner = req[r].owner
  BY <1>4, RecordType DEF MediaInv, RequestType, Steps
<1> HIDE DEF rec
<1>6. RecordInv(rec) /\ rec.pc \notin Deletes
  BY <1>3, <1>4, <1>5 DEF RecordInv, Uploads, Deletes
<1>7. shared' \in {shared, shared \cup {c}}
  BY DEF UploadOpen, Shares
<1>8. Put(r, rec)
  BY <1>2 DEF rec
<1>9. TypeOK'
  <2>1. req' \in [Request -> RequestType]
    BY <1>5, <1>8, PutOnly DEF MediaInv
  <2>2. /\ tmp' \in [Content -> Inode \cup {NoInode}] /\ whole' \subseteq Inode
        /\ orphaned' \subseteq shared' /\ shared' \subseteq Content
    BY <1>1, <1>2, <1>3, <1>4, <1>7 DEF MediaInv, TypeOK
  <2> QED BY <1>1, <2>1, <2>2 DEF MediaInv, TypeOK, RequestType
<1>10. RequestInv'
  BY <1>5, <1>6, <1>8, RequestsKept
<1>11. InsertInv' /\ OneRowPerOwnerAndContent'
  BY <1>1, <1>5, <1>8, RowsSame
<1>12. FilesInv'
  BY OpenFiles
<1>13. FileInv'
  BY <1>1, <1>3, <1>5, <1>6, <1>8, LossKept
<1> QED BY <1>9, <1>10, <1>11, <1>12, <1>13 DEF MediaInv, FilesInv

\* Writing touches no path and no row.
LEMMA WriteKeeps ==
    ASSUME MediaInv, NEW r \in Request, UploadWrite(r)
    PROVE  MediaInv'
<1> DEFINE rec == [req[r] EXCEPT !.pc = "upload_replace", !.fd = NoInode]
<1>1. At(r, "upload_write") /\ Put(r, rec) /\ whole' = whole \cup {req[r].fd}
      /\ UNCHANGED <<owners, gifs, target, tmp, undercut, shared, orphaned>>
  BY DEF UploadWrite, NoData, history
<1>2. /\ ~At(r, "delete_commit") /\ req[r].fd \in Inode
      /\ req[r].owner \in Owner /\ req[r].content \in Content
  BY <1>1 DEF MediaInv, RequestInv, RecordInv, At, Uploads
<1>3. rec \in RequestType /\ rec.pc = "upload_replace"
      /\ rec.content = req[r].content /\ rec.owner = req[r].owner
  BY RecordType DEF MediaInv, RequestType, Steps
<1> HIDE DEF rec
<1>4. RecordInv(rec) /\ rec.pc \notin Deletes
  BY <1>2, <1>3 DEF RecordInv, Uploads, Deletes
<1>5. TypeOK'
  <2>1. req' \in [Request -> RequestType]
    BY <1>1, <1>3, PutOnly DEF MediaInv
  <2> QED BY <1>1, <1>2, <2>1 DEF MediaInv, TypeOK, RequestType
<1>6. RequestInv'
  BY <1>1, <1>3, <1>4, RequestsKept
<1>7. InsertInv' /\ OneRowPerOwnerAndContent'
  BY <1>1, <1>3, RowsSame
<1>8. FilesInv'
  BY WriteFiles
<1>9. FileInv'
  BY <1>1, <1>2, <1>3, LossKept
<1> QED BY <1>5, <1>6, <1>7, <1>8, <1>9 DEF MediaInv, FilesInv

\* The temporary file becomes the target, or has been moved by another already.
LEMMA ReplaceKeeps ==
    ASSUME MediaInv, NEW r \in Request, UploadReplace(r)
    PROVE  MediaInv'
<1> DEFINE c == req[r].content
<1>1. At(r, "upload_replace")
      /\ UNCHANGED <<owners, gifs, whole, shared, orphaned>>
  BY DEF UploadReplace
<1>2. /\ ~At(r, "delete_commit") /\ ~Writing(r)
      /\ req[r].owner \in Owner /\ c \in Content
  BY <1>1 DEF MediaInv, RequestInv, RecordInv, Writing, At, Uploads
<1>3. CASE tmp[c] = NoInode
  <2>1. End(r) /\ NoData /\ UNCHANGED files
    BY <1>3 DEF UploadReplace, files, NoData, history
  <2> QED BY <1>2, <2>1, EndKeeps
<1>4. CASE tmp[c] # NoInode
  <2> DEFINE rec == Moved(r, "upload_flush")
  <2>1. /\ target' = [target EXCEPT ![c] = tmp[c]]
        /\ tmp' = [tmp EXCEPT ![c] = NoInode]
        /\ Put(r, rec)
    BY <1>4 DEF UploadReplace, Goto
  <2>9. /\ undercut \subseteq undercut' /\ undercut' \subseteq Content
        /\ \A q \in Request : At(q, "delete_unlink") /\ req[q].content = c => c \in undercut'
    BY <1>2, <1>4 DEF UploadReplace, Meets, Unlinking, At, MediaInv, TypeOK
  <2>2. rec \in RequestType /\ rec.pc = "upload_flush"
        /\ rec.content = c /\ rec.owner = req[r].owner
    BY GotoRecord DEF MediaInv, Steps
  <2> HIDE DEF rec
  <2>3. RecordInv(rec) /\ rec.pc \notin Deletes
    BY <1>2, <2>2 DEF RecordInv, Uploads, Deletes
  <2>4. TypeOK'
    <3>1. req' \in [Request -> RequestType]
      BY <2>1, <2>2, PutOnly DEF MediaInv
    <3>2. target' \in [Content -> Inode \cup {NoInode}] /\ tmp' \in [Content -> Inode \cup {NoInode}]
      BY <1>2, <2>1 DEF MediaInv, TypeOK
    <3> QED BY <1>1, <2>9, <3>1, <3>2 DEF MediaInv, TypeOK, RequestType
  <2>5. RequestInv'
    BY <2>1, <2>2, <2>3, RequestsKept
  <2>6. InsertInv' /\ OneRowPerOwnerAndContent'
    BY <1>1, <2>1, <2>2, RowsSame
  <2>7. FilesInv'
    BY <1>4, ReplaceFiles
  <2>8. FileInv'
    <3>1. /\ \A d \in Content : target[d] # NoInode => target'[d] # NoInode
          /\ target'[c] # NoInode
      BY <1>2, <1>4, <2>1 DEF MediaInv, TypeOK
    <3> QED BY <1>1, <1>2, <2>1, <2>2, <2>9, <3>1, LossKept
  <2> QED BY <2>4, <2>5, <2>6, <2>7, <2>8 DEF MediaInv, FilesInv
<1> QED BY <1>3, <1>4

\* The row is inserted under an id of its own, after the insertion of an equal one
\* has ended, or the request fails.
LEMMA FlushKeeps ==
    ASSUME MediaInv, NEW r \in Request, UploadFlush(r)
    PROVE  MediaInv'
<1> DEFINE o == req[r].owner
           c == req[r].content
<1>1. At(r, "upload_flush") /\ NoData /\ UNCHANGED files
      /\ UNCHANGED <<owners, gifs, target, tmp, whole, undercut, shared, orphaned>>
  BY DEF UploadFlush, NoData, files, history
<1>2. /\ Stored(r) /\ ~At(r, "delete_commit") /\ ~Writing(r)
      /\ o \in Owner /\ c \in Content
  BY <1>1 DEF MediaInv, RequestInv, RecordInv, Stored, Writing, At, Uploads
<1>3. CASE ~CanInsert(o, c)
  <2>1. End(r)
    BY <1>3 DEF UploadFlush
  <2> QED BY <1>1, <1>2, <2>1, EndKeeps
<1>4. CASE CanInsert(o, c)
  <2>1. PICK g \in FreeGifs : Put(r, [req[r] EXCEPT !.pc = "upload_commit", !.gif = g])
    BY <1>4 DEF UploadFlush
  <2> DEFINE rec == [req[r] EXCEPT !.pc = "upload_commit", !.gif = g]
  <2>2. rec \in RequestType /\ rec.pc = "upload_commit" /\ rec.gif = g
        /\ rec.content = c /\ rec.owner = o
    BY RecordType DEF MediaInv, RequestType, Steps, FreeGifs
  <2>3. Put(r, rec)
    BY <2>1
  <2> HIDE DEF rec
  <2>4. RecordInv(rec) /\ rec.pc \notin Deletes
    BY <1>2, <2>2 DEF RecordInv, Uploads, Deletes
  <2>5. /\ req' \in [Request -> RequestType] /\ req'[r] = rec
        /\ \A q \in Request \ {r} : req'[q] = req[q]
    BY <2>2, <2>3, PutOnly DEF MediaInv
  <2>6. TypeOK'
    BY <1>1, <2>5 DEF MediaInv, TypeOK, RequestType
  <2>7. RequestInv'
    BY <2>2, <2>3, <2>4, RequestsKept
  <2>8. OneRowPerOwnerAndContent'
    BY <1>1 DEF MediaInv, OneRowPerOwnerAndContent, Rows
  <2>9. InsertInv'
    <3>1. /\ g \in Gif \ Rows /\ o \in owners
          /\ \A h \in RowsOf(c) : gifs[h].owner_id # o
          /\ \A q \in Request : req[q].gif # g
          /\ \A q \in Request : req[q].pc = "upload_commit" =>
                req[q].owner # o \/ req[q].content # c
      BY <1>4 DEF UploadFlush, CanInsert, Inserting, FreeGifs, At
    <3>2. \A p \in Request : req[p].pc = "upload_commit" =>
            /\ req[p].gif \in Gif \ Rows
            /\ req[p].owner \in owners
            /\ \A h \in RowsOf(req[p].content) : gifs[h].owner_id # req[p].owner
            /\ \A q \in Request \ {p} : req[q].pc = "upload_commit" =>
                  /\ req[q].gif # req[p].gif
                  /\ req[q].owner # req[p].owner \/ req[q].content # req[p].content
      BY DEF MediaInv, InsertInv, At
    <3>3. Rows' = Rows /\ \A d : RowsOf(d)' = RowsOf(d)
      BY <1>1 DEF Rows, RowsOf
    <3> SUFFICES ASSUME NEW p \in Request, req'[p].pc = "upload_commit"
                 PROVE  /\ req'[p].gif \in Gif \ Rows
                        /\ req'[p].owner \in owners
                        /\ \A h \in RowsOf(req'[p].content) : gifs[h].owner_id # req'[p].owner
                        /\ \A q \in Request \ {p} : req'[q].pc = "upload_commit" =>
                              /\ req'[q].gif # req'[p].gif
                              /\ req'[q].owner # req'[p].owner \/ req'[q].content # req'[p].content
      BY <1>1 DEF InsertInv, At, Rows, RowsOf
    <3>4. CASE p = r
      BY <2>2, <2>5, <3>1, <3>4
    <3>5. CASE p # r
      BY <2>2, <2>5, <3>1, <3>2, <3>5
    <3> QED BY <3>4, <3>5
  <2>10. FilesInv'
    BY <1>1, <1>2, <2>2, <2>3, FilesKept
  <2>11. FileInv'
    <3>1. \A q \in Request : At(q, "delete_unlink") /\ req[q].content = c => c \in undercut
      BY <1>2 DEF MediaInv, FileInv
    <3>2. target[c] # NoInode \/ c \in undercut
      BY <1>2 DEF MediaInv, FileInv
    <3> QED BY <1>1, <1>2, <2>2, <2>3, <3>1, <3>2, LossKept
  <2> QED BY <2>6, <2>7, <2>8, <2>9, <2>10, <2>11 DEF MediaInv, FilesInv
<1> QED BY <1>3, <1>4

\* The new row is the only one of its owner and content, and has its file.
LEMMA UploadCommitKeeps ==
    ASSUME MediaInv, NEW r \in Request, UploadCommit(r)
    PROVE  MediaInv'
<1> DEFINE g0 == req[r].gif
           o == req[r].owner
           c0 == req[r].content
           row == [owner_id |-> o, content_hash |-> c0]
<1>1. At(r, "upload_commit") /\ gifs' = [gifs EXCEPT ![g0] = row] /\ Put(r, Idle)
      /\ UNCHANGED <<owners, target, tmp, whole, undercut, shared, orphaned>>
  BY DEF UploadCommit, files, history, End
<1>2. /\ Stored(r) /\ ~At(r, "delete_commit") /\ ~Writing(r)
      /\ o \in Owner /\ c0 \in Content
  BY <1>1 DEF MediaInv, RequestInv, RecordInv, Stored, Writing, At, Uploads
<1>3. /\ g0 \in Gif \ Rows /\ o \in owners
      /\ \A g \in RowsOf(c0) : gifs[g].owner_id # o
      /\ \A q \in Request \ {r} : At(q, "upload_commit") =>
            req[q].gif # g0 /\ (req[q].owner # o \/ req[q].content # c0)
  BY <1>1 DEF MediaInv, InsertInv
<1>4. row \in Row /\ row.owner_id = o /\ row.content_hash = c0 /\ row # NoRow
  BY <1>2, Sentinels DEF Row
<1> HIDE DEF row
<1>5. gifs'[g0] = row /\ \A g \in Gif : g # g0 => gifs'[g] = gifs[g]
  BY <1>1, <1>3 DEF MediaInv, TypeOK
<1>6. Rows' = Rows \cup {g0}
  BY <1>3, <1>4, <1>5 DEF Rows
<1>7. /\ req' \in [Request -> RequestType] /\ req'[r] = Idle
      /\ \A q \in Request \ {r} : req'[q] = req[q]
  BY <1>1, IdleType, PutOnly DEF MediaInv
<1>8. TypeOK'
  <2>1. gifs' \in [Gif -> Row \cup {NoRow}]
    BY <1>1, <1>4 DEF MediaInv, TypeOK
  <2> QED BY <1>1, <1>7, <2>1 DEF MediaInv, TypeOK, RequestType
<1>9. RequestInv'
  BY <1>1, IdleType, RequestsKept
<1>10. OneRowPerOwnerAndContent'
  <2>1. \A g \in Rows : gifs[g] # row
    BY <1>3, <1>4 DEF RowsOf
  <2>2. \A g, h \in Rows' : gifs'[g] = gifs'[h] => g = h
    BY <1>3, <1>5, <1>6, <2>1 DEF MediaInv, OneRowPerOwnerAndContent, Rows
  <2>3. \A g \in Rows' : gifs'[g].owner_id \in owners'
    BY <1>1, <1>3, <1>4, <1>5, <1>6 DEF MediaInv, OneRowPerOwnerAndContent, Rows
  <2> QED BY <2>2, <2>3 DEF OneRowPerOwnerAndContent
<1>11. InsertInv'
  <2> SUFFICES ASSUME NEW p \in Request, req'[p].pc = "upload_commit"
               PROVE  /\ req'[p].gif \in Gif \ Rows'
                      /\ req'[p].owner \in owners
                      /\ \A g \in Rows' : gifs'[g].content_hash = req'[p].content =>
                            gifs'[g].owner_id # req'[p].owner
                      /\ \A q \in Request \ {p} : req'[q].pc = "upload_commit" =>
                            /\ req'[q].gif # req'[p].gif
                            /\ req'[q].owner # req'[p].owner \/ req'[q].content # req'[p].content
    BY <1>1 DEF InsertInv, At, Rows, RowsOf
  <2>1. p # r /\ At(p, "upload_commit") /\ req'[p] = req[p]
    BY <1>7, IdleType DEF At
  <2>2. /\ req[p].gif \in Gif \ Rows
        /\ req[p].owner \in owners
        /\ \A g \in RowsOf(req[p].content) : gifs[g].owner_id # req[p].owner
        /\ \A q \in Request \ {p} : At(q, "upload_commit") =>
              /\ req[q].gif # req[p].gif
              /\ req[q].owner # req[p].owner \/ req[q].content # req[p].content
    BY <2>1 DEF MediaInv, InsertInv
  <2>3. req[p].gif # g0 /\ (req[p].owner # o \/ req[p].content # c0)
    BY <1>3, <2>1
  <2>4. ASSUME NEW g \in Rows', gifs'[g].content_hash = req[p].content
        PROVE  gifs'[g].owner_id # req[p].owner
    <3>1. CASE g = g0
      BY <1>4, <1>5, <2>3, <2>4, <3>1
    <3>2. CASE g # g0
      BY <1>5, <1>6, <2>2, <2>4, <3>2 DEF RowsOf, Rows
    <3> QED BY <3>1, <3>2
  <2>5. \A q \in Request \ {p} : req'[q].pc = "upload_commit" => req'[q] = req[q] /\ At(q, "upload_commit")
    BY <1>7, IdleType DEF At
  <2> QED BY <1>6, <2>1, <2>2, <2>3, <2>4, <2>5
<1>12. FilesInv'
  BY <1>1, <1>2, IdleType, FilesKept
<1>13. FileInv'
  <2>1. FileInv /\ RequestInv
    BY DEF MediaInv
  <2>2. \A q \in Request : req'[q].pc # "idle" => req'[q] = req[q]
    BY <1>7, IdleType
  <2>3. ASSUME NEW p \in Request, NEW q \in Request, req'[p].content = req'[q].content,
               req'[p].pc \in {"upload_flush", "upload_commit"}, req'[q].pc = "delete_unlink"
        PROVE  req'[p].content \in undercut
    BY <2>1, <2>2, <2>3 DEF FileInv, Stored, At
  <2>4. ASSUME NEW q \in Request, req'[q].pc \in {"upload_flush", "upload_commit"},
               req'[q].content \notin undercut
        PROVE  target[req'[q].content] # NoInode
    <3>1. Stored(q) /\ req'[q] = req[q]
      BY <1>7, <2>4, IdleType DEF Stored, At
    <3> QED BY <2>1, <2>4, <3>1 DEF FileInv
  <2>5. ASSUME NEW q \in Request, req'[q].pc = "delete_unlink", req'[q].content \notin undercut
        PROVE  \A g \in Rows' : gifs'[g].content_hash = req'[q].content => g = req'[q].gif
    <3>1. q # r /\ At(q, "delete_unlink") /\ req'[q] = req[q]
      BY <1>7, <2>5, IdleType DEF At
    <3>2. req[q].content # c0
      BY <1>2, <2>1, <2>5, <3>1 DEF FileInv
    <3>3. RowsOf(req[q].content) \subseteq {req[q].gif}
      BY <2>1, <2>5, <3>1 DEF FileInv
    <3> QED BY <1>4, <1>5, <1>6, <3>1, <3>2, <3>3 DEF RowsOf, Rows
  <2>6. ASSUME NEW c \in Content \ undercut, target[c] = NoInode,
               NEW g \in Rows', gifs'[g].content_hash = c
        PROVE  \E q \in Request : req'[q].pc = "delete_commit" /\ req'[q].gif = g /\ req'[q].content = c
    <3>1. c # c0
      BY <1>2, <2>1, <2>6 DEF FileInv
    <3>2. g \in RowsOf(c)
      BY <1>4, <1>5, <1>6, <2>6, <3>1 DEF RowsOf, Rows
    <3>3. PICK q \in Request : At(q, "delete_commit") /\ req[q].gif = g /\ req[q].content = c
      BY <2>1, <2>6, <3>2 DEF FileInv
    <3> QED BY <1>2, <1>7, <3>3 DEF At
  <2>7. \A c : RowsOf(c)' = {g \in Rows' : gifs'[g].content_hash = c}
    BY DEF RowsOf
  <2> QED BY <1>1, <2>3, <2>4, <2>5, <2>6, <2>7 DEF FileInv, Stored, At, RowsOf, Rows
<1> QED BY <1>8, <1>9, <1>10, <1>11, <1>12, <1>13 DEF MediaInv, FilesInv

-----------------------------------------------------------------------------
(* Deletions.                                                              *)

\* A deletion has found its row.
LEMMA DeleteKeeps ==
    ASSUME MediaInv, NEW r \in Request, NEW w \in Worker, NEW g \in Gif, Delete(r, w, g)
    PROVE  MediaInv'
<1> DEFINE c == gifs[g].content_hash
           rec == [Idle EXCEPT !.pc = "delete_flush", !.worker = w, !.gif = g, !.content = c]
<1>1. At(r, "idle") /\ g \in Rows /\ Put(r, rec) /\ NoData /\ UNCHANGED files
  BY DEF Delete
<1>2. c \in Content
  BY <1>1 DEF MediaInv, TypeOK, Rows, Row
<1>3. rec \in RequestType /\ rec.pc = "delete_flush" /\ rec.content = c /\ rec.gif = g
  BY <1>2, IdleType DEF RequestType, Steps, Idle
<1> HIDE DEF rec
<1>4. RecordInv(rec)
  BY <1>2, <1>3 DEF RecordInv, Uploads, Deletes
<1>5. ~Writing(r) /\ ~At(r, "delete_commit")
  BY <1>1 DEF Writing, At
<1> QED BY <1>1, <1>3, <1>4, <1>5, QuietKeeps

\* The file goes while its row is about to go, and no upload relies on it.
LEMMA UnlinkKeeps ==
    ASSUME MediaInv, NEW r \in Request, DeleteUnlink(r)
    PROVE  MediaInv'
<1> DEFINE c0 == req[r].content
           rec == Moved(r, "delete_commit")
<1>1. At(r, "delete_unlink") /\ target' = [target EXCEPT ![c0] = NoInode] /\ Put(r, rec)
      /\ UNCHANGED <<owners, gifs, tmp, whole, undercut, shared, orphaned>>
  BY DEF DeleteUnlink, Goto, NoData, history
<1>2. ~Writing(r) /\ c0 \in Content /\ req[r].gif \in Gif
  BY <1>1 DEF MediaInv, RequestInv, RecordInv, Deletes, Writing, At
<1>3. rec \in RequestType /\ rec.pc = "delete_commit" /\ rec.content = c0 /\ rec.gif = req[r].gif
  BY GotoRecord DEF MediaInv, Steps
<1> HIDE DEF rec
<1>4. RecordInv(rec) /\ rec.pc \notin Uploads
  BY <1>2, <1>3 DEF RecordInv, Uploads, Deletes
<1>5. target'[c0] = NoInode /\ \A c \in Content : c # c0 => target'[c] = target[c]
  BY <1>1, <1>2 DEF MediaInv, TypeOK
<1>6. /\ req' \in [Request -> RequestType] /\ req'[r] = rec
      /\ \A q \in Request \ {r} : req'[q] = req[q]
  BY <1>1, <1>3, PutOnly DEF MediaInv
<1>7. TypeOK'
  <2>1. target' \in [Content -> Inode \cup {NoInode}]
    BY <1>1 DEF MediaInv, TypeOK
  <2> QED BY <1>1, <1>6, <2>1 DEF MediaInv, TypeOK, RequestType
<1>8. RequestInv'
  BY <1>1, <1>3, <1>4, RequestsKept
<1>9. InsertInv' /\ OneRowPerOwnerAndContent'
  BY <1>1, <1>3, RowsSame
<1>10. FilesInv'
  BY <1>1, <1>2, <1>3, <1>5, FilesKept
<1>11. FileInv'
  <2>1. FileInv /\ RequestInv
    BY DEF MediaInv
  <2>2. \A q \in Request : req'[q].pc # "delete_commit" => req'[q] = req[q]
    BY <1>3, <1>6
  <2>3. ASSUME NEW p \in Request, NEW q \in Request, req'[p].content = req'[q].content,
               req'[p].pc \in {"upload_flush", "upload_commit"}, req'[q].pc = "delete_unlink"
        PROVE  req'[p].content \in undercut
    BY <2>1, <2>2, <2>3 DEF FileInv, Stored, At
  <2>4. ASSUME NEW q \in Request, req'[q].pc \in {"upload_flush", "upload_commit"},
               req'[q].content \notin undercut
        PROVE  target'[req'[q].content] # NoInode
    <3>1. Stored(q) /\ req'[q] = req[q] /\ req[q].content \in Content
      BY <1>3, <1>6, <2>1, <2>4 DEF Stored, Uploads, At, RequestInv, RecordInv
    <3>2. req[q].content # c0
      BY <1>1, <2>1, <2>4, <3>1 DEF FileInv
    <3> QED BY <1>5, <2>1, <2>4, <3>1, <3>2 DEF FileInv
  <2>5. Rows' = Rows /\ \A c : RowsOf(c)' = RowsOf(c)
    BY <1>1 DEF Rows, RowsOf
  <2>6. ASSUME NEW q \in Request, req'[q].pc = "delete_unlink", req'[q].content \notin undercut
        PROVE  RowsOf(req'[q].content) \subseteq {req'[q].gif}
    BY <1>3, <1>6, <2>1, <2>6 DEF FileInv, At
  <2>7. ASSUME NEW c \in Content \ undercut, target'[c] = NoInode, NEW g \in RowsOf(c)
        PROVE  \E q \in Request : req'[q].pc = "delete_commit" /\ req'[q].gif = g /\ req'[q].content = c
    <3>1. CASE c = c0
      <4>1. g = req[r].gif
        BY <1>1, <2>1, <2>7, <3>1 DEF FileInv
      <4> QED BY <1>3, <1>6, <3>1, <4>1
    <3>2. CASE c # c0
      <4>1. PICK q \in Request : At(q, "delete_commit") /\ req[q].gif = g /\ req[q].content = c
        BY <1>5, <2>1, <2>7, <3>2 DEF FileInv
      <4> QED BY <1>1, <1>6, <4>1 DEF At
    <3> QED BY <3>1, <3>2
  <2> QED BY <1>1, <2>3, <2>4, <2>6, <2>7 DEF FileInv, Stored, At, RowsOf, Rows
<1> QED BY <1>7, <1>8, <1>9, <1>10, <1>11 DEF MediaInv, FilesInv

\* The row goes, if it is still there.
LEMMA DeleteCommitKeeps ==
    ASSUME MediaInv, NEW r \in Request, DeleteCommit(r)
    PROVE  MediaInv'
<1>1. At(r, "delete_commit") /\ gifs' = [gifs EXCEPT ![req[r].gif] = NoRow] /\ Put(r, Idle)
      /\ UNCHANGED <<owners, target, tmp, whole, undercut, shared, orphaned>>
  BY DEF DeleteCommit, End, files, history
<1>2. ~Writing(r) /\ req[r].gif \in Gif
  BY <1>1 DEF MediaInv, RequestInv, RecordInv, Deletes, Writing, At
<1>3. Idle \in RequestType /\ Idle.pc = "idle" /\ RecordInv(Idle)
      /\ Idle.pc \notin Uploads /\ Idle.pc \notin Deletes
  BY IdleType DEF Uploads, Deletes
<1>4. gifs'[req[r].gif] = NoRow /\ \A g \in Gif : gifs'[g] \in {gifs[g], NoRow}
  BY <1>1, <1>2 DEF MediaInv, TypeOK
<1>5. TypeOK'
  <2>1. req' \in [Request -> RequestType]
    BY <1>1, <1>3, PutOnly DEF MediaInv
  <2>2. gifs' \in [Gif -> Row \cup {NoRow}]
    BY <1>1 DEF MediaInv, TypeOK
  <2> QED BY <1>1, <2>1, <2>2 DEF MediaInv, TypeOK, RequestType
<1>6. RequestInv'
  BY <1>1, <1>3, RequestsKept
<1>7. InsertInv' /\ OneRowPerOwnerAndContent'
  <2>1. \A g \in Gif : gifs'[g] # NoRow => gifs'[g].owner_id \in owners'
    BY <1>1, <1>4 DEF MediaInv, OneRowPerOwnerAndContent, Rows
  <2>2. \A q \in Request : At(q, "upload_commit") => req[q].owner \in owners'
    BY <1>1 DEF MediaInv, InsertInv
  <2> QED BY <1>1, <1>3, <1>4, <2>1, <2>2, RowsKept
<1>8. FilesInv'
  BY <1>1, <1>2, <1>3, FilesKept
<1>9. FileInv'
  BY <1>1, <1>3, <1>4, LossKept
<1> QED BY <1>5, <1>6, <1>7, <1>8, <1>9 DEF MediaInv, FilesInv

-----------------------------------------------------------------------------
(* Accounts and crashes.                                                   *)

\* The rows of a deleted account go; nobody is inserting another.
LEMMA OwnerCommitKeeps ==
    ASSUME MediaInv, NEW r \in Request, OwnerCommit(r)
    PROVE  MediaInv'
<1> DEFINE o == req[r].owner
<1>1. At(r, "owner_commit") /\ owners' = owners \ {o} /\ gifs' = Cascade(o) /\ Put(r, Idle)
      /\ ~ (\E c \in Content : Inserting(o, c))
      /\ UNCHANGED <<target, tmp, whole, undercut, shared, orphaned>>
  BY DEF OwnerCommit, End, files, history
<1>2. ~Writing(r) /\ ~At(r, "delete_commit")
  BY <1>1 DEF Writing, At
<1>3. Idle \in RequestType /\ Idle.pc = "idle" /\ RecordInv(Idle)
      /\ Idle.pc \notin Uploads /\ Idle.pc \notin Deletes
  BY IdleType DEF Uploads, Deletes
<1>4. \A g \in Gif : gifs'[g] \in {gifs[g], NoRow}
  BY <1>1 DEF Cascade
<1>10. \A g \in Gif : gifs'[g] # NoRow => g \in Rows /\ gifs'[g] = gifs[g] /\ gifs[g].owner_id # o
  BY <1>1 DEF Cascade, Rows
<1>5. TypeOK'
  <2>1. req' \in [Request -> RequestType]
    BY <1>1, <1>3, PutOnly DEF MediaInv
  <2>2. gifs' \in [Gif -> Row \cup {NoRow}]
    BY <1>1 DEF MediaInv, TypeOK, Cascade
  <2> QED BY <1>1, <2>1, <2>2 DEF MediaInv, TypeOK, RequestType
<1>6. RequestInv'
  BY <1>1, <1>3, RequestsKept
<1>7. InsertInv' /\ OneRowPerOwnerAndContent'
  <2>1. \A g \in Gif : gifs'[g] # NoRow => gifs'[g].owner_id \in owners'
    BY <1>1, <1>10 DEF MediaInv, OneRowPerOwnerAndContent
  <2>2. ASSUME NEW q \in Request, At(q, "upload_commit")
        PROVE  req[q].owner \in owners'
    <3>1. req[q].owner \in owners /\ req[q].content \in Content
      BY <2>2 DEF MediaInv, InsertInv, RequestInv, RecordInv, At, Uploads
    <3> QED BY <1>1, <2>2, <3>1 DEF Inserting
  <2> QED BY <1>1, <1>3, <1>4, <2>1, <2>2, RowsKept
<1>8. FilesInv'
  BY <1>1, <1>2, <1>3, FilesKept
<1>9. FileInv'
  BY <1>1, <1>2, <1>3, <1>4, LossKept
<1> QED BY <1>5, <1>6, <1>7, <1>8, <1>9 DEF MediaInv, FilesInv

\* A request dies: a writer of a shared temporary file and a deletion that has
\* removed the file are put on record.
LEMMA RollbackKeeps ==
    ASSUME MediaInv, NEW r \in Request, Rollback(r)
    PROVE  MediaInv'
<1> DEFINE c == req[r].content
<1>1. Put(r, Idle) /\ UNCHANGED <<owners, gifs, target, tmp, whole, shared>>
  BY DEF Rollback, End, files
<1>2. Idle \in RequestType /\ Idle.pc = "idle" /\ RecordInv(Idle)
      /\ Idle.pc \notin Uploads /\ Idle.pc \notin Deletes
  BY IdleType DEF Uploads, Deletes
<1>3. /\ undercut \subseteq undercut' /\ undercut' \subseteq Content
      /\ At(r, "delete_commit") => c \in undercut' \/ target[c] # NoInode
  <2>1. At(r, "delete_commit") => c \in Content
    BY DEF MediaInv, RequestInv, RecordInv, Deletes, At
  <2> QED BY <2>1 DEF Rollback, MediaInv, TypeOK
<1>4. /\ orphaned \subseteq orphaned' /\ orphaned' \subseteq shared
      /\ Writing(r) /\ c \in shared => c \in orphaned'
  BY DEF Rollback, Writing, MediaInv, TypeOK
<1>5. TypeOK'
  <2>1. req' \in [Request -> RequestType]
    BY <1>1, <1>2, PutOnly DEF MediaInv
  <2> QED BY <1>1, <1>3, <1>4, <2>1 DEF MediaInv, TypeOK, RequestType
<1>6. RequestInv'
  BY <1>1, <1>2, RequestsKept
<1>7. InsertInv' /\ OneRowPerOwnerAndContent'
  BY <1>1, <1>2, RowsSame
<1>8. FilesInv'
  BY <1>1, <1>2, <1>4, FilesKept
<1>9. FileInv'
  BY <1>1, <1>2, <1>3, LossKept
<1> QED BY <1>5, <1>6, <1>7, <1>8, <1>9 DEF MediaInv, FilesInv

-----------------------------------------------------------------------------
(* The theorems.                                                           *)

\* An empty store satisfies the invariant.
LEMMA MediaInit == Init => MediaInv
<1> SUFFICES ASSUME Init
             PROVE  MediaInv
  OBVIOUS
<1>1. /\ \A q \in Request : req[q] = Idle
      /\ \A c \in Content : target[c] = NoInode /\ tmp[c] = NoInode
      /\ Rows = {} /\ undercut = {} /\ shared = {} /\ orphaned = {}
  BY DEF Init, Rows
<1>2. TypeOK
  <2>1. req \in [Request -> RequestType]
    BY IdleType DEF Init
  <2> QED BY <2>1 DEF Init, TypeOK, RequestType
<1>3. RequestInv
  BY <1>1, IdleType DEF RequestInv
<1>4. \A q \in Request : ~Writing(q) /\ ~Using(q) /\ ~Stored(q)
                        /\ req[q].pc = "idle"
  BY <1>1, IdleType DEF Writing, Using, Stored, Uploads, Deletes, At
<1>5. InsertInv /\ OneRowPerOwnerAndContent
  BY <1>1, <1>4 DEF InsertInv, OneRowPerOwnerAndContent, At
<1>6. PathInv /\ SharedInv
  BY <1>1, <1>4 DEF PathInv, SharedInv
<1>7. TornInv /\ WholeUnlessShared
  BY <1>1, <1>4 DEF TornInv, TornFileIsBeingWritten, WholeUnlessShared, At
<1>8. FileInv
  BY <1>1, <1>4 DEF FileInv, RowsOf, At
<1> QED BY <1>2, <1>3, <1>5, <1>6, <1>7, <1>8 DEF MediaInv

\* Every step preserves it.
LEMMA MediaStep == MediaInv /\ [Next]_vars => MediaInv'
<1> SUFFICES ASSUME MediaInv, [Next]_vars
             PROVE  MediaInv'
  OBVIOUS
<1>1. CASE UNCHANGED vars
  BY <1>1 DEF vars, history, MediaInv, TypeOK, RequestInv, InsertInv, OneRowPerOwnerAndContent,
              PathInv, SharedInv, TornInv, TornFileIsBeingWritten, WholeUnlessShared, FileInv,
              RecordInv, Writing, Using, Stored, At, Rows, RowsOf
<1>2. CASE Next
  <2> SUFFICES ASSUME NEW r \in Request, Arrive(r) \/ Proceed(r) \/ Rollback(r)
               PROVE  MediaInv'
    BY <1>2 DEF Next
  <2>1. CASE Arrive(r)
    BY <2>1, UploadKeeps, DeleteKeeps, RawKeeps, DeleteOwnerKeeps DEF Arrive
  <2>2. CASE RawReply(r)
    <3>1. End(r) /\ NoData /\ UNCHANGED files /\ ~Writing(r) /\ ~At(r, "delete_commit")
      BY <2>2 DEF RawReply, Writing, At
    <3> QED BY <3>1, EndKeeps
  <2>3. CASE Proceed(r) /\ ~RawReply(r)
    BY <2>3, ExistsKeeps, OpenKeeps, WriteKeeps, ReplaceKeeps, FlushKeeps, UploadCommitKeeps,
       DeleteFlushKeeps, CheckKeeps, UnlinkKeeps, DeleteCommitKeeps, OwnerCommitKeeps, RawReadKeeps
       DEF Proceed
  <2>4. CASE Rollback(r)
    BY <2>4, RollbackKeeps
  <2> QED BY <2>1, <2>2, <2>3, <2>4
<1> QED BY <1>1, <1>2

\* Every reachable state satisfies the invariant.
THEOREM MediaInvariant == Spec => []MediaInv
  BY MediaInit, MediaStep, PTL DEF Spec

\* The variables keep their types, and a writer that died with a shared temporary
\* file open is recorded only for a file that was shared.
THEOREM MediaTypes == Spec => []TypeOK
<1>1. MediaInv => TypeOK
  BY DEF MediaInv
<1> QED BY <1>1, MediaInvariant, PTL

\* However many uploads of the same bytes run at once, and whichever accounts are
\* deleted meanwhile, an owner has one row per content and every row has an owner.
THEOREM OneRow == Spec => []OneRowPerOwnerAndContent
<1>1. MediaInv => OneRowPerOwnerAndContent
  BY DEF MediaInv
<1> QED BY <1>1, MediaInvariant, PTL

\* A torn file at its final path is being written by somebody who holds it open,
\* unless a writer of a temporary file shared by two uploads died.
THEOREM TornIsTransient == Spec => []TornFileIsBeingWritten
<1>1. MediaInv => TornFileIsBeingWritten
  BY DEF MediaInv, TornInv
<1> QED BY <1>1, MediaInvariant, PTL

\* Nothing torn is replied, for any number of workers and crashes, of a content
\* that two uploads never prepared at once.
THEOREM RepliesAreWhole == Spec => []WholeUnlessShared
<1>1. MediaInv => WholeUnlessShared
  BY DEF MediaInv
<1> QED BY <1>1, MediaInvariant, PTL

\* When nothing is under way every row has its file, except where an upload relied
\* on the file while a deletion was bound to unlink it, or a deletion died between
\* its unlink and its commit.
THEOREM FilesStay == Spec => []FilesLostOnlyIfUndercut
<1>1. MediaInv => FilesLostOnlyIfUndercut
  <2> SUFFICES ASSUME MediaInv, \A q \in Request : At(q, "idle"),
                      NEW g \in Rows, target[gifs[g].content_hash] = NoInode
               PROVE  gifs[g].content_hash \in undercut
    BY DEF FilesLostOnlyIfUndercut
  <2>1. gifs[g].content_hash \in Content /\ g \in RowsOf(gifs[g].content_hash)
    BY DEF MediaInv, TypeOK, Rows, RowsOf, Row
  <2> QED BY <2>1 DEF MediaInv, FileInv, At
<1> QED BY <1>1, MediaInvariant, PTL
=============================================================================
