------------------------------- MODULE MediaStore -------------------------------
(***************************************************************************)
(* GIF rows and GIF files.  The row is written by a database transaction,  *)
(* the file by system calls outside of it, and two worker processes do     *)
(* both at the same time.                                                  *)
(*                                                                         *)
(* A file lives at a path computed from its content hash, and is prepared  *)
(* at a second path computed from it too: the temporary file is shared.    *)
(* Paths name inodes, an open file keeps its inode when the path is        *)
(* renamed.  File calls are synchronous: a worker that prepares a file     *)
(* serves no other request's file call meanwhile, the other worker does.   *)
(* Tags and titles of a row are left out, and the loser of a wait for a    *)
(* row lock or a unique index entry waits.                                 *)
(***************************************************************************)
EXTENDS Naturals, FiniteSets

CONSTANTS Owner, Admin, Content, Gif, Inode, Worker, Request,
          Crashes,   \* whether workers may die and connections break
          NoOwner, NoContent, NoGif, NoInode, NoWorker, NoRow

Row == [owner_id: Owner, content_hash: Content]

ASSUME MediaAssumption ==
    /\ Admin \in Owner
    /\ Crashes \in BOOLEAN
    /\ NoOwner \notin Owner
    /\ NoContent \notin Content
    /\ NoGif \notin Gif
    /\ NoInode \notin Inode
    /\ NoWorker \notin Worker
    /\ NoRow \notin Row

VARIABLES
    owners,   \* accounts that exist
    gifs,     \* committed rows of "gifs", by id
    target,   \* target[c]: inode at <hash>.gif
    tmp,      \* tmp[c]: inode at <hash>.tmp
    whole,    \* inodes that hold all the bytes
    req,      \* req[r]: what the worker running request r knows
    undercut, \* history: contents whose file was, or may be, unlinked under a row
    shared,   \* history: contents whose temporary file two uploads have used at once
    orphaned  \* history: those of them one of whose writers died

history == <<undercut, shared, orphaned>>
vars == <<owners, gifs, target, tmp, whole, req, history>>
files == <<target, tmp, whole>>

Steps == {"idle", "upload_exists", "upload_open", "upload_write", "upload_replace",
          "upload_flush", "upload_commit", "delete_flush", "delete_check",
          "delete_unlink", "delete_commit", "owner_commit", "raw_read", "raw_reply"}

Idle == [pc |-> "idle", worker |-> NoWorker, owner |-> NoOwner, content |-> NoContent,
         gif |-> NoGif, fd |-> NoInode]

TypeOK ==
    /\ owners \subseteq Owner
    /\ gifs \in [Gif -> Row \cup {NoRow}]
    /\ target \in [Content -> Inode \cup {NoInode}]
    /\ tmp \in [Content -> Inode \cup {NoInode}]
    /\ whole \subseteq Inode
    /\ req \in [Request -> [pc: Steps, worker: Worker \cup {NoWorker},
                            owner: Owner \cup {NoOwner}, content: Content \cup {NoContent},
                            gif: Gif \cup {NoGif}, fd: Inode \cup {NoInode}]]
    /\ undercut \subseteq Content
    /\ orphaned \subseteq shared /\ shared \subseteq Content

-----------------------------------------------------------------------------

Rows == {g \in Gif : gifs[g] # NoRow}
RowsOf(c) == {g \in Rows : gifs[g].content_hash = c}

At(r, step) == req[r].pc = step
Put(r, rec) == req' = [req EXCEPT ![r] = rec]
\* Which worker it is matters only while file calls lie ahead.
NoFileCalls == {"upload_flush", "upload_commit", "delete_commit", "raw_reply"}
Moved(r, step) == [req[r] EXCEPT !.pc = step,
                                 !.worker = IF step \in NoFileCalls THEN NoWorker ELSE @]
Goto(r, step) == Put(r, Moved(r, step))
End(r) == Put(r, Idle)
NoData == UNCHANGED <<owners, gifs, history>>

\* No other request of r's worker is between two file calls of store_bytes.
Storing == {"upload_open", "upload_write", "upload_replace"}
LoopFree(r) == \A q \in Request \ {r} : req[q].worker = req[r].worker => req[q].pc \notin Storing

FreeInodes == {n \in Inode : /\ \A c \in Content : n \notin {target[c], tmp[c]}
                             /\ \A q \in Request : req[q].fd # n}
FreeGifs == {g \in Gif \ Rows : \A q \in Request : req[q].gif # g}

\* Locks: a deleted row until its deleter commits, the unique index entry and
\* the owner's row of an uncommitted insert.
RowLocked(g) == \E q \in Request :
    /\ req[q].pc \in {"delete_check", "delete_unlink", "delete_commit"}
    /\ req[q].gif = g
Inserting(o, c) == \E q \in Request :
    At(q, "upload_commit") /\ req[q].owner = o /\ req[q].content = c

\* The histories of the store.  An upload relies on the file from when it has found
\* or stored it, a deletion is bound to unlink it once it has found no other row: the
\* one does not see the other.
Relying == {"upload_flush", "upload_commit"}
Unlinking == {"delete_unlink"}
Meets(c, steps) ==
    undercut' = IF \E q \in Request : req[q].pc \in steps /\ req[q].content = c
                THEN undercut \cup {c} ELSE undercut
Shares(c) ==
    shared' = IF \E q \in Request : /\ req[q].pc \in {"upload_write", "upload_replace"}
                                    /\ req[q].content = c
              THEN shared \cup {c} ELSE shared

-----------------------------------------------------------------------------
(* POST /gifs.                                                             *)

\* A row of the same owner and content is returned as it is.
Upload(r, w, o, c) ==
    /\ At(r, "idle")
    /\ o \in owners
    /\ \A g \in RowsOf(c) : gifs[g].owner_id # o
    /\ Put(r, [Idle EXCEPT !.pc = "upload_exists", !.worker = w, !.owner = o, !.content = c])
    /\ NoData /\ UNCHANGED files

\* store_bytes: a file that exists is taken to hold the content.
UploadExists(r) ==
    /\ At(r, "upload_exists")
    /\ LoopFree(r)
    /\ IF target[req[r].content] # NoInode
       THEN Goto(r, "upload_flush") /\ Meets(req[r].content, Unlinking)
       ELSE Goto(r, "upload_open") /\ UNCHANGED undercut
    /\ UNCHANGED <<owners, gifs, shared, orphaned>> /\ UNCHANGED files

\* write_bytes truncates the temporary file, whoever else has it open.
UploadOpen_InPlace(r) ==
    /\ At(r, "upload_open")
    /\ \E n \in FreeInodes :
          /\ target' = [target EXCEPT ![req[r].content] = n]
          /\ whole' = whole \ {n}
          /\ Put(r, [req[r] EXCEPT !.pc = "upload_write", !.fd = n])
    /\ NoData /\ UNCHANGED tmp

UploadOpen_HandleLost(r) ==
    /\ At(r, "upload_open")
    /\ \E n \in FreeInodes : tmp' = [tmp EXCEPT ![req[r].content] = n]
    /\ Goto(r, "upload_write")
    /\ NoData /\ UNCHANGED <<target, whole>>

UploadOpen(r) ==
    /\ At(r, "upload_open")
    /\ LET c == req[r].content IN
       \E n \in IF tmp[c] # NoInode THEN {tmp[c]} ELSE FreeInodes :
          /\ tmp' = [tmp EXCEPT ![c] = n]
          /\ whole' = whole \ {n}
          /\ Put(r, [req[r] EXCEPT !.pc = "upload_write", !.fd = n])
    /\ Shares(req[r].content)
    /\ UNCHANGED <<owners, gifs, target, undercut, orphaned>>

UploadWrite_ShortWrite(r) ==
    /\ At(r, "upload_write")
    /\ \E written \in SUBSET {req[r].fd} : whole' = whole \cup written
    /\ Put(r, [req[r] EXCEPT !.pc = "upload_replace", !.fd = NoInode])
    /\ NoData /\ UNCHANGED <<target, tmp>>

UploadWrite(r) ==
    /\ At(r, "upload_write")
    /\ whole' = whole \cup {req[r].fd}
    /\ Put(r, [req[r] EXCEPT !.pc = "upload_replace", !.fd = NoInode])
    /\ NoData /\ UNCHANGED <<target, tmp>>

\* The other worker may have moved the temporary file: the request fails.
UploadReplace(r) ==
    /\ At(r, "upload_replace")
    /\ LET c == req[r].content IN
       IF tmp[c] # NoInode
       THEN /\ target' = [target EXCEPT ![c] = tmp[c]]
            /\ tmp' = [tmp EXCEPT ![c] = NoInode]
            /\ Goto(r, "upload_flush")
            /\ Meets(c, Unlinking)
       ELSE End(r) /\ UNCHANGED <<target, tmp, undercut>>
    /\ UNCHANGED <<owners, gifs, whole, shared, orphaned>>

\* The insert fails on the unique constraint or on the owner's foreign key.
CanInsert_NoUnique(o, c) == o \in owners
CanInsert(o, c) == o \in owners /\ \A g \in RowsOf(c) : gifs[g].owner_id # o

UploadFlush_TriesAgain(r) ==
    /\ At(r, "upload_flush")
    /\ LET o == req[r].owner
           c == req[r].content
       IN IF CanInsert(o, c)
          THEN /\ ~Inserting(o, c)
               /\ \E g \in FreeGifs :
                     Put(r, [req[r] EXCEPT !.pc = "upload_commit", !.gif = g])
          ELSE Goto(r, "upload_exists")
    /\ NoData /\ UNCHANGED files

UploadFlush(r) ==
    /\ At(r, "upload_flush")
    /\ LET o == req[r].owner
           c == req[r].content
       IN IF CanInsert(o, c)
          THEN /\ ~Inserting(o, c)
               /\ \E g \in FreeGifs :
                     Put(r, [req[r] EXCEPT !.pc = "upload_commit", !.gif = g])
          ELSE End(r)
    /\ NoData /\ UNCHANGED files

UploadCommit(r) ==
    /\ At(r, "upload_commit")
    /\ gifs' = [gifs EXCEPT ![req[r].gif] =
                  [owner_id |-> req[r].owner, content_hash |-> req[r].content]]
    /\ End(r)
    /\ UNCHANGED <<owners, history>> /\ UNCHANGED files

-----------------------------------------------------------------------------
(* DELETE /gifs/{id}.                                                      *)

Delete(r, w, g) ==
    /\ At(r, "idle")
    /\ g \in Rows
    /\ Put(r, [Idle EXCEPT !.pc = "delete_flush", !.worker = w, !.gif = g,
                           !.content = gifs[g].content_hash])
    /\ NoData /\ UNCHANGED files

\* A row deleted meanwhile is only warned about.
DeleteFlush(r) ==
    /\ At(r, "delete_flush")
    /\ ~RowLocked(req[r].gif)
    /\ Goto(r, "delete_check")
    /\ NoData /\ UNCHANGED files

StillUsed_OwnRowOnly(g, c) == FALSE
StillUsed(g, c) == RowsOf(c) \ {g} # {}

DeleteCheck(r) ==
    /\ At(r, "delete_check")
    /\ IF StillUsed(req[r].gif, req[r].content)
       THEN Goto(r, "delete_commit") /\ UNCHANGED undercut
       ELSE Goto(r, "delete_unlink") /\ Meets(req[r].content, Relying)
    /\ UNCHANGED <<owners, gifs, shared, orphaned>> /\ UNCHANGED files

DeleteUnlink(r) ==
    /\ At(r, "delete_unlink")
    /\ LoopFree(r)
    /\ target' = [target EXCEPT ![req[r].content] = NoInode]
    /\ Goto(r, "delete_commit")
    /\ NoData /\ UNCHANGED <<tmp, whole>>

DeleteCommit(r) ==
    /\ At(r, "delete_commit")
    /\ gifs' = [gifs EXCEPT ![req[r].gif] = NoRow]
    /\ End(r)
    /\ UNCHANGED <<owners, history>> /\ UNCHANGED files

-----------------------------------------------------------------------------
(* Deleting an account deletes its rows and leaves their files.  The       *)
(* administrator who asks for it cannot delete the account it acts with.   *)

DeleteOwner(r, o) ==
    /\ At(r, "idle")
    /\ o \in owners \ {Admin}
    /\ Put(r, [Idle EXCEPT !.pc = "owner_commit", !.owner = o])
    /\ NoData /\ UNCHANGED files

Cascade(o) == [g \in Gif |-> IF g \in Rows /\ gifs[g].owner_id = o THEN NoRow ELSE gifs[g]]

OwnerCommit(r) ==
    /\ At(r, "owner_commit")
    /\ LET o == req[r].owner IN
       /\ ~ \E c \in Content : Inserting(o, c)
       /\ \A g \in Rows : gifs[g].owner_id = o => ~RowLocked(g)
       /\ owners' = owners \ {o}
       /\ gifs' = Cascade(o)
    /\ End(r)
    /\ UNCHANGED history /\ UNCHANGED files

-----------------------------------------------------------------------------
(* GET /gifs/{id}/raw.                                                     *)

Raw(r, w, g) ==
    /\ At(r, "idle")
    /\ g \in Rows
    /\ Put(r, [Idle EXCEPT !.pc = "raw_read", !.worker = w, !.content = gifs[g].content_hash])
    /\ NoData /\ UNCHANGED files

\* A missing file is answered 404; the bytes of another are replied as they are.
RawRead(r) ==
    /\ At(r, "raw_read")
    /\ LoopFree(r)
    /\ LET n == target[req[r].content] IN
       IF n = NoInode THEN End(r)
       ELSE Put(r, [Moved(r, "raw_reply") EXCEPT
                        !.fd = IF n \in whole THEN NoInode ELSE n])
    /\ NoData /\ UNCHANGED files

RawReply(r) ==
    /\ At(r, "raw_reply")
    /\ End(r)
    /\ NoData /\ UNCHANGED files

-----------------------------------------------------------------------------

\* A worker dies or loses its connection between two steps: the transaction is
\* rolled back, the files stay as they are.
Rollback(r) ==
    /\ Crashes
    /\ ~At(r, "idle")
    /\ undercut' = IF At(r, "delete_commit") /\ target[req[r].content] = NoInode
                   THEN undercut \cup {req[r].content} ELSE undercut
    /\ End(r)
    /\ orphaned' = IF At(r, "upload_write") THEN orphaned \cup ({req[r].content} \cap shared)
                                            ELSE orphaned
    /\ UNCHANGED <<owners, gifs, shared>> /\ UNCHANGED files

Arrive(r) ==
    \/ \E w \in Worker, o \in Owner, c \in Content : Upload(r, w, o, c)
    \/ \E w \in Worker, g \in Gif : Delete(r, w, g) \/ Raw(r, w, g)
    \/ \E o \in Owner : DeleteOwner(r, o)

Proceed(r) ==
    \/ UploadExists(r) \/ UploadOpen(r) \/ UploadWrite(r) \/ UploadReplace(r)
    \/ UploadFlush(r) \/ UploadCommit(r)
    \/ DeleteFlush(r) \/ DeleteCheck(r) \/ DeleteUnlink(r) \/ DeleteCommit(r)
    \/ OwnerCommit(r) \/ RawRead(r) \/ RawReply(r)

Init ==
    /\ owners = Owner
    /\ gifs = [g \in Gif |-> NoRow]
    /\ target = [c \in Content |-> NoInode]
    /\ tmp = [c \in Content |-> NoInode]
    /\ whole = {}
    /\ req = [r \in Request |-> Idle]
    /\ undercut = {}
    /\ shared = {}
    /\ orphaned = {}

Next == \E r \in Request : Arrive(r) \/ Proceed(r) \/ Rollback(r)

Spec == Init /\ [][Next]_vars

\* Ready tasks run, and a lock or a worker that is free again and again is
\* given to the one that waits.
FairSpec == Spec /\ \A r \in Request : SF_vars(Proceed(r))

-----------------------------------------------------------------------------
(* Properties.                                                             *)

\* A settled store: every row's file is there, whatever uploads, deletions and
\* removals of accounts overlapped; unless an upload relied on the file while a
\* deletion was bound to unlink it, or a deletion died between its unlink and its
\* commit.  These two are what RowsHaveFiles below reports: nothing else loses one.
FilesLostOnlyIfUndercut ==
    (\A r \in Request : At(r, "idle")) =>
        \A g \in Rows : target[gifs[g].content_hash] = NoInode =>
            gifs[g].content_hash \in undercut

\* What the raw endpoint replies is the content, although the file is prepared
\* while others read, writers die with it half written, and both workers do so;
\* unless two uploads had the same temporary file at once.
WholeUnlessShared == \A r \in Request :
    At(r, "raw_reply") /\ req[r].fd # NoInode => req[r].content \in shared

\* Even then a torn file is visible only while an upload that will complete it,
\* through the descriptor it still holds, is running; unless that one died.
TornFileIsBeingWritten ==
    \A c \in Content \ orphaned : target[c] \notin whole \cup {NoInode} =>
        \E r \in Request : At(r, "upload_write") /\ req[r].fd = target[c]

\* Concurrent uploads of the same bytes by one owner make one row, and the rows
\* of an account disappear with it although uploads were under way.
OneRowPerOwnerAndContent ==
    /\ \A g, h \in Rows : gifs[g] = gifs[h] => g = h
    /\ \A g \in Rows : gifs[g].owner_id \in owners

\* Every request ends, also those that wait for a lock held by another.
EveryRequestEnds == \A r \in Request : ~At(r, "idle") ~> At(r, "idle")

-----------------------------------------------------------------------------
(* What the documents say and the code does not do.                        *)

\* filesystem.py: "Write atomically: temp then replace."  What is replied is the
\* whole content.
ServedWhole == \A r \in Request : At(r, "raw_reply") => req[r].fd = NoInode

\* gifs.py: "Only remove the file if no other row references the same content."  And
\* ARCHITECTURE.md: "Delete removes the DB row then the file; orphan-file sweep is a
\* maintenance task."  A file may stay without a row, a row never without its file.
RowsHaveFiles ==
    (\A r \in Request : At(r, "idle")) =>
        \A g \in Rows : target[gifs[g].content_hash] # NoInode
=============================================================================
