SPECIFICATION FairSpec
CONSTANTS
    Owner = {o1, o2}
    Admin = o1
    Content = {c1}
    Gif = {g1, g2}
    Inode = {n1, n2}
    Worker = {w1, w2}
    Request = {r1, r2}
    Crashes = TRUE
    NoOwner = NoOwner
    NoContent = NoContent
    NoGif = NoGif
    NoInode = NoInode
    NoWorker = NoWorker
    NoRow = NoRow
INVARIANTS TypeOK FilesLostOnlyIfUndercut WholeUnlessShared TornFileIsBeingWritten OneRowPerOwnerAndContent
PROPERTIES EveryRequestEnds
