SPECIFICATION Spec
CONSTANTS
    Owner = {o1}
    Admin = o1
    Content = {c1}
    Gif = {g1}
    Inode = {n1}
    Worker = {w1}
    Request = {r1}
    Crashes = TRUE
    NoOwner = NoOwner
    NoContent = NoContent
    NoGif = NoGif
    NoInode = NoInode
    NoWorker = NoWorker
    NoRow = NoRow
INVARIANTS RowsHaveFiles
