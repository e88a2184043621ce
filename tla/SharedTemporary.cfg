SPECIFICATION Spec
CONSTANTS
    Owner = {o1, o2, o3}
    Admin = o1
    Content = {c1}
    Gif = {g1, g2, g3, g4}
    Inode = {n1, n2, n3, n4}
    Worker = {w1, w2}
    Request = {r1, r2, r3}
    Crashes = FALSE
    NoOwner = NoOwner
    NoContent = NoContent
    NoGif = NoGif
    NoInode = NoInode
    NoWorker = NoWorker
    NoRow = NoRow
INVARIANTS ServedWhole
