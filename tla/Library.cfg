SPECIFICATION MCSpec
CONSTANTS
    Gif = {1, 2, 3, 4}
    Old = {1, 3}
    Name = {a, b}
    a = a
    b = b
    NoName = NoName
    Account = {u, v}
    u = u
    v = v
    OwnerOf <- Owners
    BytesOf <- Bytes
    Filter = {a, NoName}
    Limit = 1
    NoCursor = NoCursor
    Order <- MCOrder
    Request = {r1, r2, r3}
    r1 = r1
    r2 = r2
    r3 = r3
INVARIANTS TagTypeOK WalkShowsSteadyOnce SingleEditsStopForDeletions
PROPERTIES FailuresNeedRival OnlyAskedChanges LoneEditsExact EveryEditEnds WalkEnds
CHECK_DEADLOCK FALSE
