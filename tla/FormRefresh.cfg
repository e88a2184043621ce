SPECIFICATION ConsoleSpec
CONSTANTS
    User = {u1}
    Device = {d1}
    Token = {t1, t2, t3, t4}
    Request = {r1, r2}
    NoUser = NoUser
    NoDevice = NoDevice
    NoToken = NoToken
    NoRow = NoRow
    NoPair = NoPair
SYMMETRY Symmetry
INVARIANTS FormsKeepSession
