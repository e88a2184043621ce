SPECIFICATION Spec
CONSTANTS
    User = {u1, u2, u3}
    Member = {}
    Admin = admin
    Invite = {1}
    Request = {r1, r2}
    MaxUses = 1
    NoUser = NoUser
    NoInvite = NoInvite
    NoRow = NoRow
INVARIANTS SingleUse
