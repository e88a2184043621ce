SPECIFICATION FairSpec
CONSTANTS
    User = {u1, u2}
    Device = {d1, d2}
    Token = {t1, t2, t3}
    Request = {r1, r2}
    NoUser = NoUser
    NoDevice = NoDevice
    NoToken = NoToken
    NoRow = NoRow
    NoPair = NoPair
INVARIANTS SessionInv TokenNamesOneDevice OnlySpentTokensRevoke DeadCredentialNeverServed
PROPERTIES ImplementsContract EveryRequestEnds
