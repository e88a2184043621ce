SPECIFICATION MCSpec
CONSTANTS
    User = {u1, u2, u3}
    Member = {u1}
    Admin = admin
    Invite = {1, 2}
    Request = {r1, r2}
    MaxUses = 2
    NoUser = NoUser
    NoInvite = NoInvite
    NoRow = NoRow
INVARIANTS TypeOK CountWithinLimit FailuresCostNoUse ReferencesExist
PROPERTIES EveryRequestEnds ClearTakesOnlyDead RevocationSurvives ImplementsAccounts
