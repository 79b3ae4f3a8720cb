\* Three pages of one agent when tools can be registered again and turns end.
SPECIFICATION FairSpec
CONSTANTS
    Grants = {g1, g2, g3}
    Sessions = {s1}
    Targets = {t1}
    NoSession = NoSession
    NoTarget = NoTarget
    NoGrant = NoGrant
    MaxTurn = 1
    RegistrationMayFail = FALSE
    TurnEndMayBeLost = FALSE
INVARIANTS
    AliasStable
PROPERTIES
    ClaimedIsEventuallyRevoked
CHECK_DEADLOCK FALSE
