\* One agent, three pages, two turns; registration may fail, turns may end silently.
SPECIFICATION Spec
CONSTANTS
    Grants = {g1, g2, g3}
    Sessions = {s1}
    Targets = {t1}
    NoSession = NoSession
    NoTarget = NoTarget
    NoGrant = NoGrant
    MaxTurn = 2
    RegistrationMayFail = TRUE
    TurnEndMayBeLost = TRUE
SYMMETRY SymmGrants
INVARIANTS
    ConsumedHasOwner
    ClaimedNeverReplayable
    SurfaceMatchesPages
PROPERTIES
    DecisionIsWhole
CHECK_DEADLOCK FALSE
