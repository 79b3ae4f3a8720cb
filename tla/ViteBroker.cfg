\* Two grants of a page that drops, returns and changes origin over three sockets.
SPECIFICATION Spec
CONSTANTS
    Grants = {g1, g2}
    Sessions = {s1}
    Targets <- MCTargets
    NoSession = NoSession
    NoTarget = NoTarget
    Calls = {c1}
    Ids = {p1}
    Origins = {o1, o2}
    MaxSockets = 3
    MaxTargets = 2
    MaxPerOrigin = 2
    MaxConcurrent = 2
INVARIANTS
    GrantFollowsTarget
    NoDeadWork
    WritesRunOnce
PROPERTIES
    PageKeepsItsHome
    AcceptedNeverReplayed
SYMMETRY Symm
CHECK_DEADLOCK FALSE
