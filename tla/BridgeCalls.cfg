\* Two calls whose sockets linger while they close, revoked by either side.
SPECIFICATION FairSpec
CONSTANTS
    Grants = {g1}
    Calls = {c1, c2}
    Origins = {o1,o2}
    Sessions = {s1}
    NoSession = NoSession
    NoTarget = NoTarget
    MaxSockets = 3
    Targets = {1, 2, 3}
INVARIANTS
    WritesNeverReplayed
    PendingWaitsOnLive
    RevokedNeverPending
PROPERTIES
    WaitingReadsEnd
CHECK_DEADLOCK FALSE
