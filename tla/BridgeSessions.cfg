\* Two extensions, drops, replacements and takeovers over three sockets.
SPECIFICATION Spec
CONSTANTS
    Grants = {g1, g2}
    Calls = {c1}
    Origins = {o1, o2}
    Sessions = {s1}
    NoSession = NoSession
    NoTarget = NoTarget
    MaxSockets = 3
    Targets = {1, 2, 3}
INVARIANTS
    RevokesBeforeWork
    RevocationReachesSession
PROPERTIES
    SessionsStayApart
CHECK_DEADLOCK FALSE
