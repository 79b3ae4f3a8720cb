\* A request is aborted while the background reads its tab.
SPECIFICATION Spec
CONSTANTS
    Requests = {r1}
    MaxBuffer = 1
    MaxPorts = 1
    MaxConnects = 1
INVARIANTS
    AbortEndsGrant
CHECK_DEADLOCK FALSE
