\* Two grants, idle for one tick and capped at three, with calls in flight.
SPECIFICATION FairVaultSpec
CONSTANTS
    Grants = {g1, g2}
    IdleTtl = 1
    MaxTtl = 3
    MaxCalls = 2
    LastUse = 2
INVARIANTS
    SweepArmed
PROPERTIES
    KeepsLease
    EveryGrantEnds
CHECK_DEADLOCK FALSE
