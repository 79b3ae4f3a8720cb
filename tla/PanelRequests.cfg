\* Two requests through a buffer of two over three ports.
SPECIFICATION Spec
CONSTANTS
    Requests = {r1, r2}
    MaxBuffer = 2
    MaxPorts = 3
    MaxConnects = 2
INVARIANTS
    NeverReordered
    BufferedOnlyWithoutPort
    GrantsWanted
SYMMETRY Symm
CHECK_DEADLOCK FALSE
