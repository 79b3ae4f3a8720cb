\* One grant over three sockets, one panel, one restart of the host.
SPECIFICATION Spec
CONSTANTS
    Grants = {g1}
    MaxSockets = 3
    Panels = {p1}
    NoPanel = NoPanel
    MaxRestarts = 1
INVARIANTS
    RecordsAccounted
    BindingsAccounted
    AuthorityScoped
CHECK_DEADLOCK FALSE
