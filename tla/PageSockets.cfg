\* Two overlapping activations, two calls, three connections.
SPECIFICATION Spec
CONSTANTS
    Activations = {a1, a2}
    Calls = {c1, c2}
    MaxLinks = 3
INVARIANTS
    AnsweredWhereAsked
    OneConnection
    DisposedIsQuiet
PROPERTIES
    ConnectingEnds
CHECK_DEADLOCK FALSE
