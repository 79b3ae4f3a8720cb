\* Two grants and two calls on a tab that shows three documents of two origins.
SPECIFICATION Spec
CONSTANTS
    Grants = {g1, g2}
    c1 = c1
    c2 = c2
    Calls = {c1, c2}
    Tools <- MixedTools
    Kinds = {"fill", "open", "check"}
    Origins = {o1, o2}
    Home = o1
    MaxDocs = 3
    MaxActions = 1
    MaxDetaches = 1
INVARIANTS
    OneOriginPerWindow
    RefsOfThisDocument
    HandlesReturned
    ExecutedOnce
PROPERTIES
    StrayWritesAreRaces
SYMMETRY Symm
CHECK_DEADLOCK FALSE
