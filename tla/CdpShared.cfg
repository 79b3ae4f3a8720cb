\* Three grants over two tabs, revoked at any time; the worker may die.
SPECIFICATION Spec
CONSTANTS
    Grants = {g1, g2, g3}
    Tabs = {t1, t2}
    NoTab = NoTab
    MaxDeaths = 2
INVARIANTS
    OrphansAreRaces
    BusyMeansOther
PROPERTIES
    ViewIsLive
    SharedSessionSurvives
SYMMETRY Symm
CHECK_DEADLOCK FALSE
