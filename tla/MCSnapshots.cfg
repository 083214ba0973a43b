SPECIFICATION FairSpec
CONSTANTS
    Ids = {t1}
    Editors = {e1}
    Capture = Capture
    Passes = {p1, p2}
    Today = 2
    MaxDay = 3
    RetryLimit = 1
    Bound <- Mixed
INVARIANTS
    TypeOK
    SettledExact
PROPERTY
    FinallyExact
CHECK_DEADLOCK FALSE
