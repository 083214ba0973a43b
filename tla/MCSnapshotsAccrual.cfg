SPECIFICATION Spec
CONSTANTS
    Ids = {t1}
    Editors = {e1, e2}
    Capture = Capture
    Passes = {p1, p2}
    Today = 2
    MaxDay = 3
    RetryLimit = 1
    Bound <- WithAccrual
INVARIANTS
    RequestsSuffice
CHECK_DEADLOCK FALSE
