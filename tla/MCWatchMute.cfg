SPECIFICATION Spec
CONSTANTS
    a1 = a1
    r1 = r1
    Assets = {a1}
    Intraday = {a1}
    Rules = {r1}
    Watches <- OneAsset
    Prices = {1, 2, 3}
    Shapes <- LowOrBand
    Jobs = {j1}
    Passes = {p1, p2}
    Editors = {e1, e2}
    MaxSeen = 1
    RetryLimit = 1
    Bound <- TwoEdits
PROPERTIES
    MuteKeepsBounds
CHECK_DEADLOCK FALSE
