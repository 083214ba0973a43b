SPECIFICATION FairSpec
CONSTANTS
    a1 = a1
    r1 = r1
    Assets = {a1}
    Intraday = {a1}
    Rules = {r1}
    Watches <- OneAsset
    Prices = {1, 2}
    Shapes <- Low
    Jobs = {j1}
    Passes = {p1, p2}
    Editors = {e1}
    MaxSeen = 3
    RetryLimit = 1
    Bound <- AnyTwo
INVARIANTS
    TypeOK
    MailsMatchLog
PROPERTIES
    CrossingsClaimedOnce
    QuoteEvaluated
CHECK_DEADLOCK FALSE
