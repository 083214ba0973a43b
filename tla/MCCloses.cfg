SPECIFICATION FairSpec
CONSTANTS
    Assets = {a1, a2}
    Start = 2
    MaxDay = 4
    TradingDays = {1, 2, 4}
    YearEnds = {2}
    Supplied <- SomeMissing
    CatchUpMax = 2
    AnnualMin = 2
    Lookback = 1
    Bound <- Mixed
INVARIANTS
    TypeOK
    NoSilentHole
    RebuildAsked
PROPERTIES
    FinallyAgreed
    FinallyAnswered
CHECK_DEADLOCK FALSE
