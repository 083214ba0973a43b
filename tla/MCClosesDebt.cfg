SPECIFICATION Spec
CONSTANTS
    Assets = {a1, a2}
    Start = 2
    MaxDay = 4
    TradingDays = {1, 2, 4}
    YearEnds = {2}
    Supplied <- AllSupplied
    CatchUpMax = 2
    AnnualMin = 2
    Lookback = 1
    Bound <- Cuts
INVARIANTS
    NoDebt
CHECK_DEADLOCK FALSE
