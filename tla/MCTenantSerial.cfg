SPECIFICATION Spec
CONSTANTS
    i1 = i1
    i2 = i2
    t1 = t1
    t2 = t2
    t3 = t3
    Share = 144
    NoRow = NoRow
    NoWallet = NoWallet
    Procs = {p1}
    Ids = {t1, t2, t3}
    Insts = {i1, i2}
    Dates = {1, 2}
    Amounts <- LargeAmounts
    Wallets = {1, 2}
    Adds <- OneOrTwo
    Loads <- AnyTwo
    Starts <- Bought2
INVARIANTS
    TypeOK
    SumInvariant
    CacheIsReplay
    LedgerReplayable
CHECK_DEADLOCK FALSE
