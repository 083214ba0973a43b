SPECIFICATION FairSpec
CONSTANTS
    i1 = i1
    i2 = i2
    t1 = t1
    t2 = t2
    t3 = t3
    Share = 144
    NoRow = NoRow
    NoWallet = NoWallet
    Procs = {p1, p2}
    Ids = {t1, t2, t3}
    Insts = {i1, i2}
    Dates = {1}
    Amounts <- TinyAmounts
    Wallets = {1, 2}
    Adds <- OneShare
    Loads <- Concurrent
    Starts <- OneEach
INVARIANT
    SumInvariant
PROPERTIES
    KeepsWalletPromise
    TxEnds
CHECK_DEADLOCK FALSE
