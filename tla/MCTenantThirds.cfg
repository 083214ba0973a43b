SPECIFICATION Spec
CONSTANTS
    i1 = i1
    i2 = i2
    t1 = t1
    t2 = t2
    t3 = t3
    Share = 100
    NoRow = NoRow
    NoWallet = NoWallet
    Procs = {p1}
    Ids = {t1, t2}
    Insts = {i1}
    Dates = {1}
    Amounts <- ThirdAmounts
    Wallets = {1, 2, 3}
    Adds <- OneShare
    Loads <- OneSale
    Starts <- ThreeBought
INVARIANTS
    SaleFits
CHECK_DEADLOCK FALSE
