SPECIFICATION Spec
CONSTANTS
    i1 = i1
    i2 = i2
    t1 = t1
    t2 = t2
    t3 = t3
    Share = 144
    NoRow = NoRow
    NoWallet = NoWallet
    Procs = {p1, p2}
    Ids = {t1, t2}
    Insts = {i1}
    Dates = {1}
    Amounts <- SmallAmounts
    Wallets = {1, 2}
    Adds <- OneOrTwo
    Loads <- AllocateAndDelete
    Starts <- Bought2
SYMMETRY SymProcs
INVARIANTS
    SumInvariant
CHECK_DEADLOCK FALSE
