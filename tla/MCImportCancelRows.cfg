SPECIFICATION Spec
CONSTANTS
    b1 = b1
    b2 = b2
    b3 = b3
    b4 = b4
    k1 = k1
    k2 = k2
    Free = Free
    Batches = {b1}
    Keys = {k1}
    Copies <- OverlapCopies
    Forms <- NoForms
    Parseable = {b1}
    Uploads <- OneByOne
    Runs = {r1}
    RetryLimit = 1
    Bound <- OneCancel
INVARIANT
    CancelLeavesNoRows
CHECK_DEADLOCK FALSE
