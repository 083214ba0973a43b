SPECIFICATION FairSpec
CONSTANTS
    b1 = b1
    b2 = b2
    b3 = b3
    b4 = b4
    k1 = k1
    k2 = k2
    Free = Free
    Batches = {b1, b2, b3, b4}
    Keys = {k1, k2}
    Copies <- FormCopies
    Forms <- MappedForms
    Parseable = {b1, b2, b3}
    Uploads <- AllAtOnce
    Runs = {r1}
    RetryLimit = 1
    Bound <- FaultOrDelete
INVARIANTS
    NoSilentLoss
PROPERTIES
    StagedAboveStored
    UploadsSettle
CHECK_DEADLOCK FALSE
