SPECIFICATION Spec
CONSTANTS
    b1 = b1
    b2 = b2
    b3 = b3
    b4 = b4
    k1 = k1
    k2 = k2
    Free = Free
    Batches = {b1, b2}
    Keys = {k1}
    Copies <- OverlapCopies
    Forms <- NoForms
    Parseable = {b1, b2}
    Uploads <- OneByOne
    Runs = {r1, r2}
    RetryLimit = 1
    Bound <- AnyTwo
SYMMETRY SymRuns
INVARIANTS
    TypeOK
    NoOverImport
    CommitsExclusive
    FileKept
    StagedOnce
PROPERTIES
    KeepsPromise
    TerminalStable
CHECK_DEADLOCK FALSE
