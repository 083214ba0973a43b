SPECIFICATION Spec
CONSTANTS
    MaxId = 9
    Assets = {"x", "y"}
    Insts = {"A", "B"}
    Days = {1, 2}
    Qtys = {1, 2}
    Prices = {1, 101}
    Groups = {1, 2}
    Starts <- LoopOnly
    Fine = 12
    MaxWrites = 1
    NoGroup = NoGroup
    NoPosition = NoPosition
INVARIANTS
    Settles
CHECK_DEADLOCK FALSE
