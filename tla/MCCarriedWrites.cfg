SPECIFICATION Spec
CONSTANTS
    MaxId = 9
    Assets = {"x", "y"}
    Insts = {"A", "B"}
    Days = {1, 2, 3}
    Qtys = {1, 2, 3}
    Prices = {1, 3}
    Groups = {1, 2}
    Starts <- AllStarts
    Fine = 12
    MaxWrites = 2
    NoGroup = NoGroup
    NoPosition = NoPosition
PROPERTIES
    EveryWriteRereads
CHECK_DEADLOCK FALSE
