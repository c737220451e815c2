SPECIFICATION Spec
CONSTANTS
    Units = {1}
    Native = {20}
    Reach = 3
    MaxCommands = 3
    MaxKills = 0
    MaxFaults = 0
    Missing = missing
    Torn = torn
    Line <- MCLine
INVARIANT RationaleIsItsOwn
CHECK_DEADLOCK FALSE
