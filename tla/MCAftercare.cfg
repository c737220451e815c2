SPECIFICATION Spec
CONSTANTS
    Units = {1, 2}
    Native = {20}
    Reach = 3
    MaxCommands = 3
    MaxKills = 1
    MaxFaults = 1
    Missing = missing
    Torn = torn
    Line <- MCLine
INVARIANT VerdictIsForIt
INVARIANT PageIsListed
PROPERTY RecoverIsWhole
PROPERTY NothingPaidIsLost
CHECK_DEADLOCK FALSE
