CONSTANTS
    NTools = 2
    Rerunnable <- SecondTool
    Rounds = 1
    MaxFaults = 0
SPECIFICATION FairSpec
INVARIANT BothSidesHear
CHECK_DEADLOCK FALSE
