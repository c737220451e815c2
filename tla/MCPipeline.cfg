CONSTANTS
    NTools = 2
    Rerunnable <- SecondTool
    Rounds = 1
    MaxFaults = 2
SPECIFICATION FairSpec
INVARIANTS VerdictIsEarned HalvesOnDisk AccountIsTrue
PROPERTY StopEnds
CHECK_DEADLOCK FALSE
