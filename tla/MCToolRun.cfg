CONSTANTS
    NUnits = 3
    NJobs = 2
    Budget = 2
    Ceiling = 2
    Flood = 3
SPECIFICATION ToolFairSpec
INVARIANTS OutputBounded FewLateStarts AccountAgrees VerdictIsBorneOut
PROPERTY ToolEnds
CHECK_DEADLOCK FALSE
