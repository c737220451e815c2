CONSTANTS
    NUnits = 2
    NJobs = 2
    Budget = 2
    Ceiling = 2
    Flood = 3
SPECIFICATION ToolSpec
INVARIANT NothingOnceExhausted
CHECK_DEADLOCK FALSE
