SPECIFICATION FairSpec
CONSTANTS
    NUnits = 3
    Pool = 2
    Ceiling = 2
    Jobs = 1
    Prompt <- PromptOf
    PromptBudget = 3
    Reservation = 1
    CompletionBudget = 2
    BreakerLimit = 1
    Cached = {}
    Named = {{2}}
    Raising = {2}
    Rounds = 1
    MaxCommands = 3
INVARIANTS NeverLost WithinBudget DeadEndpoint
PROPERTY PhaseEnds
CHECK_DEADLOCK FALSE
