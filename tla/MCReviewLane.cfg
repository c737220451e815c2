CONSTANTS
    None = None
    job = job
    Workers = {job}
    Chats = {c}
    Tokens = {t1, t2}
    ResumeAfter = 1
    NPlan = 2
    Budget = 2
    MaxCost = 2
    ReplyCost = 1
    Raising = {3}
    BreakerLimit = 2
    MaxFollowUps = 1
    MaxPlanned = 3
    Lengths <- MCLengths
SPECIFICATION LaneFairSpec
INVARIANTS InOrder BreakerIsRight
PROPERTIES LaneIsEngine StopEnds JobEnds
CHECK_DEADLOCK FALSE
