CONSTANTS
    c1 = c1
    c2 = c2
    Agent = agent
    Clicks = {c1, c2}
    States = {1, 2}
    Grant = 1
    MayPress <- Buttons
    MayFail = {"close", "reviewed"}
    MaxCards = 1
    MaxJobs = 2
    MaxExports = 1
    MaxKills = 1
SPECIFICATION FairSpec
INVARIANTS NamedForGood GrantsAreReviews CallsClosedOnce
PROPERTIES ActsOnce JobSettles
CHECK_DEADLOCK FALSE
