SPECIFICATION Spec
CONSTANTS
    Clusters = {1, 2, 3}
    Pages = {}
    Agents = {a}
    Deciders = {d}
    MaxProfile = 2
    MaxRuns = 2
    MaxBuilds = 3
    MaxDecisions = 2
    MaxKills = 1
    Job = job
    Listed <- MCListed
INVARIANT NumberedForGood
INVARIANT FollowsTheDefect
PROPERTY GoodStaysGood
PROPERTY RebuildRepairs
CONSTRAINT FirstListOnly
CHECK_DEADLOCK FALSE
