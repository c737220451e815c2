CONSTANTS
    MaxSteps = 2
    MaxReads = 1
    MaxFaults = 1
    MaxSaid = 2
    MaxEvents = 1
    MaxStops = 1
SPECIFICATION FairSpec
INVARIANTS SaidInOrder CallsAnswered StopIsForItsTurn
PROPERTY Answered
CHECK_DEADLOCK FALSE
