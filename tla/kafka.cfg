\* One trigger, replays, faults and a restart.
SPECIFICATION FairSpec
CONSTANTS
    None = None
    Names = {n1}
    Subs = {s1}
    MaxRecords = 2
    MaxDate = 1
    MaxFaults = 1
    MaxRestarts = 1
    BoundChoices <- ReplayOrNot
INVARIANTS NothingSkipped
PROPERTIES CompleteIsFinal LoopStops
CHECK_DEADLOCK FALSE
