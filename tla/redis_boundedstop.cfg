\* The end bound check overwrites exitLoop.
SPECIFICATION FairSpec
CONSTANTS
    None = None
    Names = {n1}
    Subs = {s1}
    Instances = {i1}
    MaxId = 2
    MaxFaults = 0
    MaxRestarts = 0
    StreamMaxLen = 0
    SeqBase = 10
    MaxDigits = 2
    BoundChoices <- ReplayToLast
PROPERTIES LoopStops
CHECK_DEADLOCK FALSE
